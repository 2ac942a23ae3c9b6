------------------------ MODULE TopologyRuntimeProofs ------------------------
(* Proofs about module TopologyRuntime, for every set of agents, calls of      *)
(* evolve and links, every policy, and every behaviour of agents and host:     *)
(* one invariant of the universe, of each call and of the two together.        *)
EXTENDS TopologyRuntime, FiniteSetTheorems, SequenceTheorems, WellFoundedInduction, TLAPS

-----------------------------------------------------------------------------
(* Types. *)

\* Members of a match are two agents.
Match == {m \in Agent \X Agent : m[1] # m[2]}

IsUniverse(u) ==
    /\ u \in [life : [Agent -> AgentLifecycle], held : [Agent -> SUBSET LinkId],
              link : {u.link}, links : SUBSET LinkId, ads : [Agent -> Nat \union {NoAd}],
              cooldown : SUBSET SUBSET Agent]
    /\ DOMAIN u.link \subseteq LinkId
    /\ u.link \in [DOMAIN u.link -> Link]

AnySession ==
    [status : {"asked", "refused"} \union Final, purpose : {"formation", "renegotiation"},
     proposer : Agent, recipient : Agent, terms : Terms, offer : Nat, score : Nat,
     estimate : Nat]

ProjectTask == [kind : {"project"}, turn : Nat, author : Agent, was : Lifecycle]
SuggestTask == [kind : {"suggest"}, proposer : Agent, terms : Terms, was : Lifecycle]
ReviewTask == [kind : {"review"}, proposer : Agent, terms : Terms, was : Lifecycle,
               session : AnySession]
Task == {NoTask} \union ProjectTask \union SuggestTask \union ReviewTask

Call ==
    [phase : {"idle", "scoring", "negotiating", "formed", "synchronizing", "adapting"},
     calls : Nat, queue : Seq(Match), match : {<<>>} \union Match,
     session : {NoSession} \union AnySession,
     saved : {<<>>} \union (AgentLifecycle \X AgentLifecycle),
     accepted : [Agent -> Nat], tasks : [LinkId -> Task]]

-----------------------------------------------------------------------------
(* The universe. *)

\* Whoever holds a link knows it.
Closed(u) ==
    /\ u.links \subseteq DOMAIN u.link
    /\ \A a \in Agent : u.held[a] \subseteq DOMAIN u.link

OneLink(u) ==
    \A i, j \in u.links : Members(u.link[i]) = Members(u.link[j]) => i = j

Mirrors(u) ==
    /\ \A id \in u.links : \A a \in Members(u.link[id]) : id \in u.held[a]
    /\ \A a \in Agent : \A id \in u.held[a] :
         id \in u.links /\ a \in Members(u.link[id])

\* Where nobody connects or contradicts, a link that counts as active has served
\* the probation of both.
Counted == scenario.host \intersect {"connect", "contradict"} = {}

Settled == {"active", "strengthening", "weakening", "dormant", "conflicted", "renegotiating"}

Served(l) == \A a \in Members(l) : l.useful >= Policy(a).need

Suits(l) == \A a \in Members(l) : TermsSupportedBy(l.terms, Policy(a))

Agreed(l) ==
    /\ ~HostMay("connect") => Suits(l)
    /\ Counted /\ l.lifecycle \in Settled => Served(l)

Sound(u) ==
    /\ Closed(u) /\ OneLink(u)
    /\ \A id \in DOMAIN u.link : Agreed(u.link[id])

-----------------------------------------------------------------------------
(* The calls of evolve. *)

\* A session is held by the two it is about, and accepted for what both support.
Held(s, agents) ==
    /\ {s.proposer, s.recipient} = agents
    /\ s.status = "accepted" => Supported(s.terms, s.proposer, s.recipient)

\* A task is about a link that was made; one that may settle its link is about a
\* link that has served.
TaskFits(u, id, t) ==
    /\ t # NoTask => id \in DOMAIN u.link
    /\ t.kind = "project" /\ t.was = "dormant" /\ Counted => Served(u.link[id])
    /\ t.kind \in {"suggest", "review"} =>
         /\ t.proposer \in Members(u.link[id])
         /\ Counted => Served(u.link[id])
    /\ t.kind = "review" => Held(t.session, Members(u.link[id]))

\* The links a call works at, by its phase.
KindsOf(phase) ==
    CASE phase = "synchronizing" -> {"none", "project"}
      [] phase = "adapting" -> {"none", "suggest", "review"}
      [] OTHER -> {"none"}

Fits(u, x) ==
    /\ x.phase = "negotiating" =>
         /\ x.match \in Match /\ x.session \in AnySession
         /\ x.saved \in AgentLifecycle \X AgentLifecycle
         /\ Held(x.session, PairOf(x.match))
    /\ \A id \in LinkId : TaskFits(u, id, x.tasks[id]) /\ x.tasks[id].kind \in KindsOf(x.phase)

CallsFit(u, calls) == \A r \in Round : Fits(u, calls[r])

\* Each negotiation has an id for the link it may make.
Parties(calls) == {r \in Round : calls[r].phase = "negotiating"}

IdsSuffice(u, calls) == Cardinality(FreeIds(u)) >= Cardinality(Parties(calls))

\* A call that nobody makes does nothing; where one call alone makes links, both
\* agents of its match keep the room that was found.
RoomKept(u, calls) ==
    /\ \A r \in Round : Calls(r) = 0 => calls[r].phase = "idle"
    /\ MakesLinksAlone =>
         /\ Mirrors(u)
         /\ \A r \in Parties(calls) : \A a \in PairOf(calls[r].match) : Capacity(u, a) > 0

\* Whoever negotiates and whatever is renegotiated has a session.
Quiet(u, calls) ==
    /\ \A a \in Agent :
         u.life[a] = "negotiating" =>
           \E r \in Parties(calls) : a \in PairOf(calls[r].match)
    /\ \A id \in u.links :
         u.link[id].lifecycle = "renegotiating" =>
           \E r \in Round : calls[r].tasks[id].kind = "review"

Fine(u, calls) ==
    /\ IsUniverse(u) /\ calls \in [Round -> Call]
    /\ Sound(u) /\ CallsFit(u, calls) /\ IdsSuffice(u, calls)
    /\ RoomKept(u, calls) /\ Quiet(u, calls)

IInv == scenario \in Scenario /\ Fine(universe, round)

-----------------------------------------------------------------------------
(* Naturals and terms. *)

(* A set that holds 0 and with each natural the next holds all of them. *)
LEMMA NatSetInduction ==
    ASSUME NEW S, 0 \in S, \A n \in Nat : n \in S => n + 1 \in S
    PROVE  Nat \subseteq S
<1> DEFINE outside == {n \in Nat : n \notin S}
<1> DEFINE less == OpToRel(<, Nat)
<1>1. IsWellFoundedOn(less, Nat)
  BY NatLessThanWellFounded
<1>2. \A x, y \in Nat : y < x => <<y, x>> \in less
  BY DEF OpToRel
<1> SUFFICES ASSUME outside # {} PROVE FALSE
  OBVIOUS
<1>3. \E x \in outside : \A y \in outside : ~ (<<y, x>> \in less)
  <2>1. outside \subseteq Nat
    OBVIOUS
  <2> HIDE DEF outside, less
  <2> QED BY <1>1, <2>1, WFMin
<1>4. PICK x \in outside : \A y \in outside : ~ (<<y, x>> \in less)
  BY <1>3
<1> HIDE DEF less
<1>5. x # 0 /\ x - 1 \in Nat /\ x - 1 < x /\ (x - 1) + 1 = x
  OBVIOUS
<1>6. x - 1 \in outside
  BY <1>5
<1> QED BY <1>2, <1>4, <1>5, <1>6

(* The least of some naturals is one of them. *)
LEMMA LeastIs ==
    ASSUME NEW S, S \subseteq Nat, S # {}
    PROVE  Least(S) \in S /\ \A y \in S : Least(S) <= y
<1> DEFINE less == OpToRel(<, Nat)
<1>1. IsWellFoundedOn(less, Nat)
  BY NatLessThanWellFounded
<1>2. \A x, y \in Nat : y < x => <<y, x>> \in less
  BY DEF OpToRel
<1> HIDE DEF less
<1>3. PICK x \in S : \A y \in S : ~ (<<y, x>> \in less)
  BY <1>1, WFMin
<1>4. ASSUME NEW y \in S PROVE x <= y
  <2>1. x \in Nat /\ y \in Nat /\ ~ (<<y, x>> \in less)
    BY <1>3
  <2>2. ~ (y < x)
    BY <1>2, <2>1
  <2> QED BY <2>1, <2>2
<1> QED BY <1>3, <1>4 DEF Least

(* The least and the most of two or three naturals. *)
LEMMA Extremes ==
    ASSUME NEW a \in Nat, NEW b \in Nat, NEW c \in Nat
    PROVE  /\ Least({a, b}) \in {a, b} /\ Least({a, b}) <= a /\ Least({a, b}) <= b
           /\ Least({a, b, c}) \in {a, b, c}
           /\ Most({a, b}) \in {a, b} /\ Most({a, b}) >= a /\ Most({a, b}) >= b
           /\ Most({a, b, c}) \in {a, b, c}
<1>1. Least({a, b}) \in {a, b} /\ \A y \in {a, b} : Least({a, b}) <= y
  BY LeastIs
<1>2. Least({a, b, c}) \in {a, b, c}
  BY LeastIs
<1>3. \E x \in {a, b} : \A y \in {a, b} : x >= y
  <2>1. CASE a >= b
    BY <2>1
  <2>2. CASE b >= a
    BY <2>2
  <2> QED BY <2>1, <2>2
<1>4. Most({a, b}) \in {a, b} /\ \A y \in {a, b} : Most({a, b}) >= y
  BY <1>3 DEF Most
<1>5. PICK m \in {a, b} : \A y \in {a, b} : m >= y
  BY <1>3
<1>6. \E x \in {a, b, c} : \A y \in {a, b, c} : x >= y
  <2>1. CASE m >= c
    BY <1>5, <2>1
  <2>2. CASE c >= m
    BY <1>5, <2>2
  <2> QED BY <1>5, <2>1, <2>2
<1>7. Most({a, b, c}) \in {a, b, c}
  BY <1>6 DEF Most
<1> QED BY <1>1, <1>2, <1>4, <1>7

(* A common mode is a mode. *)
LEMMA FirstCommonType ==
    ASSUME NEW p \in Seq(TurnMode), NEW q \in Seq(TurnMode)
    PROVE  FirstCommon(p, q) \in TurnMode \union {"none"}
<1> DEFINE common == {i \in DOMAIN p : \E j \in DOMAIN q : q[j] = p[i]}
<1>1. DOMAIN p \subseteq Nat /\ \A i \in DOMAIN p : p[i] \in TurnMode
  OBVIOUS
<1>2. common # {} => Least(common) \in common
  BY <1>1, LeastIs
<1> QED BY <1>1, <1>2 DEF FirstCommon

(* Terms that have a mode are terms. *)
LEMMA NegotiatedType ==
    ASSUME NEW p \in AgentPolicy, NEW q \in AgentPolicy,
           NegotiateInitialTerms(p, q).mode # "none"
    PROVE  NegotiateInitialTerms(p, q) \in Terms
<1>1. /\ p.modes \in Seq(TurnMode) /\ q.modes \in Seq(TurnMode)
      /\ p.cost \in Nat /\ q.cost \in Nat
      /\ p.need \in 1 .. MaxInteractions /\ q.need \in 1 .. MaxInteractions
  BY DEF AgentPolicy
<1>2. FirstCommon(p.modes, q.modes) \in TurnMode \union {"none"}
  BY <1>1, FirstCommonType
<1>3. p.need \in Nat /\ q.need \in Nat
  BY <1>1, LinkAssumption
<1>4. Least({p.cost, q.cost}) \in {p.cost, q.cost}
  BY <1>1, Extremes
<1>5. Most({p.need, q.need}) \in {p.need, q.need}
  BY <1>3, Extremes
<1> QED BY <1>1, <1>2, <1>4, <1>5 DEF NegotiateInitialTerms, Terms

(* And so are the stricter of the terms and two policies. *)
LEMMA StricterType ==
    ASSUME NEW terms \in Terms, NEW p \in AgentPolicy, NEW q \in AgentPolicy,
           StricterTerms(terms, p, q).mode # "none"
    PROVE  StricterTerms(terms, p, q) \in Terms
<1>1. /\ p.modes \in Seq(TurnMode) /\ q.modes \in Seq(TurnMode)
      /\ p.cost \in Nat /\ q.cost \in Nat
      /\ p.need \in 1 .. MaxInteractions /\ q.need \in 1 .. MaxInteractions
      /\ terms.mode \in TurnMode /\ terms.cost \in Nat
      /\ terms.need \in 1 .. MaxInteractions
  BY DEF AgentPolicy, Terms
<1>2. FirstCommon(p.modes, q.modes) \in TurnMode \union {"none"}
  BY <1>1, FirstCommonType
<1>3. p.need \in Nat /\ q.need \in Nat /\ terms.need \in Nat
  BY <1>1, LinkAssumption
<1>4. Least({terms.cost, p.cost, q.cost}) \in {terms.cost, p.cost, q.cost}
  BY <1>1, Extremes
<1>5. Most({terms.need, p.need, q.need}) \in {terms.need, p.need, q.need}
  BY <1>3, Extremes
<1> QED BY <1>1, <1>2, <1>4, <1>5 DEF StricterTerms, Terms

(* A patch takes each term from the one side or from the other. *)
LEMMA PatchedTerms ==
    ASSUME NEW terms \in Terms, NEW current \in Terms, NEW next \in Terms,
           NEW p, p = ApplyProtocolPatch(terms, ProtocolPatchBetween(current, next))
    PROVE  /\ p \in Terms
           /\ p.mode \in {terms.mode, next.mode}
           /\ p.cost \in {terms.cost, next.cost}
           /\ p.need \in {terms.need, next.need}
<1>1. /\ DOMAIN terms = {"mode", "cost", "need"}
      /\ DOMAIN current = {"mode", "cost", "need"}
  BY DEF Terms
<1> DEFINE patch == ProtocolPatchBetween(current, next)
<1>2. \A f \in DOMAIN patch : patch[f] = next[f]
  BY DEF ProtocolPatchBetween
<1>3. /\ p = [f \in {"mode", "cost", "need"} |->
                IF f \in DOMAIN patch THEN patch[f] ELSE terms[f]]
  BY <1>1 DEF ApplyProtocolPatch
<1> HIDE DEF patch
<1>4. \A f \in {"mode", "cost", "need"} : p[f] \in {terms[f], next[f]}
  BY <1>2, <1>3
<1>5. /\ p = [mode |-> p.mode, cost |-> p.cost, need |-> p.need]
  BY <1>3
<1>6. /\ p.mode \in {terms.mode, next.mode}
      /\ p.cost \in {terms.cost, next.cost}
      /\ p.need \in {terms.need, next.need}
  BY <1>4
<1> QED BY <1>5, <1>6 DEF Terms

(* Of terms that a policy supports, a patch makes terms it supports. *)
LEMMA PatchedSupported ==
    ASSUME NEW terms \in Terms, NEW current \in Terms, NEW next \in Terms,
           NEW policy, TermsSupportedBy(terms, policy), TermsSupportedBy(next, policy)
    PROVE  TermsSupportedBy(ApplyProtocolPatch(terms, ProtocolPatchBetween(current, next)),
                            policy)
<1> DEFINE p == ApplyProtocolPatch(terms, ProtocolPatchBetween(current, next))
<1>1. /\ p.mode \in {terms.mode, next.mode}
      /\ p.cost \in {terms.cost, next.cost}
      /\ p.need \in {terms.need, next.need}
  BY PatchedTerms
<1> HIDE DEF p
<1>2. TermsSupportedBy(p, policy)
  BY <1>1 DEF TermsSupportedBy
<1> QED BY <1>2 DEF p

-----------------------------------------------------------------------------
(* Links. *)

\* What no step on a link takes from it; all but a mutation of the protocol
\* leave the terms as they are.
Later(l, k) ==
    /\ k \in Link /\ k.left = l.left /\ k.right = l.right /\ k.useful >= l.useful

Kept(l, k) == Later(l, k) /\ k.terms = l.terms

(* The fields of a link. *)
LEMMA LinkFields ==
    ASSUME NEW l \in Link
    PROVE  /\ l.left \in Agent /\ l.right \in Agent /\ l.lifecycle \in Lifecycle
           /\ l.terms \in Terms /\ l.turn \in Side
           /\ l.useful \in Nat /\ l.useful <= MaxInteractions
           /\ l.unreviewed \in 0 .. ReviewEvery
BY LinkAssumption DEF Link

(* One more revision. *)
LEMMA RevisedKept ==
    ASSUME NEW l \in Link
    PROVE  Kept(l, Revised(l)) /\ Revised(l).lifecycle = l.lifecycle
<1>1. l.unreviewed \in Nat /\ l.unreviewed <= ReviewEvery /\ ReviewEvery \in Nat
  BY LinkFields, LinkAssumption
<1>2. Least({l.unreviewed + 1, ReviewEvery}) \in 0 .. ReviewEvery
  <2>1. /\ Least({l.unreviewed + 1, ReviewEvery}) \in {l.unreviewed + 1, ReviewEvery}
        /\ Least({l.unreviewed + 1, ReviewEvery}) <= ReviewEvery
    BY <1>1, Extremes
  <2> QED BY <1>1, <2>1
<1> DEFINE n == Least({l.unreviewed + 1, ReviewEvery})
<1>3. Revised(l) = [l EXCEPT !.unreviewed = n]
  BY DEF Revised
<1> HIDE DEF n
<1>4. Revised(l) \in Link /\ l.useful \in Nat
  BY <1>2, <1>3, LinkFields DEF Link, n
<1>5. /\ Revised(l).left = l.left /\ Revised(l).right = l.right
      /\ Revised(l).useful = l.useful /\ Revised(l).terms = l.terms
      /\ Revised(l).lifecycle = l.lifecycle
  BY <1>3 DEF Link
<1> QED BY <1>4, <1>5 DEF Kept, Later

(* A turn that is passed. *)
LEMMA WrittenKept ==
    ASSUME NEW l \in Link, NEW author
    PROVE  /\ Kept(l, Written(l, author)) /\ Written(l, author).lifecycle = l.lifecycle
           /\ Written(l, author).useful = l.useful
<1>1. Kept(l, Revised(l)) /\ Revised(l).lifecycle = l.lifecycle
  BY RevisedKept
<1>2. NextTurn(l, author) \in Side
  BY LinkFields DEF NextTurn, OppositeSide, Side
<1> DEFINE r == Revised(l)
<1>3. Written(l, author) = [r EXCEPT !.turn = NextTurn(l, author)] /\ r.useful = l.useful
  BY DEF Written, Revised, Link
<1>4. r \in Link
  BY <1>1 DEF Kept, Later
<1> HIDE DEF r
<1>5. Written(l, author) \in Link
  BY <1>2, <1>3, <1>4 DEF Link
<1>6. /\ Written(l, author).left = r.left /\ Written(l, author).right = r.right
      /\ Written(l, author).useful = r.useful /\ Written(l, author).terms = r.terms
      /\ Written(l, author).lifecycle = r.lifecycle
  BY <1>3, <1>4 DEF Link
<1> QED BY <1>1, <1>3, <1>5, <1>6 DEF Kept, Later, r

(* A useful update. *)
LEMMA MutateKept ==
    ASSUME NEW l \in Link, NEW author
    PROVE  Kept(l, Mutate(l, author)) /\ Mutate(l, author).lifecycle = l.lifecycle
<1> DEFINE w == Written(l, author)
           n == Least({w.useful + 1, MaxInteractions})
<1>1. Kept(l, w) /\ w.lifecycle = l.lifecycle /\ w \in Link /\ w.useful = l.useful
  BY WrittenKept DEF Kept, Later
<1>2. Mutate(l, author) = [w EXCEPT !.useful = n]
  BY DEF Mutate
<1> HIDE DEF w
<1>3. w.useful \in Nat /\ w.useful <= MaxInteractions /\ MaxInteractions \in Nat
  BY <1>1, LinkFields, LinkAssumption
<1>4. n \in {w.useful + 1, MaxInteractions} /\ n <= MaxInteractions
  BY <1>3, Extremes
<1>5. n \in 0 .. MaxInteractions /\ n >= w.useful
  BY <1>3, <1>4
<1> HIDE DEF n
<1>6. Mutate(l, author) \in Link
  BY <1>1, <1>2, <1>5 DEF Link
<1>7. /\ Mutate(l, author).left = w.left /\ Mutate(l, author).right = w.right
      /\ Mutate(l, author).useful = n /\ Mutate(l, author).terms = w.terms
      /\ Mutate(l, author).lifecycle = w.lifecycle
  BY <1>1, <1>2 DEF Link
<1> QED BY <1>1, <1>5, <1>6, <1>7 DEF Kept, Later

(* A review that is due is marked. *)
LEMMA MarkedKept ==
    ASSUME NEW l \in Link
    PROVE  Kept(l, MarkProtocolReviewed(l)) /\ MarkProtocolReviewed(l).lifecycle = l.lifecycle
<1> DEFINE k == MarkProtocolReviewed(l)
<1>1. k = [l EXCEPT !.unreviewed = 0]
  BY DEF MarkProtocolReviewed
<1> HIDE DEF k
<1>2. k \in Link /\ l.useful \in Nat
  BY <1>1, LinkFields, LinkAssumption DEF Link
<1>3. /\ k.left = l.left /\ k.right = l.right /\ k.useful = l.useful
      /\ k.terms = l.terms /\ k.lifecycle = l.lifecycle
  BY <1>1 DEF Link
<1> QED BY <1>2, <1>3 DEF Kept, Later, k

(* A transition leaves all but the lifecycle. *)
LEMMA TransitionKept ==
    ASSUME NEW l \in Link, NEW lifecycle \in Lifecycle
    PROVE  /\ Kept(l, RuntimeTransition(l, lifecycle))
           /\ RuntimeTransition(l, lifecycle).lifecycle = lifecycle
<1>1. CASE l.lifecycle = lifecycle
  BY <1>1, LinkFields DEF RuntimeTransition, Kept, Later
<1>2. CASE l.lifecycle # lifecycle
  <2> DEFINE r == Revised(l)
             k == RuntimeTransition(l, lifecycle)
  <2>1. Kept(l, r) /\ r \in Link
    BY RevisedKept DEF Kept, Later
  <2>2. k = [r EXCEPT !.lifecycle = lifecycle]
    BY <1>2 DEF RuntimeTransition
  <2> HIDE DEF r, k
  <2>3. k \in Link
    BY <2>1, <2>2 DEF Link
  <2>4. /\ k.left = r.left /\ k.right = r.right /\ k.useful = r.useful
        /\ k.terms = r.terms /\ k.lifecycle = lifecycle
    BY <2>1, <2>2 DEF Link
  <2> QED BY <2>1, <2>3, <2>4 DEF Kept, Later, k
<1> QED BY <1>1, <1>2

(* One step on a link after another. *)
LEMMA KeptTwice ==
    ASSUME NEW l \in Link, NEW k, NEW m, Kept(l, k), Kept(k, m)
    PROVE  Kept(l, m)
<1>1. l.useful \in Nat /\ k.useful \in Nat /\ m.useful \in Nat
  BY LinkFields DEF Kept, Later
<1> QED BY <1>1 DEF Kept, Later

(* What a review makes of a link: nobody begins a renegotiation, and a link   *)
(* that counts as active did before or has served its terms.                  *)
LEMMA ReviewKept ==
    ASSUME NEW l \in Link, NEW strength, NEW late,
           NEW k, k = ReviewLifecycle(l, strength, late)
    PROVE  /\ Kept(l, k)
           /\ k.lifecycle = "renegotiating" => l.lifecycle = "renegotiating"
           /\ k.lifecycle \in Settled => l.lifecycle \in Settled \/ k.useful >= k.terms.need
<1> DEFINE to == CASE strength = Gone -> "dormant"
                   [] strength = Strong -> "strengthening"
                   [] strength = Weak -> "weakening"
                   [] OTHER -> "active"
<1>1. to \in {"dormant", "strengthening", "weakening", "active"}
  OBVIOUS
<1> HIDE DEF to
<1> DEFINE Activated == /\ l.lifecycle = "probation" /\ l.useful >= l.terms.need
                        /\ k = RuntimeTransition(l, "active")
           Ended == k = RuntimeTransition(l, "retired")
           Moved == /\ l.lifecycle \in {"active", "strengthening", "weakening"}
                    /\ k = RuntimeTransition(l, to)
           Left == k = l
<1>2. Activated \/ Ended \/ Moved \/ Left
  BY DEF ReviewLifecycle, to
<1>3. CASE Activated
  <2>1. Kept(l, k) /\ k.lifecycle = "active"
    BY <1>3, TransitionKept DEF Lifecycle
  <2>2. k.useful >= k.terms.need
    <3>1. l.useful \in Nat /\ k.useful \in Nat /\ l.terms.need \in Nat
      BY <2>1, LinkFields, LinkAssumption DEF Kept, Later, Terms
    <3> QED BY <1>3, <2>1, <3>1 DEF Kept, Later
  <2> QED BY <2>1, <2>2
<1>4. CASE Ended
  <2>1. Kept(l, k) /\ k.lifecycle = "retired"
    BY <1>4, TransitionKept DEF Lifecycle
  <2> QED BY <2>1 DEF Settled
<1>5. CASE Moved
  <2>1. Kept(l, k) /\ k.lifecycle = to
    BY <1>1, <1>5, TransitionKept DEF Lifecycle
  <2> QED BY <1>1, <1>5, <2>1 DEF Settled
<1>6. CASE Left
  BY <1>6, LinkFields DEF Kept, Later
<1> QED BY <1>2, <1>3, <1>4, <1>5, <1>6

(* A link that is resumed is not being renegotiated any more, unless it was   *)
(* not and is not.                                                            *)
LEMMA ResumedKept ==
    ASSUME NEW l \in Link, NEW previous \in Lifecycle,
           NEW k, k = ResumeAfterRenegotiation(l, previous)
    PROVE  /\ Kept(l, k) /\ k.lifecycle # "renegotiating"
           /\ k.lifecycle \in Lifecycle
<1>1. CASE l.lifecycle # "renegotiating"
  BY <1>1, LinkFields DEF ResumeAfterRenegotiation, Kept, Later
<1>2. CASE l.lifecycle = "renegotiating"
  <2> DEFINE to == IF previous \in {"active", "strengthening", "weakening", "conflicted"}
                   THEN previous ELSE "active"
  <2>1. to \in {"active", "strengthening", "weakening", "conflicted"}
    OBVIOUS
  <2>2. k = RuntimeTransition(l, to)
    BY <1>2 DEF ResumeAfterRenegotiation
  <2> HIDE DEF to
  <2>3. Kept(l, k) /\ k.lifecycle = to
    BY <2>1, <2>2, TransitionKept DEF Lifecycle
  <2> QED BY <2>1, <2>3 DEF Lifecycle
<1> QED BY <1>1, <1>2

(* A patch of the protocol changes the terms and leaves the lifecycle.        *)
LEMMA PatchedLater ==
    ASSUME NEW l \in Link, NEW author, NEW current \in Terms, NEW next \in Terms,
           NEW k, k = MutateProtocol(l, author, ProtocolPatchBetween(current, next))
    PROVE  /\ Later(l, k) /\ k.lifecycle = l.lifecycle
           /\ k.terms = ApplyProtocolPatch(l.terms, ProtocolPatchBetween(current, next))
<1> DEFINE terms == ApplyProtocolPatch(l.terms, ProtocolPatchBetween(current, next))
           turn == OppositeSide(SideOf(l, author))
<1>1. terms \in Terms
  BY LinkFields, PatchedTerms
<1>2. turn \in Side
  BY DEF OppositeSide, Side
<1>3. k = [l EXCEPT !.terms = terms, !.turn = turn, !.unreviewed = 0]
  BY DEF MutateProtocol, Link
<1> HIDE DEF terms, turn
<1>a. 0 \in 0 .. ReviewEvery /\ l.useful \in Nat
  BY LinkFields, LinkAssumption
<1>4. k \in Link /\ l.useful \in Nat
  BY <1>1, <1>2, <1>3, <1>a DEF Link
<1>5. /\ k.left = l.left /\ k.right = l.right /\ k.useful = l.useful
      /\ k.terms = terms /\ k.lifecycle = l.lifecycle
  BY <1>3 DEF Link
<1> QED BY <1>4, <1>5 DEF Later, terms

(* A new link. *)
LEMMA NewLinkType ==
    ASSUME NEW a \in Agent, NEW b \in Agent, NEW lifecycle \in Lifecycle, NEW terms \in Terms,
           NEW l, l = NewLink(a, b, lifecycle, terms)
    PROVE  /\ l \in Link /\ l.left = a /\ l.right = b /\ l.lifecycle = lifecycle
           /\ l.terms = terms /\ l.useful = 0
BY LinkAssumption DEF NewLink, Link, Side

-----------------------------------------------------------------------------
(* The universe. *)

(* What a policy is. *)
LEMMA PolicyType ==
    ASSUME scenario \in Scenario, NEW a \in Agent
    PROVE  Policy(a) \in AgentPolicy
BY DEF Policy, Scenario

\* What no step on links already made takes from a universe.
Tended(u, v) ==
    /\ IsUniverse(v) /\ DOMAIN v.link = DOMAIN u.link /\ v.links \subseteq u.links
    /\ \A a \in Agent : v.held[a] \subseteq u.held[a]
    /\ \A id \in DOMAIN u.link : Later(u.link[id], v.link[id])
    /\ Mirrors(u) => Mirrors(v)

\* What nearly every such step keeps.
Calm(u, v) ==
    /\ v.life = u.life
    /\ \A id \in DOMAIN u.link :
         /\ Agreed(u.link[id]) => Agreed(v.link[id])
         /\ v.link[id].lifecycle = "renegotiating" => u.link[id].lifecycle = "renegotiating"

(* Who has served has served. *)
LEMMA ServedLater ==
    ASSUME scenario \in Scenario, NEW l \in Link, NEW k, Later(l, k), Served(l)
    PROVE  Served(k)
<1> SUFFICES ASSUME NEW a \in Members(k) PROVE k.useful >= Policy(a).need
  BY DEF Served
<1>1. a \in Members(l) /\ a \in Agent
  BY LinkFields DEF Members, Later
<1>2. l.useful \in Nat /\ k.useful \in Nat /\ k.useful >= l.useful
  BY LinkFields DEF Later
<1>3. Policy(a).need \in Nat
  BY <1>1, PolicyType, LinkAssumption DEF AgentPolicy
<1>4. l.useful >= Policy(a).need
  BY <1>1 DEF Served
<1> QED BY <1>2, <1>3, <1>4

(* What was agreed stays so while the terms do. *)
LEMMA AgreedKept ==
    ASSUME scenario \in Scenario, NEW l \in Link, NEW k, Kept(l, k), Agreed(l),
           k.lifecycle \in Settled =>
             \/ l.lifecycle \in Settled \/ k.useful >= k.terms.need
             \/ Counted => Served(l)
    PROVE  Agreed(k)
<1>1. Later(l, k) /\ k.terms = l.terms /\ Members(k) = Members(l)
  BY DEF Kept, Later, Members
<1>2. ~HostMay("connect") => Suits(k)
  BY <1>1 DEF Agreed, Suits
<1>3. ASSUME Counted, k.lifecycle \in Settled PROVE Served(k)
  <2>1. CASE l.lifecycle \in Settled \/ Served(l)
    BY <1>1, <1>3, <2>1, ServedLater DEF Agreed
  <2>2. CASE k.useful >= k.terms.need
    <3> SUFFICES ASSUME NEW a \in Members(k) PROVE k.useful >= Policy(a).need
      BY DEF Served
    <3>1. a \in Agent
      BY LinkFields DEF Members, Later, Kept
    <3>2. k.terms.need >= Policy(a).need
      BY <1>2, <1>3 DEF Counted, HostMay, Suits, TermsSupportedBy
    <3>3. k.useful \in Nat /\ k.terms.need \in Nat
      BY <1>1, LinkFields, LinkAssumption DEF Later, Terms
    <3>4. Policy(a).need \in Nat
      BY <3>1, PolicyType, LinkAssumption DEF AgentPolicy
    <3> QED BY <2>2, <3>2, <3>3, <3>4
  <2> QED BY <1>3, <2>1, <2>2
<1> QED BY <1>2, <1>3 DEF Agreed

(* The fields of a universe. *)
LEMMA UniverseFields ==
    ASSUME NEW u, IsUniverse(u)
    PROVE  /\ u.life \in [Agent -> AgentLifecycle] /\ u.held \in [Agent -> SUBSET LinkId]
           /\ u.links \subseteq LinkId /\ DOMAIN u.link \subseteq LinkId
           /\ \A id \in DOMAIN u.link : u.link[id] \in Link
BY DEF IsUniverse

(* Nothing is taken from a link by leaving it. *)
LEMMA LaterSame ==
    ASSUME NEW l \in Link
    PROVE  Kept(l, l) /\ Later(l, l)
BY LinkFields DEF Kept, Later

(* A link that is changed. *)
LEMMA SetTended ==
    ASSUME NEW u, IsUniverse(u), Closed(u), NEW id \in DOMAIN u.link,
           NEW k, Later(u.link[id], k), NEW v, v = SetLink(u, id, k)
    PROVE  /\ Tended(u, v)
           /\ v.link[id] = k /\ \A i \in DOMAIN u.link : i # id => v.link[i] = u.link[i]
           /\ v.links = u.links /\ v.life = u.life
<1> DEFINE book == [i \in DOMAIN u.link \union {id} |-> IF i = id THEN k ELSE u.link[i]]
<1>1. /\ DOMAIN book = DOMAIN u.link /\ book[id] = k
      /\ \A i \in DOMAIN u.link : i # id => book[i] = u.link[i]
  OBVIOUS
<1>2. book \in [DOMAIN u.link -> Link]
  BY DEF IsUniverse, Later
<1>3. \A i \in DOMAIN u.link : Later(u.link[i], book[i])
  BY <1>1, UniverseFields, LaterSame
<1>4. v = [u EXCEPT !.link = book]
  BY DEF SetLink, IsUniverse
<1> HIDE DEF book
<1>5. /\ v.life = u.life /\ v.held = u.held /\ v.link = book /\ v.links = u.links
      /\ v.ads = u.ads /\ v.cooldown = u.cooldown
  BY <1>4 DEF IsUniverse
<1>6. IsUniverse(v)
  BY <1>1, <1>2, <1>4, <1>5 DEF IsUniverse
<1>7. \A i \in DOMAIN u.link : Members(book[i]) = Members(u.link[i])
  BY <1>3 DEF Later, Members
<1>8. ASSUME Mirrors(u) PROVE Mirrors(v)
  <2>1. \A i \in u.links : Members(v.link[i]) = Members(u.link[i])
    BY <1>5, <1>7 DEF Closed
  <2> QED BY <1>5, <1>8, <2>1 DEF Mirrors
<1> QED BY <1>1, <1>3, <1>5, <1>6, <1>8 DEF Tended

(* A link that is removed, or was. *)
LEMMA RemoveTended ==
    ASSUME NEW u, IsUniverse(u), Closed(u), NEW id \in DOMAIN u.link,
           NEW v, v = RemoveLink(u, id)
    PROVE  Tended(u, v) /\ v.link = u.link /\ id \notin v.links /\ v.life = u.life
<1> DEFINE held == [a \in Agent |-> IF a \in Members(u.link[id]) /\ id \in u.links
                                    THEN u.held[a] \ {id} ELSE u.held[a]]
<1>1. v = [u EXCEPT !.links = u.links \ {id}, !.held = held]
  BY DEF RemoveLink, IsUniverse
<1>2. held \in [Agent -> SUBSET LinkId] /\ \A a \in Agent : held[a] \subseteq u.held[a]
  BY UniverseFields
<1>3. \A a \in Agent : \A i \in u.held[a] :
        \/ i \in held[a]
        \/ i = id /\ id \in u.links /\ a \in Members(u.link[id])
  OBVIOUS
<1>4. \A a \in Agent : a \in Members(u.link[id]) /\ id \in u.links => id \notin held[a]
  OBVIOUS
<1> HIDE DEF held
<1>5. /\ v.life = u.life /\ v.held = held /\ v.link = u.link /\ v.links = u.links \ {id}
      /\ v.ads = u.ads /\ v.cooldown = u.cooldown
  BY <1>1 DEF IsUniverse
<1>6. u.links \ {id} \subseteq LinkId
  BY UniverseFields
<1>7. IsUniverse(v)
  BY <1>1, <1>2, <1>5, <1>6 DEF IsUniverse
<1>8. \A i \in DOMAIN u.link : Later(u.link[i], u.link[i])
  BY UniverseFields, LaterSame
<1>9. ASSUME Mirrors(u) PROVE Mirrors(v)
  <2>1. ASSUME NEW i \in v.links, NEW a \in Members(v.link[i]) PROVE i \in v.held[a]
    <3>1. i \in u.links /\ i # id /\ i \in DOMAIN u.link /\ a \in Members(u.link[i])
      BY <1>5, <2>1 DEF Closed
    <3>2. a \in Agent
      BY <3>1, UniverseFields, LinkFields DEF Members
    <3> QED BY <1>3, <1>5, <1>9, <3>1, <3>2 DEF Mirrors
  <2>2. ASSUME NEW a \in Agent, NEW i \in v.held[a]
        PROVE  i \in v.links /\ a \in Members(v.link[i])
    <3>1. i \in u.held[a]
      BY <1>2, <1>5, <2>2
    <3>2. i \in u.links /\ a \in Members(u.link[i])
      BY <1>9, <3>1 DEF Mirrors
    <3> QED BY <1>4, <1>5, <2>2, <3>2
  <2> QED BY <2>1, <2>2 DEF Mirrors
<1> QED BY <1>2, <1>5, <1>7, <1>8, <1>9 DEF Tended

(* A universe that is left as it is. *)
LEMMA TendedSame ==
    ASSUME NEW u, IsUniverse(u)
    PROVE  Tended(u, u) /\ Calm(u, u)
BY UniverseFields, LaterSame DEF Tended, Calm

\* Of two universes that differ in advertisements, cooldowns and lifecycles.
SameLinks(u, v) ==
    IsUniverse(v) /\ v.held = u.held /\ v.link = u.link /\ v.links = u.links

(* Links are tended by leaving them. *)
LEMMA SameTended ==
    ASSUME NEW u, IsUniverse(u), NEW v, SameLinks(u, v)
    PROVE  Tended(u, v)
BY UniverseFields, LaterSame DEF SameLinks, Tended, Mirrors

(* One step on links after another. *)
LEMMA TendedTwice ==
    ASSUME NEW u, NEW v, NEW w, IsUniverse(u), Tended(u, v), Tended(v, w)
    PROVE  Tended(u, w)
<1>1. ASSUME NEW id \in DOMAIN u.link PROVE Later(u.link[id], w.link[id])
  <2>1. Later(u.link[id], v.link[id]) /\ Later(v.link[id], w.link[id])
    BY <1>1 DEF Tended
  <2>2. u.link[id] \in Link
    BY UniverseFields
  <2>3. u.link[id].useful \in Nat /\ v.link[id].useful \in Nat /\ w.link[id].useful \in Nat
    BY <2>1, <2>2, LinkFields DEF Later
  <2> QED BY <2>1, <2>3 DEF Later
<1> QED BY <1>1 DEF Tended

(* And one calm step after another. *)
LEMMA CalmTwice ==
    ASSUME NEW u, NEW v, NEW w, DOMAIN v.link = DOMAIN u.link, Calm(u, v), Calm(v, w)
    PROVE  Calm(u, w)
BY DEF Calm

(* Whoever holds a link still knows it. *)
LEMMA ClosedTended ==
    ASSUME NEW u, NEW v, Closed(u), Tended(u, v)
    PROVE  Closed(v)
BY DEF Closed, Tended

(* A universe whose links stay agreed on stays sound. *)
LEMMA SoundTended ==
    ASSUME NEW u, NEW v, Sound(u), Tended(u, v),
           \A id \in DOMAIN u.link : Agreed(u.link[id]) => Agreed(v.link[id])
    PROVE  Sound(v)
<1>1. Closed(v)
  BY ClosedTended DEF Sound
<1>2. \A i \in DOMAIN u.link : Members(v.link[i]) = Members(u.link[i])
  BY DEF Tended, Later, Members
<1>3. u.links \subseteq DOMAIN u.link /\ v.links \subseteq u.links
  BY DEF Sound, Closed, Tended
<1>4. OneLink(v)
  <2> SUFFICES ASSUME NEW i \in v.links, NEW j \in v.links,
                      Members(v.link[i]) = Members(v.link[j])
               PROVE  i = j
    BY DEF OneLink
  <2>1. Members(u.link[i]) = Members(u.link[j]) /\ i \in u.links /\ j \in u.links
    BY <1>2, <1>3
  <2> QED BY <2>1 DEF Sound, OneLink
<1>5. \A id \in DOMAIN v.link : Agreed(v.link[id])
  BY DEF Sound, Tended
<1> QED BY <1>1, <1>4, <1>5 DEF Sound

(* The review of one link. *)
LEMMA ReviewOneTended ==
    ASSUME scenario \in Scenario, NEW u, IsUniverse(u), Closed(u), NEW id \in DOMAIN u.link,
           NEW v \in ReviewOneLink(u, id)
    PROVE  Tended(u, v) /\ Calm(u, v)
<1>1. PICK strength \in Strength, late \in BOOLEAN :
        LET l == ReviewLifecycle(u.link[id], strength, late)
        IN v = IF l.lifecycle = "retired" THEN RemoveLink(SetLink(u, id, l), id)
               ELSE SetLink(u, id, l)
  BY DEF ReviewOneLink
<1> DEFINE l == ReviewLifecycle(u.link[id], strength, late)
           w == SetLink(u, id, l)
<1>2. u.link[id] \in Link
  BY UniverseFields
<1>3. /\ Kept(u.link[id], l)
      /\ l.lifecycle = "renegotiating" => u.link[id].lifecycle = "renegotiating"
      /\ l.lifecycle \in Settled =>
           u.link[id].lifecycle \in Settled \/ l.useful >= l.terms.need
  BY <1>2, ReviewKept
<1>4. v = IF l.lifecycle = "retired" THEN RemoveLink(w, id) ELSE w
  BY <1>1
<1> HIDE DEF l
<1>5. /\ Tended(u, w) /\ w.link[id] = l /\ w.life = u.life
      /\ \A i \in DOMAIN u.link : i # id => w.link[i] = u.link[i]
  BY <1>3, SetTended DEF Kept
<1>6. Agreed(u.link[id]) => Agreed(l)
  BY <1>2, <1>3, AgreedKept
<1>7. Calm(u, w)
  BY <1>3, <1>5, <1>6 DEF Calm
<1> HIDE DEF w
<1>8. Closed(w) /\ IsUniverse(w) /\ id \in DOMAIN w.link
  BY <1>5, ClosedTended DEF Tended
<1>9. /\ Tended(w, RemoveLink(w, id)) /\ RemoveLink(w, id).link = w.link
      /\ RemoveLink(w, id).life = w.life
  BY <1>8, RemoveTended
<1>10. Tended(u, RemoveLink(w, id)) /\ Calm(u, RemoveLink(w, id))
  BY <1>5, <1>7, <1>9, TendedTwice DEF Calm
<1> QED BY <1>4, <1>5, <1>7, <1>10

-----------------------------------------------------------------------------
(* The review of all links, one after the other. *)

OneOf(s) == CHOOSE x \in s : TRUE

\* What the fold computes of a set of links from what it computed of smaller ones.
ReviewsOf(g, u, s) ==
    IF s = {} THEN {u} ELSE UNION {ReviewOneLink(v, OneOf(s)) : v \in g[s \ {OneOf(s)}]}

IsReviews(g, u) == g = [s \in SUBSET u.links |-> ReviewsOf(g, u, s)]

\* The same for sets of at most n links.
Within(u, n) == {s \in SUBSET u.links : Cardinality(s) <= n}

ReviewsWithin(g, u, n) == g = [s \in Within(u, n) |-> ReviewsOf(g, u, s)]

(* The fold is such a function at all links. *)
LEMMA ReviewsAreFold ==
    ASSUME NEW u
    PROVE  ReviewLinks(u) = (CHOOSE g : IsReviews(g, u))[u.links]
BY DEF ReviewLinks, FoldSet, MapThenFoldSet, IsReviews, ReviewsOf, OneOf

(* A set with one element less. *)
LEMMA OneLess ==
    ASSUME NEW S, IsFiniteSet(S), NEW s \in SUBSET S, s # {}
    PROVE  /\ OneOf(s) \in s /\ s \ {OneOf(s)} \in SUBSET S
           /\ Cardinality(s) \in Nat /\ Cardinality(s \ {OneOf(s)}) \in Nat
           /\ Cardinality(s \ {OneOf(s)}) + 1 = Cardinality(s)
<1>1. IsFiniteSet(s)
  BY FS_Subset
<1>2. OneOf(s) \in s
  BY DEF OneOf
<1>3. Cardinality(s) \in Nat /\ IsFiniteSet(s \ {OneOf(s)})
  BY <1>1, FS_CardinalityType, FS_RemoveElement
<1>4. Cardinality(s \ {OneOf(s)}) \in Nat
  BY <1>3, FS_CardinalityType
<1>5. Cardinality(s \ {OneOf(s)}) = Cardinality(s) - 1
  BY <1>1, <1>2, FS_RemoveElement
<1> QED BY <1>2, <1>3, <1>4, <1>5

(* There is one for every number of links. *)
LEMMA ReviewsStep ==
    ASSUME NEW u, IsFiniteSet(u.links), NEW n \in Nat, NEW g, ReviewsWithin(g, u, n)
    PROVE  \E h : ReviewsWithin(h, u, n + 1)
<1> DEFINE h == [s \in Within(u, n + 1) |-> ReviewsOf(g, u, s)]
<1>1. ASSUME NEW s \in Within(u, n + 1) PROVE ReviewsOf(h, u, s) = h[s]
  <2>1. CASE s = {}
    BY <1>1, <2>1 DEF ReviewsOf
  <2>2. CASE s # {}
    <3> DEFINE r == s \ {OneOf(s)}
    <3>1. s \in SUBSET u.links /\ Cardinality(s) <= n + 1
      BY <1>1 DEF Within
    <3>2. /\ r \in SUBSET u.links /\ Cardinality(s) \in Nat /\ Cardinality(r) \in Nat
          /\ Cardinality(r) + 1 = Cardinality(s)
      BY <2>2, <3>1, OneLess
    <3>3. r \in Within(u, n) /\ r \in Within(u, n + 1)
      BY <3>1, <3>2 DEF Within
    <3>4. h[r] = ReviewsOf(g, u, r) /\ g[r] = ReviewsOf(g, u, r)
      BY <3>3 DEF ReviewsWithin
    <3>5. h[s] = ReviewsOf(g, u, s)
      BY <1>1
    <3> HIDE DEF h
    <3>6. ReviewsOf(h, u, s) = ReviewsOf(g, u, s)
      BY <2>2, <3>4 DEF ReviewsOf
    <3> QED BY <3>5, <3>6
  <2> QED BY <2>1, <2>2
<1>2. h = [s \in Within(u, n + 1) |-> h[s]]
  OBVIOUS
<1> HIDE DEF h
<1>3. h = [s \in Within(u, n + 1) |-> ReviewsOf(h, u, s)]
  BY <1>1, <1>2
<1> QED BY <1>3 DEF ReviewsWithin

(* None is reviewed at first. *)
LEMMA ReviewsStart ==
    ASSUME NEW u, IsFiniteSet(u.links)
    PROVE  \E g : ReviewsWithin(g, u, 0)
<1> DEFINE g == [s \in Within(u, 0) |-> {u}]
<1>1. ASSUME NEW s \in Within(u, 0) PROVE s = {}
  <2>1. IsFiniteSet(s) /\ Cardinality(s) <= 0
    BY FS_Subset DEF Within
  <2>2. Cardinality(s) \in Nat
    BY <2>1, FS_CardinalityType
  <2>3. Cardinality(s) = 0
    BY <2>1, <2>2
  <2> QED BY <2>1, <2>3, FS_EmptySet
<1>2. g = [s \in Within(u, 0) |-> ReviewsOf(g, u, s)]
  BY <1>1 DEF ReviewsOf
<1> QED BY <1>2 DEF ReviewsWithin

(* So the fold has its equation. *)
LEMMA ReviewsEquation ==
    ASSUME NEW u, IsFiniteSet(u.links), NEW g, g = CHOOSE f : IsReviews(f, u)
    PROVE  \A s \in SUBSET u.links : g[s] = ReviewsOf(g, u, s)
<1> DEFINE can == {n \in Nat : \E f : ReviewsWithin(f, u, n)}
<1>1. 0 \in can
  BY ReviewsStart
<1>2. ASSUME NEW n \in Nat, n \in can PROVE n + 1 \in can
  BY <1>2, ReviewsStep
<1> HIDE DEF can
<1>3. Nat \subseteq can
  BY <1>1, <1>2, NatSetInduction
<1>4. Cardinality(u.links) \in Nat
  BY FS_CardinalityType
<1>5. PICK f : ReviewsWithin(f, u, Cardinality(u.links))
  BY <1>3, <1>4 DEF can
<1>6. Within(u, Cardinality(u.links)) = SUBSET u.links
  BY FS_Subset DEF Within
<1>7. IsReviews(f, u)
  BY <1>5, <1>6 DEF ReviewsWithin, IsReviews
<1>8. IsReviews(g, u)
  BY <1>7
<1> QED BY <1>8 DEF IsReviews

\* What is true of every universe that the reviews of some links may leave.
ReviewsTend(g, u, s) == \A v \in g[s] : Tended(u, v) /\ Calm(u, v)

(* The review of all links is a review of each. *)
LEMMA ReviewAllTended ==
    ASSUME scenario \in Scenario, NEW u, IsUniverse(u), Closed(u), NEW v \in ReviewLinks(u)
    PROVE  Tended(u, v) /\ Calm(u, v)
<1> DEFINE g == CHOOSE f : IsReviews(f, u)
<1>1. ReviewLinks(u) = g[u.links]
  BY ReviewsAreFold
<1>2. IsFiniteSet(u.links)
  BY UniverseFields, FS_Subset, TopologyAssumption
<1> DEFINE eq == \A s \in SUBSET u.links : g[s] = ReviewsOf(g, u, s)
<1>3. eq
  BY <1>2, ReviewsEquation
<1> HIDE DEF g
<1> DEFINE tend == {n \in Nat : \A s \in SUBSET u.links :
                                  Cardinality(s) = n => ReviewsTend(g, u, s)}
<1>4. 0 \in tend
  <2> SUFFICES ASSUME NEW s \in SUBSET u.links, Cardinality(s) = 0
               PROVE  ReviewsTend(g, u, s)
    OBVIOUS
  <2>1. s = {}
    BY <1>2, FS_Subset, FS_EmptySet
  <2>2. g[s] = {u}
    BY <1>3, <2>1 DEF ReviewsOf
  <2> QED BY <2>2, TendedSame DEF ReviewsTend
<1>5. ASSUME NEW n \in Nat, n \in tend PROVE n + 1 \in tend
  <2> SUFFICES ASSUME NEW s \in SUBSET u.links, Cardinality(s) = n + 1
               PROVE  ReviewsTend(g, u, s)
    OBVIOUS
  <2>1. s # {}
    BY FS_EmptySet
  <2> DEFINE x == OneOf(s)
             r == s \ {x}
  <2>2. x \in s /\ r \in SUBSET u.links /\ Cardinality(r) = n
    BY <1>2, <2>1, OneLess
  <2>3. ReviewsTend(g, u, r)
    BY <1>5, <2>2
  <2>4. g[s] = UNION {ReviewOneLink(w, x) : w \in g[r]}
    BY <1>3, <2>1 DEF ReviewsOf
  <2> HIDE DEF x, r
  <2>5. ASSUME NEW w \in g[r], NEW z \in ReviewOneLink(w, x)
        PROVE  Tended(u, z) /\ Calm(u, z)
    <3>1. Tended(u, w) /\ Calm(u, w)
      BY <2>3, <2>5 DEF ReviewsTend
    <3>2. IsUniverse(w) /\ Closed(w) /\ x \in DOMAIN w.link /\ DOMAIN w.link = DOMAIN u.link
      BY <2>2, <3>1, ClosedTended DEF Tended, Closed
    <3>3. Tended(w, z) /\ Calm(w, z)
      BY <2>5, <3>2, ReviewOneTended
    <3> QED BY <3>1, <3>2, <3>3, TendedTwice, CalmTwice
  <2> QED BY <2>4, <2>5 DEF ReviewsTend
<1> HIDE DEF tend
<1>6. Nat \subseteq tend
  BY <1>4, <1>5, NatSetInduction
<1>7. Cardinality(u.links) \in tend
  BY <1>2, <1>6, FS_CardinalityType
<1>8. ReviewsTend(g, u, u.links)
  BY <1>7 DEF tend
<1> QED BY <1>1, <1>8 DEF ReviewsTend

-----------------------------------------------------------------------------
(* Sessions. *)

(* The fields of a session. *)
LEMMA SessionFields ==
    ASSUME NEW s \in AnySession
    PROVE  /\ s.status \in {"asked", "refused"} \union Final
           /\ s.proposer \in Agent /\ s.recipient \in Agent /\ s.terms \in Terms
           /\ s.offer \in Nat
BY DEF AnySession

(* A session is asked or refused, and otherwise as it was. *)
LEMMA AskType ==
    ASSUME NEW s \in AnySession, NEW u, NEW t, t = Ask(u, s)
    PROVE  /\ t \in AnySession /\ t.status \in {"asked", "refused"}
           /\ t.proposer = s.proposer /\ t.recipient = s.recipient
<1> DEFINE status == IF Refuses(u, s) THEN "refused" ELSE "asked"
<1>1. status \in {"refused", "asked"}
  OBVIOUS
<1>2. t = [s EXCEPT !.status = status]
  BY DEF Ask
<1> HIDE DEF status
<1> QED BY <1>1, <1>2 DEF AnySession

(* A session that begins. *)
LEMMA BegunType ==
    ASSUME NEW purpose \in {"formation", "renegotiation"}, NEW a \in Agent, NEW b \in Agent,
           NEW terms \in Terms, NEW score \in Nat, NEW estimate \in Nat,
           NEW s, s = Session(purpose, a, b, terms, score, estimate)
    PROVE  s \in AnySession /\ s.proposer = a /\ s.recipient = b
BY DEF Session, AnySession

(* What the recipient answers are terms. *)
LEMMA DecisionType ==
    ASSUME scenario \in Scenario, NEW s \in AnySession, NEW d \in Decisions(s)
    PROVE  /\ d.action \in {"accept", "reject", "defer", "counter", "throw"}
           /\ d.terms \in Terms
<1>1. /\ s.terms \in Terms
      /\ Policy(s.proposer) \in AgentPolicy /\ Policy(s.recipient) \in AgentPolicy
  BY SessionFields, PolicyType
<1> DEFINE stricter == StricterTerms(s.terms, Policy(s.recipient), Policy(s.proposer))
<1>2. stricter.mode # "none" => stricter \in Terms
  BY <1>1, StricterType
<1>3. CASE d = DefaultDecision(s)
  <2>1. \/ d = Decision("reject", s.terms)
        \/ d = Decision("accept", s.terms)
        \/ stricter.mode # "none" /\ d = Decision("counter", stricter)
    BY <1>3 DEF DefaultDecision
  <2> HIDE DEF stricter
  <2> QED BY <1>1, <1>2, <2>1 DEF Decision
<1>4. Offers \subseteq Terms
  BY DEF Offers, Terms, Scenario
<1>5. CASE \E action \in {"accept", "reject", "defer"} : d = Decision(action, s.terms)
  BY <1>1, <1>5 DEF Decision
<1>6. CASE \E terms \in Offers : d = Decision("counter", terms)
  BY <1>4, <1>6 DEF Decision
<1>7. CASE d = Decision("throw", s.terms)
  BY <1>1, <1>7 DEF Decision
<1> HIDE DEF stricter
<1> QED BY <1>3, <1>5, <1>6, <1>7 DEF Decisions

(* An answer leaves the session with the two it is about, and accepts only    *)
(* what both support.                                                         *)
LEMMA AnsweredHeld ==
    ASSUME scenario \in Scenario, NEW s \in AnySession, s.status \notin Final,
           NEW d \in Decisions(s), NEW agents, Held(s, agents), NEW u,
           NEW t, t = Answered(u, s, d)
    PROVE  t \in AnySession /\ Held(t, agents)
<1>1. /\ s.status \in {"asked", "refused"} /\ s.proposer \in Agent /\ s.recipient \in Agent
      /\ s.terms \in Terms /\ s.offer \in Nat
  BY SessionFields
<1>2. /\ d.action \in {"accept", "reject", "defer", "counter", "throw"}
      /\ d.terms \in Terms
  BY DecisionType
<1> DEFINE Ended(status) == t = [s EXCEPT !.status = status]
<1>3. \/ \E status \in Final \ {"accepted"} : Ended(status)
      \/ Ended("accepted") /\ Supported(s.terms, s.proposer, s.recipient)
      \/ t = Counter(u, s, d.terms)
  <2>1. CASE s.status = "refused"
    BY <2>1 DEF Answered, Final
  <2>2. CASE s.status = "asked" /\ d.action = "reject"
    BY <2>2 DEF Answered, Final
  <2>3. CASE s.status = "asked" /\ d.action = "accept"
    BY <2>3 DEF Answered, Final
  <2>4. CASE s.status = "asked" /\ d.action = "defer"
    BY <2>4 DEF Answered, Final
  <2>5. CASE s.status = "asked" /\ d.action = "counter"
    BY <2>5 DEF Answered
  <2>6. CASE s.status = "asked" /\ d.action = "throw"
    BY <2>6 DEF Answered, Final
  <2> QED BY <1>1, <1>2, <2>1, <2>2, <2>3, <2>4, <2>5, <2>6
<1>4. ASSUME NEW status \in Final, Ended(status),
             status = "accepted" => Supported(s.terms, s.proposer, s.recipient)
      PROVE  t \in AnySession /\ Held(t, agents)
  <2>1. t \in AnySession
    BY <1>4 DEF AnySession
  <2>2. /\ t.status = status /\ t.proposer = s.proposer /\ t.recipient = s.recipient
        /\ t.terms = s.terms
    BY <1>4 DEF AnySession
  <2> QED BY <1>4, <2>1, <2>2 DEF Held
<1>5. CASE t = Counter(u, s, d.terms)
  <2>1. CASE s.offer >= MaxOffers
    <3>1. Ended("rejected")
      BY <1>5, <2>1 DEF Counter
    <3> QED BY <1>4, <3>1 DEF Final
  <2>2. CASE ~(s.offer >= MaxOffers)
    <3> DEFINE c == [s EXCEPT !.proposer = s.recipient, !.recipient = s.proposer,
                              !.offer = s.offer + 1, !.terms = d.terms]
    <3>a. s.offer + 1 \in Nat /\ s.recipient \in Agent /\ d.terms \in Terms
      BY <1>1, <1>2
    <3>b. /\ c.status = s.status /\ c.purpose = s.purpose /\ c.proposer = s.recipient
          /\ c.recipient = s.proposer /\ c.terms = d.terms /\ c.offer = s.offer + 1
          /\ c.score = s.score /\ c.estimate = s.estimate
      BY DEF AnySession
    <3>1. c \in AnySession /\ c.proposer = s.recipient /\ c.recipient = s.proposer
      BY <1>1, <3>a, <3>b DEF AnySession
    <3>2. t = Ask(u, c)
      BY <1>5, <2>2 DEF Counter, AnySession
    <3> HIDE DEF c
    <3>3. /\ t \in AnySession /\ t.status \in {"asked", "refused"}
          /\ t.proposer = s.recipient /\ t.recipient = s.proposer
      BY <3>1, <3>2, AskType
    <3> QED BY <3>3 DEF Held
  <2> QED BY <2>1, <2>2
<1> HIDE DEF Ended
<1> QED BY <1>3, <1>4, <1>5 DEF Final

-----------------------------------------------------------------------------
(* A link that is attached. *)

\* What an attempt to attach a link leaves that was not refused at once: the
\* link is there, whatever its participants say.
Grown(u, v, id, l) ==
    /\ DOMAIN v.link = DOMAIN u.link \union {id} /\ v.link[id] = l
    /\ \A i \in DOMAIN u.link : v.link[i] = u.link[i]
    /\ v.links = u.links \union {id}
    /\ \A a \in Agent : v.held[a] \subseteq u.held[a] \union {id}
    /\ LinksBetween(u, l.left, l.right) = {}

Full(u, v, id, l) ==
    \A a \in Agent : v.held[a] = IF a \in Members(l) THEN u.held[a] \union {id} ELSE u.held[a]

(* The links an agent may still hold are a number. *)
LEMMA CapacityType ==
    ASSUME scenario \in Scenario, NEW u, IsUniverse(u), NEW a \in Agent
    PROVE  IsFiniteSet(u.held[a]) /\ Capacity(u, a) \in Int
<1>1. IsFiniteSet(u.held[a])
  BY UniverseFields, FS_Subset, TopologyAssumption
<1>2. Cardinality(u.held[a]) \in Nat /\ Policy(a).maxLinks \in Nat
  BY <1>1, FS_CardinalityType, PolicyType DEF AgentPolicy
<1> QED BY <1>1, <1>2 DEF Capacity

(* The link is refused or it is stored; where both have room it is held.      *)
LEMMA AttachGrown ==
    ASSUME scenario \in Scenario, NEW u, IsUniverse(u), Closed(u), NEW id \in LinkId, id \notin DOMAIN u.link,
           NEW l \in Link, NEW v, v = AttachLink(u, id, l).u
    PROVE  /\ IsUniverse(v) /\ v.life = u.life
           /\ v = u \/ Grown(u, v, id, l)
           /\ v = u \/ (l.left # l.right /\ Capacity(u, l.left) > 0 /\ Capacity(u, l.right) > 0
                          => Full(u, v, id, l))
<1>1. l.left \in Agent /\ l.right \in Agent
  BY LinkFields
<1> DEFINE stored == [SetLink(u, id, l) EXCEPT !.links = @ \union {id}]
           book == [i \in DOMAIN u.link \union {id} |-> IF i = id THEN l ELSE u.link[i]]
<1>2. /\ DOMAIN book = DOMAIN u.link \union {id} /\ book[id] = l
      /\ \A i \in DOMAIN u.link : book[i] = u.link[i]
  OBVIOUS
<1>3. book \in [DOMAIN book -> Link]
  BY DEF IsUniverse
<1>4. DOMAIN book \subseteq LinkId /\ u.links \union {id} \subseteq LinkId
  BY <1>2, UniverseFields
<1>5. SetLink(u, id, l) = [u EXCEPT !.link = book]
  BY DEF SetLink, IsUniverse
<1> HIDE DEF book
<1>6. /\ stored.life = u.life /\ stored.held = u.held /\ stored.link = book
      /\ stored.links = u.links \union {id} /\ IsUniverse(stored)
  <2>1. stored = [u EXCEPT !.link = book, !.links = u.links \union {id}]
    BY <1>5 DEF IsUniverse
  <2> HIDE DEF stored
  <2>2. /\ stored.life = u.life /\ stored.held = u.held /\ stored.link = book
        /\ stored.links = u.links \union {id}
    BY <2>1 DEF IsUniverse
  <2> QED BY <1>3, <1>4, <2>1, <2>2 DEF IsUniverse
<1> HIDE DEF stored
<1>7. ASSUME NEW w, IsUniverse(w), NEW a \in Agent
      PROVE  /\ IsUniverse(AddLink(w, a, id)) /\ AddLink(w, a, id).life = w.life
             /\ AddLink(w, a, id).link = w.link /\ AddLink(w, a, id).links = w.links
             /\ AddLink(w, a, id).held = [w.held EXCEPT ![a] = w.held[a] \union {id}]
  <2> DEFINE held == [w.held EXCEPT ![a] = w.held[a] \union {id}]
  <2>1. held \in [Agent -> SUBSET LinkId]
    BY <1>7, UniverseFields
  <2>2. AddLink(w, a, id) = [w EXCEPT !.held = held]
    BY <1>7 DEF AddLink, IsUniverse
  <2> HIDE DEF held
  <2>3. /\ AddLink(w, a, id).life = w.life /\ AddLink(w, a, id).link = w.link
        /\ AddLink(w, a, id).links = w.links /\ AddLink(w, a, id).held = held
    BY <1>7, <2>2 DEF IsUniverse
  <2> QED BY <1>7, <2>1, <2>2, <2>3 DEF IsUniverse, held
<1> DEFINE left == AddLink(stored, l.left, id)
           both == AddLink(left, l.right, id)
<1>8. /\ IsUniverse(left) /\ left.life = u.life /\ left.link = book
      /\ left.links = u.links \union {id}
      /\ left.held = [u.held EXCEPT ![l.left] = u.held[l.left] \union {id}]
  BY <1>1, <1>6, <1>7
<1>9. /\ IsUniverse(both) /\ both.life = u.life /\ both.link = book
      /\ both.links = u.links \union {id}
      /\ both.held = [left.held EXCEPT ![l.right] = left.held[l.right] \union {id}]
  <2> HIDE DEF left
  <2> QED BY <1>1, <1>7, <1>8
<1>10. \/ v = u
       \/ /\ LinksBetween(u, l.left, l.right) = {}
          /\ \/ AddLinkThrows(stored, l.left) /\ v = stored
             \/ AddLinkThrows(left, l.right) /\ v = left
             \/ v = both
  BY DEF AttachLink, stored
<1> HIDE DEF left, both
<1>11. u.held \in [Agent -> SUBSET LinkId]
  BY UniverseFields
<1>12. ASSUME LinksBetween(u, l.left, l.right) = {}, v \in {stored, left, both}
       PROVE  IsUniverse(v) /\ v.life = u.life /\ Grown(u, v, id, l)
  <2>1. /\ IsUniverse(v) /\ v.life = u.life /\ v.link = book
        /\ v.links = u.links \union {id}
    BY <1>6, <1>8, <1>9, <1>12
  <2>2. \A a \in Agent : left.held[a] \subseteq u.held[a] \union {id}
    BY <1>1, <1>8, <1>11
  <2>3. \A a \in Agent : both.held[a] \subseteq u.held[a] \union {id}
    BY <1>1, <1>8, <1>9, <1>11, <2>2
  <2>4. \A a \in Agent : v.held[a] \subseteq u.held[a] \union {id}
    BY <1>6, <1>12, <2>2, <2>3
  <2> QED BY <1>2, <1>12, <2>1, <2>4 DEF Grown
<1>13. ASSUME l.left # l.right, Capacity(u, l.left) > 0, Capacity(u, l.right) > 0
       PROVE  /\ ~AddLinkThrows(stored, l.left) /\ ~AddLinkThrows(left, l.right)
              /\ Full(u, both, id, l)
  <2>1. stored.held[l.left] = u.held[l.left] /\ left.held[l.right] = u.held[l.right]
    BY <1>1, <1>6, <1>8, <1>11, <1>13
  <2>2. /\ Capacity(stored, l.left) = Capacity(u, l.left)
        /\ Capacity(left, l.right) = Capacity(u, l.right)
    BY <2>1 DEF Capacity
  <2>3. Capacity(u, l.left) \in Int /\ Capacity(u, l.right) \in Int
    BY <1>1, CapacityType
  <2>4. Full(u, both, id, l)
    BY <1>1, <1>8, <1>9, <1>11, <1>13 DEF Full, Members
  <2> QED BY <1>13, <2>2, <2>3, <2>4 DEF AddLinkThrows
<1> QED BY <1>6, <1>10, <1>12, <1>13

-----------------------------------------------------------------------------
(* The calls of evolve beside the universe. *)

(* A task still fits when its link has only been tended. *)
LEMMA TaskTended ==
    ASSUME scenario \in Scenario, NEW u, NEW v, IsUniverse(u), Tended(u, v),
           NEW id, NEW t, TaskFits(u, id, t)
    PROVE  TaskFits(v, id, t)
<1>1. CASE t = NoTask
  BY <1>1 DEF TaskFits, NoTask
<1>2. CASE t # NoTask
  <2>1. id \in DOMAIN u.link /\ DOMAIN v.link = DOMAIN u.link
    BY <1>2 DEF TaskFits, Tended
  <2>2. Later(u.link[id], v.link[id]) /\ u.link[id] \in Link
    BY <2>1, UniverseFields DEF Tended
  <2>3. Members(v.link[id]) = Members(u.link[id])
    BY <2>2 DEF Later, Members
  <2>4. Served(u.link[id]) => Served(v.link[id])
    BY <2>2, ServedLater
  <2> QED BY <2>1, <2>3, <2>4 DEF TaskFits
<1> QED BY <1>1, <1>2

(* And so does a call. *)
LEMMA FitsTended ==
    ASSUME scenario \in Scenario, NEW u, NEW v, IsUniverse(u), Tended(u, v),
           NEW x, Fits(u, x)
    PROVE  Fits(v, x)
BY TaskTended DEF Fits

(* A call fits when there is one link more. *)
LEMMA FitsGrown ==
    ASSUME NEW u, NEW v, NEW id, NEW l, Grown(u, v, id, l), NEW x, Fits(u, x)
    PROVE  Fits(v, x)
<1> SUFFICES ASSUME NEW i \in LinkId PROVE TaskFits(v, i, x.tasks[i])
  BY DEF Fits
<1>1. TaskFits(u, i, x.tasks[i])
  BY DEF Fits
<1>2. CASE x.tasks[i] = NoTask
  BY <1>2 DEF TaskFits, NoTask
<1>3. CASE x.tasks[i] # NoTask
  <2>1. i \in DOMAIN u.link /\ i \in DOMAIN v.link /\ v.link[i] = u.link[i]
    BY <1>1, <1>3 DEF TaskFits, Grown
  <2> QED BY <1>1, <2>1 DEF TaskFits
<1> QED BY <1>2, <1>3

(* A universe with one link more is sound, if that is agreed on. *)
LEMMA SoundGrown ==
    ASSUME NEW u, NEW v, IsUniverse(u), Sound(u), NEW id, id \notin DOMAIN u.link,
           NEW l, Grown(u, v, id, l), Agreed(l)
    PROVE  Sound(v)
<1>1. Closed(v)
  <2>1. u.links \subseteq DOMAIN u.link /\ \A a \in Agent : u.held[a] \subseteq DOMAIN u.link
    BY DEF Sound, Closed
  <2> QED BY <2>1 DEF Closed, Grown
<1>2. OneLink(v)
  <2> SUFFICES ASSUME NEW i \in v.links, NEW j \in v.links,
                      Members(v.link[i]) = Members(v.link[j])
               PROVE  i = j
    BY DEF OneLink
  <2>1. \A k \in u.links : k # id /\ k \in DOMAIN u.link /\ v.link[k] = u.link[k]
    BY DEF Sound, Closed, Grown
  <2>2. \A k \in u.links : Members(v.link[k]) # Members(v.link[id])
    <3> SUFFICES ASSUME NEW k \in u.links, Members(u.link[k]) = Members(l) PROVE FALSE
      BY <2>1 DEF Grown
    <3>1. k \in LinksBetween(u, l.left, l.right)
      BY DEF LinksBetween, Members
    <3> QED BY <3>1 DEF Grown
  <2>3. v.links = u.links \union {id}
    BY DEF Grown
  <2> QED BY <2>1, <2>2, <2>3 DEF Sound, OneLink
<1>3. \A i \in DOMAIN v.link : Agreed(v.link[i])
  BY DEF Sound, Grown
<1> QED BY <1>1, <1>2, <1>3 DEF Sound

(* A link that both its participants hold mirrors them. *)
LEMMA MirrorsGrown ==
    ASSUME NEW u, NEW v, IsUniverse(u), Closed(u), Mirrors(u),
           NEW id, id \notin DOMAIN u.link,
           NEW l \in Link, Grown(u, v, id, l), Full(u, v, id, l)
    PROVE  Mirrors(v)
<1>1. \A i \in u.links : i # id /\ i \in DOMAIN u.link /\ v.link[i] = u.link[i]
  BY DEF Closed, Grown
<1>2. v.links = u.links \union {id} /\ v.link[id] = l
  BY DEF Grown
<1>3. ASSUME NEW i \in v.links, NEW a \in Members(v.link[i]) PROVE i \in v.held[a]
  <2>1. CASE i = id
    <3>1. a \in Members(l) /\ a \in Agent
      BY <1>2, <1>3, <2>1, LinkFields DEF Members
    <3> QED BY <2>1, <3>1 DEF Full
  <2>2. CASE i # id
    <3>1. i \in u.links /\ a \in Members(u.link[i]) /\ i \in u.held[a]
      BY <1>1, <1>2, <1>3, <2>2 DEF Mirrors
    <3>2. a \in Agent
      BY <1>1, <3>1, UniverseFields, LinkFields DEF Members
    <3> QED BY <3>1, <3>2 DEF Full
  <2> QED BY <2>1, <2>2
<1>4. ASSUME NEW a \in Agent, NEW i \in v.held[a]
      PROVE  i \in v.links /\ a \in Members(v.link[i])
  <2>1. i \in u.held[a] \/ (i = id /\ a \in Members(l))
    BY <1>4 DEF Full
  <2>2. CASE i \in u.held[a]
    <3>1. i \in u.links /\ a \in Members(u.link[i])
      BY <2>2 DEF Mirrors
    <3> QED BY <1>1, <1>2, <3>1
  <2> QED BY <1>2, <2>1, <2>2
<1> QED BY <1>3, <1>4 DEF Mirrors

(* Room that was found is not taken by tending links. *)
LEMMA CapacityTended ==
    ASSUME scenario \in Scenario, NEW u, NEW v, IsUniverse(u), Tended(u, v),
           NEW a \in Agent, Capacity(u, a) > 0
    PROVE  Capacity(v, a) > 0
<1>1. IsFiniteSet(u.held[a]) /\ IsFiniteSet(v.held[a]) /\ v.held[a] \subseteq u.held[a]
  BY CapacityType DEF Tended
<1>2. /\ Cardinality(v.held[a]) <= Cardinality(u.held[a])
      /\ Cardinality(v.held[a]) \in Nat /\ Cardinality(u.held[a]) \in Nat
  BY <1>1, FS_Subset, FS_CardinalityType
<1>3. Policy(a).maxLinks \in Nat
  BY PolicyType DEF AgentPolicy
<1> QED BY <1>2, <1>3 DEF Capacity

(* Ids that are free, and calls that negotiate, are counted. *)
LEMMA Counts ==
    ASSUME NEW u, NEW calls, NEW r
    PROVE  /\ IsFiniteSet(FreeIds(u)) /\ Cardinality(FreeIds(u)) \in Nat
           /\ IsFiniteSet(Parties(calls)) /\ Cardinality(Parties(calls)) \in Nat
           /\ Cardinality(Parties(calls) \ {r}) \in Nat
           /\ Cardinality(Parties(calls)) = IF r \in Parties(calls)
                                            THEN Cardinality(Parties(calls) \ {r}) + 1
                                            ELSE Cardinality(Parties(calls) \ {r})
<1>1. IsFiniteSet(FreeIds(u)) /\ IsFiniteSet(Parties(calls))
  BY FS_Subset, TopologyAssumption DEF FreeIds, Parties
<1>2. IsFiniteSet(Parties(calls) \ {r})
  BY <1>1, FS_RemoveElement
<1>3. /\ Cardinality(FreeIds(u)) \in Nat /\ Cardinality(Parties(calls)) \in Nat
      /\ Cardinality(Parties(calls) \ {r}) \in Nat
  BY <1>1, <1>2, FS_CardinalityType
<1>4. Cardinality(Parties(calls) \ {r}) = IF r \in Parties(calls)
                                          THEN Cardinality(Parties(calls)) - 1
                                          ELSE Cardinality(Parties(calls))
  BY <1>1, FS_RemoveElement
<1> QED BY <1>1, <1>3, <1>4

\* All that is fine but for one of the calls, and what that has to be.
But(u, calls, r) ==
    /\ IsUniverse(u) /\ calls \in [Round -> Call] /\ Sound(u)
    /\ \A q \in Round \ {r} : Fits(u, calls[q])
    /\ Cardinality(FreeIds(u)) >= Cardinality(Parties(calls) \ {r})
    /\ \A q \in Round \ {r} : Calls(q) = 0 => calls[q].phase = "idle"
    /\ MakesLinksAlone =>
         /\ Mirrors(u)
         /\ \A q \in Parties(calls) \ {r} : \A a \in PairOf(calls[q].match) : Capacity(u, a) > 0

Joins(u, calls, r, x) ==
    /\ x \in Call /\ Fits(u, x) /\ (Calls(r) = 0 => x.phase = "idle")
    /\ x.phase = "negotiating" =>
         /\ Cardinality(FreeIds(u)) > Cardinality(Parties(calls) \ {r})
         /\ MakesLinksAlone => \A a \in PairOf(x.match) : Capacity(u, a) > 0
    /\ \A a \in Agent :
         u.life[a] = "negotiating" =>
           \/ \E q \in Parties(calls) \ {r} : a \in PairOf(calls[q].match)
           \/ x.phase = "negotiating" /\ a \in PairOf(x.match)
    /\ \A id \in u.links :
         u.link[id].lifecycle = "renegotiating" =>
           \/ \E q \in Round \ {r} : calls[q].tasks[id].kind = "review"
           \/ x.tasks[id].kind = "review"

(* With a call that is as it has to be all is fine. *)
LEMMA Joined ==
    ASSUME NEW u, NEW calls, NEW r \in Round, But(u, calls, r),
           NEW x, Joins(u, calls, r, x), NEW next, next = [calls EXCEPT ![r] = x]
    PROVE  Fine(u, next)
<1>1. /\ next \in [Round -> Call] /\ next[r] = x
      /\ \A q \in Round \ {r} : next[q] = calls[q]
  BY DEF But, Joins
<1>2. CallsFit(u, next)
  BY <1>1 DEF But, Joins, CallsFit
<1>3. Parties(next) \ {r} = Parties(calls) \ {r} /\ (r \in Parties(next) <=> x.phase = "negotiating")
  BY <1>1 DEF Parties
<1>4. IdsSuffice(u, next)
  <2>1. /\ Cardinality(FreeIds(u)) \in Nat /\ Cardinality(Parties(calls) \ {r}) \in Nat
    BY Counts
  <2>2. Cardinality(Parties(next)) = IF x.phase = "negotiating"
                                     THEN Cardinality(Parties(calls) \ {r}) + 1
                                     ELSE Cardinality(Parties(calls) \ {r})
    BY <1>3, Counts
  <2> QED BY <2>1, <2>2 DEF But, Joins, IdsSuffice
<1>5. RoomKept(u, next)
  <2>1. \A q \in Round : Calls(q) = 0 => next[q].phase = "idle"
    BY <1>1 DEF But, Joins
  <2>2. ASSUME MakesLinksAlone, NEW q \in Parties(next), NEW a \in PairOf(next[q].match)
        PROVE  Capacity(u, a) > 0
    <3>1. CASE q = r
      BY <1>1, <1>3, <2>2, <3>1 DEF Joins
    <3>2. CASE q # r
      <4>1. q \in Parties(calls) \ {r} /\ next[q] = calls[q]
        BY <1>1, <1>3, <2>2, <3>2 DEF Parties
      <4> QED BY <2>2, <4>1 DEF But
    <3> QED BY <3>1, <3>2
  <2> QED BY <2>1, <2>2 DEF But, RoomKept
<1>6. Quiet(u, next)
  <2>1. ASSUME NEW a \in Agent, u.life[a] = "negotiating"
        PROVE  \E q \in Parties(next) : a \in PairOf(next[q].match)
    <3>1. CASE \E q \in Parties(calls) \ {r} : a \in PairOf(calls[q].match)
      BY <1>1, <3>1 DEF Parties
    <3>2. CASE x.phase = "negotiating" /\ a \in PairOf(x.match)
      BY <1>1, <1>3, <3>2
    <3> QED BY <2>1, <3>1, <3>2 DEF Joins
  <2>2. ASSUME NEW id \in u.links, u.link[id].lifecycle = "renegotiating"
        PROVE  \E q \in Round : next[q].tasks[id].kind = "review"
    BY <1>1, <2>2 DEF Joins
  <2> QED BY <2>1, <2>2 DEF Quiet
<1> QED BY <1>1, <1>2, <1>4, <1>5, <1>6 DEF But, Fine

(* What tending links leaves of the rest. *)
LEMMA Without ==
    ASSUME scenario \in Scenario, NEW u, NEW v, NEW calls, Fine(u, calls), Tended(u, v),
           \A id \in DOMAIN u.link : Agreed(u.link[id]) => Agreed(v.link[id]),
           NEW r \in Round
    PROVE  But(v, calls, r)
<1>1. IsUniverse(u) /\ IsUniverse(v) /\ calls \in [Round -> Call]
  BY DEF Fine, Tended
<1>2. Sound(v)
  BY SoundTended DEF Fine
<1>3. \A q \in Round : Fits(v, calls[q])
  BY <1>1, FitsTended DEF Fine, CallsFit
<1>4. Cardinality(FreeIds(v)) >= Cardinality(Parties(calls) \ {r})
  <2>1. FreeIds(v) = FreeIds(u)
    BY DEF FreeIds, Tended
  <2>2. Cardinality(FreeIds(u)) >= Cardinality(Parties(calls))
    BY DEF Fine, IdsSuffice
  <2>3. /\ Cardinality(FreeIds(u)) \in Nat /\ Cardinality(Parties(calls) \ {r}) \in Nat
        /\ Cardinality(Parties(calls)) \in Nat
    BY Counts
  <2>4. \/ Cardinality(Parties(calls)) = Cardinality(Parties(calls) \ {r}) + 1
        \/ Cardinality(Parties(calls)) = Cardinality(Parties(calls) \ {r})
    BY Counts
  <2> QED BY <2>1, <2>2, <2>3, <2>4
<1>5. ASSUME MakesLinksAlone
      PROVE  /\ Mirrors(v)
             /\ \A q \in Parties(calls) : \A a \in PairOf(calls[q].match) : Capacity(v, a) > 0
  <2>1. Mirrors(v)
    BY <1>5 DEF Fine, RoomKept, Tended
  <2>2. ASSUME NEW q \in Parties(calls), NEW a \in PairOf(calls[q].match)
        PROVE  Capacity(v, a) > 0
    <3>1. calls[q].match \in Match
      BY DEF Fine, CallsFit, Fits, Parties
    <3>2. a \in Agent
      BY <3>1 DEF Match, PairOf
    <3>3. Capacity(u, a) > 0
      BY <1>5 DEF Fine, RoomKept
    <3> QED BY <1>1, <3>2, <3>3, CapacityTended
  <2> QED BY <2>1, <2>2
<1> QED BY <1>1, <1>2, <1>3, <1>4, <1>5 DEF But, Fine, RoomKept

(* Advertisements, cooldowns and lifecycles are nothing to the rest.          *)
LEMMA ButSame ==
    ASSUME scenario \in Scenario, NEW u, NEW v, NEW calls, NEW r, But(u, calls, r),
           SameLinks(u, v)
    PROVE  But(v, calls, r)
<1>1. IsUniverse(u) /\ IsUniverse(v) /\ Tended(u, v)
  BY SameTended DEF But, SameLinks
<1>2. Sound(v)
  <2>1. \A id \in DOMAIN u.link : v.link[id] = u.link[id]
    BY DEF SameLinks
  <2> QED BY <1>1, <2>1, SoundTended DEF But
<1>3. \A q \in Round \ {r} : Fits(v, calls[q])
  BY <1>1, FitsTended DEF But
<1>4. FreeIds(v) = FreeIds(u) /\ \A a \in Agent : Capacity(v, a) = Capacity(u, a)
  BY DEF SameLinks, FreeIds, Capacity
<1>5. ASSUME MakesLinksAlone, NEW q \in Parties(calls) \ {r}, NEW a \in PairOf(calls[q].match)
      PROVE  Capacity(v, a) > 0
  <2>1. Capacity(u, a) > 0
    BY <1>5 DEF But
  <2>2. Capacity(v, a) = Capacity(u, a)
    BY DEF SameLinks, Capacity
  <2> QED BY <2>1, <2>2
<1>6. MakesLinksAlone => Mirrors(v)
  BY <1>1 DEF But, Tended
<1> QED BY <1>1, <1>2, <1>3, <1>4, <1>5, <1>6 DEF But

\* Nobody but the other calls needs a session.
QuietBut(u, calls, r) ==
    /\ \A a \in Agent :
         u.life[a] = "negotiating" =>
           \E q \in Parties(calls) \ {r} : a \in PairOf(calls[q].match)
    /\ \A id \in u.links :
         u.link[id].lifecycle = "renegotiating" =>
           \E q \in Round \ {r} : calls[q].tasks[id].kind = "review"

-----------------------------------------------------------------------------
(* The next negotiation. *)

(* A call in its next phase has nothing of the last one left.                 *)
LEMMA PhaseType ==
    ASSUME round \in [Round -> Call], NEW r \in Round,
           NEW phase \in {"idle", "scoring", "negotiating", "formed", "synchronizing",
                          "adapting"},
           NEW x, x = Phase(r, phase)
    PROVE  /\ x \in Call /\ x.phase = phase
           /\ x.tasks = [id \in LinkId |-> NoTask]
           /\ x.queue = <<>> /\ x.match = <<>> /\ x.session = NoSession /\ x.saved = <<>>
           /\ x.accepted = [a \in Agent |-> 0] /\ x.calls = round[r].calls
<1>1. /\ x.phase = phase /\ x.calls = round[r].calls
      /\ x.tasks = [id \in LinkId |-> NoTask]
      /\ x.queue = <<>> /\ x.match = <<>> /\ x.session = NoSession /\ x.saved = <<>>
      /\ x.accepted = [a \in Agent |-> 0]
  BY DEF Phase, Idle
<1>2. round[r].calls \in Nat
  BY DEF Call
<1>3. /\ [id \in LinkId |-> NoTask] \in [LinkId -> Task] /\ <<>> \in Seq(Match)
      /\ [a \in Agent |-> 0] \in [Agent -> Nat]
  BY DEF Task
<1>4. x = [phase |-> x.phase, calls |-> x.calls, queue |-> x.queue, match |-> x.match,
           session |-> x.session, saved |-> x.saved, accepted |-> x.accepted,
           tasks |-> x.tasks]
  BY DEF Phase, Idle
<1> QED BY <1>1, <1>2, <1>3, <1>4 DEF Call

(* A call that has no task and does not negotiate fits.                       *)
LEMMA PlainFits ==
    ASSUME NEW u, NEW x, x.tasks = [id \in LinkId |-> NoTask], x.phase # "negotiating"
    PROVE  Fits(u, x)
<1>1. \A id \in LinkId : x.tasks[id] = NoTask /\ x.tasks[id].kind = "none"
  BY DEF NoTask
<1>2. "none" \in KindsOf(x.phase)
  BY DEF KindsOf
<1>3. \A id \in LinkId : TaskFits(u, id, NoTask)
  BY DEF TaskFits, NoTask
<1> QED BY <1>1, <1>2, <1>3 DEF Fits

(* An agent that negotiates. *)
LEMMA BegunLife ==
    ASSUME NEW u, IsUniverse(u), NEW a \in Agent, NEW v, v = BeginNegotiation(u, a)
    PROVE  /\ SameLinks(u, v)
           /\ \A b \in Agent : v.life[b] = "negotiating" => b = a \/ u.life[b] = "negotiating"
<1>1. CASE u.life[a] \in NetworkLifecycles
  <2> DEFINE life == [u.life EXCEPT ![a] = "negotiating"]
  <2>1. v = [u EXCEPT !.life = life]
    BY <1>1 DEF BeginNegotiation, IsUniverse
  <2>2. /\ life \in [Agent -> AgentLifecycle]
        /\ \A b \in Agent : b # a => life[b] = u.life[b]
    BY UniverseFields DEF AgentLifecycle
  <2> HIDE DEF life
  <2>3. v.life = life /\ v.held = u.held /\ v.link = u.link /\ v.links = u.links
    BY <2>1 DEF IsUniverse
  <2>4. IsUniverse(v)
    BY <2>1, <2>2, <2>3 DEF IsUniverse
  <2> QED BY <2>2, <2>3, <2>4 DEF SameLinks
<1>2. CASE u.life[a] \notin NetworkLifecycles
  BY <1>2 DEF BeginNegotiation, SameLinks
<1> QED BY <1>1, <1>2

(* And one whose negotiation is over. *)
LEMMA RestoredLife ==
    ASSUME NEW u, IsUniverse(u), NEW a \in Agent, NEW lifecycle,
           NEW v, v = RestoreLifecycle(u, a, lifecycle)
    PROVE  /\ SameLinks(u, v) /\ v.life[a] # "negotiating"
           /\ \A b \in Agent : v.life[b] = "negotiating" => u.life[b] = "negotiating"
<1>1. CASE u.life[a] = "negotiating"
  <2> DEFINE to == IF lifecycle \in {"waiting", "dormant"} THEN lifecycle ELSE "active"
             life == [u.life EXCEPT ![a] = to]
  <2>1. v = [u EXCEPT !.life = life]
    BY <1>1 DEF RestoreLifecycle, IsUniverse
  <2>2. to \in {"waiting", "dormant", "active"}
    OBVIOUS
  <2> HIDE DEF to
  <2>3. /\ life \in [Agent -> AgentLifecycle] /\ life[a] # "negotiating"
        /\ \A b \in Agent : b # a => life[b] = u.life[b]
    BY <2>2, UniverseFields DEF AgentLifecycle
  <2> HIDE DEF life
  <2>4. v.life = life /\ v.held = u.held /\ v.link = u.link /\ v.links = u.links
    BY <2>1 DEF IsUniverse
  <2>5. IsUniverse(v)
    BY <2>1, <2>3, <2>4 DEF IsUniverse
  <2> QED BY <2>3, <2>4, <2>5 DEF SameLinks
<1>2. CASE u.life[a] # "negotiating"
  BY <1>2 DEF RestoreLifecycle, SameLinks
<1> QED BY <1>1, <1>2

(* A call that goes on to its next match, or to the end of its phase. *)
LEMMA ProceedFine ==
    ASSUME scenario \in Scenario, NEW r \in Round, NEW u, But(u, round, r),
           QuietBut(u, round, r), Calls(r) # 0,
           NEW queue \in Seq(Match), NEW accepted \in [Agent -> Nat],
           Proceed(u, r, queue, accepted)
    PROVE  Fine(universe', round')
<1> DEFINE viable == {i \in DOMAIN queue : Viable(u, r, queue[i], accepted)}
<1>a. round \in [Round -> Call] /\ IsUniverse(u)
  BY DEF But
<1>1. CASE viable = {}
  <2> DEFINE x == Phase(r, "formed")
  <2>1. universe' = u /\ round' = [round EXCEPT ![r] = x]
    BY <1>1 DEF Proceed
  <2>2. x \in Call /\ x.phase = "formed" /\ x.tasks = [id \in LinkId |-> NoTask]
    BY <1>a, PhaseType
  <2> HIDE DEF x
  <2>3. Fits(u, x)
    BY <2>2, PlainFits
  <2>4. Joins(u, round, r, x)
    BY <2>2, <2>3 DEF Joins, QuietBut
  <2> QED BY <2>1, <2>4, Joined
<1>2. CASE viable # {}
  <2> DEFINE i == Least(viable)
             m == queue[i]
             w == BeginNegotiation(u, m[1])
             v == BeginNegotiation(w, m[2])
             terms == NegotiateInitialTerms(Policy(m[1]), Policy(m[2]))
             score == Score(m[1], m[2])
             s == Session("formation", m[1], m[2], terms, score, 0)
             rest == SubSeq(queue, i + 1, Len(queue))
             saved == <<u.life[m[1]], u.life[m[2]]>>
             x == [Phase(r, "negotiating") EXCEPT
                     !.queue = rest, !.match = m, !.session = Ask(v, s),
                     !.saved = saved, !.accepted = accepted]
  <2>1. universe' = v /\ round' = [round EXCEPT ![r] = x]
    BY <1>2 DEF Proceed
  <2>2. i \in viable
    <3>1. viable \subseteq Nat
      OBVIOUS
    <3> HIDE DEF viable
    <3> QED BY <1>2, <3>1, LeastIs
  <2>3. i \in 1 .. Len(queue) /\ m \in Match /\ Viable(u, r, m, accepted)
    BY <2>2
  <2> HIDE DEF viable, i
  <2>4. rest \in Seq(Match)
    BY <2>3
  <2> HIDE DEF m
  <2>5. m[1] \in Agent /\ m[2] \in Agent /\ PairOf(m) = {m[1], m[2]} /\ m \in Agent \X Agent
    BY <2>3 DEF Match, PairOf
  <2>6. terms \in Terms
    BY <2>3, <2>5, PolicyType, NegotiatedType DEF Viable
  <2>7. score \in Nat
    BY <2>5 DEF Score, Scenario
  <2> HIDE DEF terms, score
  <2>8. s \in AnySession /\ s.proposer = m[1] /\ s.recipient = m[2]
    <3>1. s = [status |-> "asked", purpose |-> "formation", proposer |-> m[1],
               recipient |-> m[2], terms |-> terms, offer |-> 1, score |-> score,
               estimate |-> 0]
      BY DEF Session
    <3> HIDE DEF s, w, v, x
    <3> QED BY <2>5, <2>6, <2>7, <3>1 DEF AnySession
  <2>9. SameLinks(u, w) /\ IsUniverse(w)
        /\ \A b \in Agent : w.life[b] = "negotiating" => b = m[1] \/ u.life[b] = "negotiating"
    BY <1>a, <2>5, BegunLife DEF SameLinks
  <2> HIDE DEF s, w
  <2>10. SameLinks(w, v)
         /\ \A b \in Agent : v.life[b] = "negotiating" => b = m[2] \/ w.life[b] = "negotiating"
    BY <2>5, <2>9, BegunLife
  <2> DEFINE t == Ask(v, s)
  <2>11. /\ t \in AnySession /\ t.status \in {"asked", "refused"}
         /\ t.proposer = m[1] /\ t.recipient = m[2]
    BY <2>8, AskType
  <2> HIDE DEF v, t
  <2>12. SameLinks(u, v)
    BY <2>9, <2>10 DEF SameLinks
  <2>13. But(v, round, r)
    BY <2>12, ButSame
  <2> DEFINE p == Phase(r, "negotiating")
  <2>14. /\ p \in Call /\ p.phase = "negotiating"
         /\ p.tasks = [id \in LinkId |-> NoTask]
    BY <1>a, PhaseType
  <2>15. x = [p EXCEPT !.queue = rest, !.match = m, !.session = t, !.saved = saved,
                       !.accepted = accepted]
    BY DEF t
  <2>16. saved \in AgentLifecycle \X AgentLifecycle
    BY <1>a, <2>5, UniverseFields
  <2> HIDE DEF p, x, rest, saved
  <2>17. /\ x.phase = p.phase /\ x.calls = p.calls /\ x.queue = rest /\ x.match = m
         /\ x.session = t /\ x.saved = saved /\ x.accepted = accepted /\ x.tasks = p.tasks
         /\ x = [phase |-> x.phase, calls |-> x.calls, queue |-> x.queue, match |-> x.match,
                 session |-> x.session, saved |-> x.saved, accepted |-> x.accepted,
                 tasks |-> x.tasks]
    BY <2>14, <2>15 DEF Call
  <2>18. p.calls \in Nat /\ p.tasks \in [LinkId -> Task]
    BY <2>14 DEF Call
  <2>19. x \in Call
    BY <2>3, <2>4, <2>11, <2>14, <2>16, <2>17, <2>18 DEF Call
  <2>20. Held(t, PairOf(m))
    BY <2>5, <2>11 DEF Held
  <2>21. Fits(v, x)
    <3>1. \A id \in LinkId : x.tasks[id] = NoTask /\ x.tasks[id].kind = "none"
      BY <2>14, <2>17 DEF NoTask
    <3>2. "none" \in KindsOf(x.phase)
      BY DEF KindsOf
    <3>3. \A id \in LinkId : TaskFits(v, id, NoTask)
      BY DEF TaskFits, NoTask
    <3> QED BY <2>3, <2>11, <2>16, <2>17, <2>20, <3>1, <3>2, <3>3 DEF Fits
  <2>22. Cardinality(FreeIds(v)) > Cardinality(Parties(round) \ {r})
    BY <2>3, <2>12 DEF Viable, SameLinks, FreeIds, Negotiating, Parties
  <2>23. \A a \in PairOf(x.match) : Capacity(v, a) > 0
    <3>1. \A a \in PairOf(m) : Capacity(u, a) > 0
      BY <2>3 DEF Viable
    <3> QED BY <2>12, <2>17, <3>1 DEF SameLinks, Capacity
  <2>24. ASSUME NEW a \in Agent, v.life[a] = "negotiating"
         PROVE  \/ \E q \in Parties(round) \ {r} : a \in PairOf(round[q].match)
                \/ a \in PairOf(x.match)
    BY <2>5, <2>9, <2>10, <2>17, <2>24 DEF QuietBut
  <2>25. ASSUME NEW id \in v.links, v.link[id].lifecycle = "renegotiating"
         PROVE  \E q \in Round \ {r} : round[q].tasks[id].kind = "review"
    BY <2>12, <2>25 DEF QuietBut, SameLinks
  <2>26. Joins(v, round, r, x)
    BY <2>14, <2>17, <2>19, <2>21, <2>22, <2>23, <2>24, <2>25 DEF Joins
  <2> QED BY <2>1, <2>13, <2>26, Joined
<1> QED BY <1>1, <1>2

-----------------------------------------------------------------------------
(* The steps of a call. *)

(* The calls are calls. *)
LEMMA CallFields ==
    ASSUME IInv, NEW r \in Round
    PROVE  /\ round[r] \in Call /\ round \in [Round -> Call]
           /\ Fits(universe, round[r]) /\ Sound(universe) /\ Closed(universe)
           /\ IsUniverse(universe) /\ scenario \in Scenario
           /\ Calls(r) \in Nat /\ round[r].calls \in Nat
           /\ round[r].phase # "idle" => Calls(r) # 0
           /\ round[r].tasks \in [LinkId -> Task]
           /\ round[r].queue \in Seq(Match) /\ round[r].accepted \in [Agent -> Nat]
<1>1. round[r] \in Call /\ round \in [Round -> Call] /\ scenario \in Scenario
  BY DEF IInv, Fine
<1>2. Calls(r) \in Nat
  BY <1>1 DEF Calls, Scenario
<1>3. /\ round[r].calls \in Nat /\ round[r].tasks \in [LinkId -> Task]
      /\ round[r].queue \in Seq(Match) /\ round[r].accepted \in [Agent -> Nat]
  BY <1>1 DEF Call
<1>4. /\ Fits(universe, round[r]) /\ Sound(universe) /\ IsUniverse(universe)
      /\ round[r].phase # "idle" => Calls(r) # 0
  BY DEF IInv, Fine, CallsFit, RoomKept
<1> QED BY <1>1, <1>2, <1>3, <1>4 DEF Sound

(* A call that neither begins nor ends a negotiation and tends links. *)
LEMMA CallStep ==
    ASSUME IInv, NEW r \in Round, NEW u, Tended(universe, u), u.life = universe.life,
           \A id \in DOMAIN universe.link : Agreed(universe.link[id]) => Agreed(u.link[id]),
           NEW x \in Call, Fits(u, x), Calls(r) = 0 => x.phase = "idle",
           x.phase = "negotiating" <=> round[r].phase = "negotiating",
           x.phase = "negotiating" => x.match = round[r].match,
           \A id \in u.links :
             u.link[id].lifecycle = "renegotiating" =>
               \/ x.tasks[id].kind = "review"
               \/ /\ universe.link[id].lifecycle = "renegotiating"
                  /\ round[r].tasks[id].kind # "review",
           universe' = u, round' = [round EXCEPT ![r] = x]
    PROVE  Fine(universe', round')
<1>1. scenario \in Scenario /\ Fine(universe, round) /\ IsUniverse(universe)
  BY DEF IInv, Fine
<1>2. But(u, round, r)
  BY <1>1, Without
<1>3. x.phase = "negotiating" => Cardinality(FreeIds(u)) > Cardinality(Parties(round) \ {r})
  <2>1. FreeIds(u) = FreeIds(universe)
    BY DEF FreeIds, Tended
  <2>2. Cardinality(FreeIds(universe)) >= Cardinality(Parties(round))
    BY <1>1 DEF Fine, IdsSuffice
  <2>3. /\ Cardinality(FreeIds(universe)) \in Nat
        /\ Cardinality(Parties(round) \ {r}) \in Nat
        /\ Cardinality(Parties(round)) = IF r \in Parties(round)
                                         THEN Cardinality(Parties(round) \ {r}) + 1
                                         ELSE Cardinality(Parties(round) \ {r})
    BY Counts
  <2>4. x.phase = "negotiating" => r \in Parties(round)
    BY DEF Parties
  <2> QED BY <2>1, <2>2, <2>3, <2>4
<1>4. ASSUME x.phase = "negotiating", MakesLinksAlone, NEW a \in PairOf(x.match)
      PROVE  Capacity(u, a) > 0
  <2>1. r \in Parties(round) /\ x.match = round[r].match
    BY <1>4 DEF Parties
  <2>2. round[r].match \in Match
    BY <2>1, CallFields DEF Fits, Parties
  <2>3. a \in Agent /\ Capacity(universe, a) > 0
    BY <1>1, <1>4, <2>1, <2>2 DEF Fine, RoomKept, Match, PairOf
  <2> QED BY <1>1, <2>3, CapacityTended
<1>5. ASSUME NEW a \in Agent, u.life[a] = "negotiating"
      PROVE  \/ \E q \in Parties(round) \ {r} : a \in PairOf(round[q].match)
             \/ x.phase = "negotiating" /\ a \in PairOf(x.match)
  <2>1. PICK q \in Parties(round) : a \in PairOf(round[q].match)
    BY <1>1, <1>5 DEF Fine, Quiet
  <2>2. CASE q = r
    BY <2>1, <2>2 DEF Parties
  <2> QED BY <2>1, <2>2
<1>6. ASSUME NEW id \in u.links, u.link[id].lifecycle = "renegotiating",
             x.tasks[id].kind # "review"
      PROVE  \E q \in Round \ {r} : round[q].tasks[id].kind = "review"
  <2>1. /\ universe.link[id].lifecycle = "renegotiating" /\ id \in universe.links
        /\ round[r].tasks[id].kind # "review"
    BY <1>6 DEF Tended
  <2>2. PICK q \in Round : round[q].tasks[id].kind = "review"
    BY <1>1, <2>1 DEF Fine, Quiet
  <2> QED BY <2>1, <2>2
<1>7. Joins(u, round, r, x)
  BY <1>3, <1>4, <1>5, <1>6 DEF Joins
<1> QED BY <1>2, <1>7, Joined

(* The same for a call that changes the task it has about one link. *)
LEMMA TaskStep ==
    ASSUME IInv, NEW r \in Round, NEW u, Tended(universe, u), u.life = universe.life,
           \A i \in DOMAIN universe.link : Agreed(universe.link[i]) => Agreed(u.link[i]),
           NEW id \in LinkId, NEW t \in Task, TaskFits(u, id, t),
           t.kind \in KindsOf(round[r].phase), round[r].phase \in {"synchronizing", "adapting"},
           \A i \in u.links : i # id /\ u.link[i].lifecycle = "renegotiating" =>
             universe.link[i].lifecycle = "renegotiating",
           u.link[id].lifecycle = "renegotiating" =>
             \/ t.kind = "review"
             \/ /\ universe.link[id].lifecycle = "renegotiating"
                /\ round[r].tasks[id].kind # "review",
           universe' = u, round' = [round EXCEPT ![r].tasks[id] = t]
    PROVE  Fine(universe', round')
<1> DEFINE y == round[r]
           tasks == [y.tasks EXCEPT ![id] = t]
           x == [y EXCEPT !.tasks = tasks]
<1>1. /\ y \in Call /\ round \in [Round -> Call] /\ y.tasks \in [LinkId -> Task]
      /\ Fits(universe, y) /\ IsUniverse(universe) /\ scenario \in Scenario
      /\ y.phase # "idle" => Calls(r) # 0
  BY CallFields
<1>2. /\ tasks \in [LinkId -> Task] /\ tasks[id] = t
      /\ \A i \in LinkId : i # id => tasks[i] = y.tasks[i]
  BY <1>1
<1>3. round' = [round EXCEPT ![r] = x]
  BY <1>1 DEF Call
<1> HIDE DEF tasks
<1>4. x \in Call /\ x.phase = y.phase /\ x.match = y.match /\ x.tasks = tasks
  BY <1>1, <1>2 DEF Call
<1> HIDE DEF x
<1>5. Fits(u, x)
  <2>1. Fits(u, y)
    BY <1>1, FitsTended
  <2>2. ASSUME NEW i \in LinkId
        PROVE  TaskFits(u, i, x.tasks[i]) /\ x.tasks[i].kind \in KindsOf(x.phase)
    <3>1. CASE i = id
      BY <1>2, <1>4, <3>1
    <3>2. CASE i # id
      BY <1>2, <1>4, <2>1, <3>2 DEF Fits
    <3> QED BY <3>1, <3>2
  <2>3. x.phase # "negotiating"
    BY <1>4
  <2> QED BY <2>2, <2>3 DEF Fits
<1>6. ASSUME NEW i \in u.links, u.link[i].lifecycle = "renegotiating"
      PROVE  \/ x.tasks[i].kind = "review"
             \/ /\ universe.link[i].lifecycle = "renegotiating"
                /\ round[r].tasks[i].kind # "review"
  <2>1. i \in LinkId
    BY UniverseFields DEF Tended
  <2>2. CASE i = id
    BY <1>2, <1>4, <1>6, <2>2
  <2>3. CASE i # id
    BY <1>2, <1>4, <1>6, <2>1, <2>3
  <2> QED BY <2>2, <2>3
<1> QED BY <1>1, <1>3, <1>4, <1>5, <1>6, CallStep

(* A call that is in no session needs none. *)
LEMMA QuietWithout ==
    ASSUME IInv, NEW r \in Round, round[r].phase \notin {"negotiating", "adapting"}
    PROVE  QuietBut(universe, round, r) /\ But(universe, round, r)
<1>1. \A id \in LinkId : round[r].tasks[id].kind # "review"
  <2>1. KindsOf(round[r].phase) \subseteq {"none", "project"}
    BY DEF KindsOf
  <2> QED BY <2>1, CallFields DEF Fits
<1>2. r \notin Parties(round)
  BY DEF Parties
<1>3. universe.links \subseteq LinkId
  BY UniverseFields DEF IInv, Fine
<1>4. Quiet(universe, round)
  BY DEF IInv, Fine
<1>5. QuietBut(universe, round, r)
  <2>1. ASSUME NEW id \in universe.links, universe.link[id].lifecycle = "renegotiating"
        PROVE  \E q \in Round \ {r} : round[q].tasks[id].kind = "review"
    BY <1>1, <1>3, <1>4, <2>1 DEF Quiet
  <2>2. Parties(round) \ {r} = Parties(round)
    BY <1>2
  <2> QED BY <1>4, <2>1, <2>2 DEF Quiet, QuietBut
<1>6. But(universe, round, r)
  BY CallFields, TendedSame, Without DEF IInv
<1> QED BY <1>5, <1>6

(* What the agents propose are matches. *)
LEMMA CandidatesType ==
    ASSUME NEW u, NEW queue \in Candidates(u)
    PROVE  queue \in Seq(Match)
<1> DEFINE all == UNION {Discover(u, a) : a \in Agent}
           kept == {m \in all :
                      Mirror(m) \in all =>
                        \/ Score(m[1], m[2]) > Score(m[2], m[1])
                        \/ Score(m[1], m[2]) = Score(m[2], m[1]) /\ m[1] < m[2]}
<1>1. ASSUME NEW a \in Agent PROVE Discover(u, a) \subseteq Match
  <2>1. Matches(u, a) \subseteq Agent \ {a}
    BY DEF Matches
  <2>2. \A m \in Discover(u, a) : \E b \in Matches(u, a) : m = <<a, b>>
    BY DEF Discover
  <2> QED BY <2>1, <2>2 DEF Match
<1>2. all \subseteq Match /\ kept \subseteq all
  BY <1>1
<1>3. queue \in SetToSeqs(kept)
  BY DEF Candidates
<1> HIDE DEF all, kept
<1>4. IsFiniteSet(kept)
  <2>1. IsFiniteSet(Agent \X Agent)
    BY LinkAssumption, FS_Product
  <2>2. kept \subseteq Agent \X Agent
    BY <1>2 DEF Match
  <2> QED BY <2>1, <2>2, FS_Subset
<1>5. Cardinality(kept) \in Nat /\ queue \in [1 .. Cardinality(kept) -> kept]
  BY <1>3, <1>4, FS_CardinalityType DEF SetToSeqs
<1>6. queue \in [1 .. Cardinality(kept) -> Match]
  BY <1>2, <1>5
<1> QED BY <1>5, <1>6

(* A round begins. *)
LEMMA StartRoundFine ==
    ASSUME IInv, NEW r \in Round, StartRound(r)
    PROVE  Fine(universe', round') /\ scenario' = scenario
<1>1. PICK reviewed \in ReviewLinks(universe), cooldown \in {universe.cooldown, {}} :
        LET u == PublishAdvertisements([reviewed EXCEPT !.cooldown = cooldown])
        IN /\ universe' = u
           /\ \E queue \in Candidates(u) :
                round' = [round EXCEPT ![r] =
                  [Phase(r, "scoring") EXCEPT !.queue = queue, !.calls = Called(r)]]
  BY DEF StartRound
<1>2. round[r].phase = "idle" /\ round[r].calls < Calls(r) /\ scenario' = scenario
  BY DEF StartRound
<1> DEFINE w == [reviewed EXCEPT !.cooldown = cooldown]
           u == PublishAdvertisements(w)
           ads == [a \in Agent |-> IF Eligible(w, a) THEN Cardinality(w.held[a]) ELSE NoAd]
<1>3. /\ round[r] \in Call /\ round \in [Round -> Call] /\ Closed(universe)
      /\ IsUniverse(universe) /\ scenario \in Scenario
      /\ Calls(r) \in Nat /\ round[r].calls \in Nat /\ Fits(universe, round[r])
  BY CallFields
<1>4. Tended(universe, reviewed) /\ Calm(universe, reviewed) /\ IsUniverse(reviewed)
  BY <1>3, ReviewAllTended DEF Tended
<1>5. SameLinks(reviewed, w) /\ w.life = reviewed.life
  <2>1. cooldown \in SUBSET SUBSET Agent
    BY <1>3 DEF IsUniverse
  <2>2. /\ w.life = reviewed.life /\ w.held = reviewed.held /\ w.link = reviewed.link
        /\ w.links = reviewed.links
    BY <1>4 DEF IsUniverse
  <2>3. IsUniverse(w)
    BY <1>4, <2>1, <2>2 DEF IsUniverse
  <2> QED BY <2>2, <2>3 DEF SameLinks
<1> HIDE DEF w
<1>6. SameLinks(w, u) /\ u.life = w.life
  <2>1. IsUniverse(w)
    BY <1>5 DEF SameLinks
  <2>2. ads \in [Agent -> Nat \union {NoAd}]
    <3>1. \A a \in Agent : Cardinality(w.held[a]) \in Nat
      BY <1>3, <2>1, CapacityType, FS_CardinalityType
    <3> QED BY <3>1
  <2>3. u = [w EXCEPT !.ads = ads]
    BY <2>1 DEF PublishAdvertisements, IsUniverse
  <2> HIDE DEF ads, u
  <2>4. u.life = w.life /\ u.held = w.held /\ u.link = w.link /\ u.links = w.links
    BY <2>1, <2>3 DEF IsUniverse
  <2>5. IsUniverse(u)
    BY <2>1, <2>2, <2>3, <2>4 DEF IsUniverse
  <2> QED BY <2>4, <2>5 DEF SameLinks
<1>7. PICK queue \in Candidates(u) :
        /\ universe' = u
        /\ round' = [round EXCEPT ![r] =
             [Phase(r, "scoring") EXCEPT !.queue = queue, !.calls = Called(r)]]
  BY <1>1 DEF w
<1>8. queue \in Seq(Match)
  BY CandidatesType
<1> HIDE DEF u
<1>9. SameLinks(reviewed, u) /\ u.life = universe.life
  BY <1>4, <1>5, <1>6 DEF SameLinks, Calm
<1>10. Tended(universe, u)
  BY <1>3, <1>4, <1>9, SameTended, TendedTwice
<1> DEFINE p == Phase(r, "scoring")
           x == [p EXCEPT !.queue = queue, !.calls = Called(r)]
<1>11. p \in Call /\ p.phase = "scoring" /\ p.tasks = [id \in LinkId |-> NoTask]
  BY <1>3, PhaseType
<1>12. Called(r) \in Nat
  BY <1>3 DEF Called
<1> HIDE DEF p
<1>13. x \in Call /\ x.phase = "scoring" /\ x.tasks = [id \in LinkId |-> NoTask]
  BY <1>8, <1>11, <1>12 DEF Call
<1>14. round' = [round EXCEPT ![r] = x]
  BY <1>7 DEF p
<1> HIDE DEF x
<1>15. Fits(u, x)
  BY <1>13, PlainFits
<1>16. \A id \in LinkId : round[r].tasks[id].kind # "review"
  <2>1. KindsOf(round[r].phase) = {"none"}
    BY <1>2 DEF KindsOf
  <2> QED BY <1>3, <2>1 DEF Fits
<1>17. /\ \A id \in DOMAIN universe.link : Agreed(universe.link[id]) => Agreed(u.link[id])
       /\ \A id \in DOMAIN universe.link : u.link[id].lifecycle = "renegotiating" =>
             universe.link[id].lifecycle = "renegotiating"
  BY <1>4, <1>9 DEF Calm, SameLinks
<1>18. \A id \in u.links : id \in DOMAIN universe.link /\ id \in LinkId
  BY <1>3, <1>10, UniverseFields DEF Tended, Closed
<1>19. Calls(r) # 0
  BY <1>2, <1>3
<1>20. x.phase = "negotiating" <=> round[r].phase = "negotiating"
  BY <1>2, <1>13
<1>21. Fine(universe', round')
  BY <1>7, <1>9, <1>10, <1>13, <1>14, <1>15, <1>16, <1>17, <1>18, <1>19, <1>20, CallStep
<1> QED BY <1>2, <1>21

(* Every agent has scored its peers. *)
LEMMA FirstMatchFine ==
    ASSUME IInv, NEW r \in Round, FirstMatch(r)
    PROVE  Fine(universe', round') /\ scenario' = scenario
<1>1. /\ round[r].phase = "scoring" /\ scenario' = scenario
      /\ Proceed(universe, r, round[r].queue, round[r].accepted)
  BY DEF FirstMatch
<1>2. /\ round[r].queue \in Seq(Match) /\ round[r].accepted \in [Agent -> Nat]
      /\ Calls(r) # 0 /\ scenario \in Scenario
  BY <1>1, CallFields
<1>3. QuietBut(universe, round, r) /\ But(universe, round, r)
  BY <1>1, QuietWithout
<1> QED BY <1>1, <1>2, <1>3, ProceedFine

(* A recipient answers. *)
LEMMA AnswerOfferFine ==
    ASSUME IInv, NEW r \in Round, AnswerOffer(r)
    PROVE  Fine(universe', round') /\ scenario' = scenario
<1> DEFINE y == round[r]
<1>1. /\ y.phase = "negotiating" /\ y.session.status \notin Final
      /\ scenario' = scenario /\ universe' = universe
  BY DEF AnswerOffer
<1>2. PICK d \in Decisions(y.session) :
        round' = [round EXCEPT ![r].session = Answered(universe, @, d)]
  BY DEF AnswerOffer
<1>3. /\ y \in Call /\ round \in [Round -> Call] /\ Fits(universe, y)
      /\ IsUniverse(universe) /\ scenario \in Scenario /\ Calls(r) # 0
  BY <1>1, CallFields
<1>4. y.session \in AnySession /\ Held(y.session, PairOf(y.match)) /\ y.match \in Match
  BY <1>1, <1>3 DEF Fits
<1> DEFINE t == Answered(universe, y.session, d)
           x == [y EXCEPT !.session = t]
<1>5. t \in AnySession /\ Held(t, PairOf(y.match))
  BY <1>1, <1>3, <1>4, AnsweredHeld
<1>6. round' = [round EXCEPT ![r] = x]
  BY <1>2, <1>3 DEF Call
<1> HIDE DEF t
<1>7. /\ x \in Call /\ x.phase = y.phase /\ x.match = y.match /\ x.tasks = y.tasks
      /\ x.session = t /\ x.saved = y.saved
  BY <1>3, <1>5 DEF Call
<1> HIDE DEF x
<1>8. Fits(universe, x)
  BY <1>3, <1>5, <1>7 DEF Fits
<1>9. Tended(universe, universe)
  BY <1>3, TendedSame
<1>10. Fine(universe', round')
  BY <1>1, <1>3, <1>6, <1>7, <1>8, <1>9, CallStep
<1> QED BY <1>1, <1>10

(* Where one call makes links no other does. *)
LEMMA AloneIs ==
    ASSUME IInv, MakesLinksAlone, NEW q \in Round, NEW r \in Round,
           round[q].phase # "idle", round[r].phase # "idle"
    PROVE  q = r
<1>1. q \in Rounds /\ r \in Rounds
  BY CallFields DEF Rounds
<1>2. IsFiniteSet(Rounds) /\ Cardinality(Rounds) = 1
  BY FS_Subset, TopologyAssumption DEF Rounds, MakesLinksAlone
<1>3. \E x : Rounds = {x}
  BY <1>2, FS_Singleton
<1> QED BY <1>1, <1>3

(* What is restored when the session of a call has ended. *)
LEMMA RestoredBut ==
    ASSUME IInv, NEW r \in Round, round[r].phase = "negotiating",
           NEW u, u = Restored(r)
    PROVE  SameLinks(universe, u) /\ But(u, round, r) /\ QuietBut(u, round, r)
<1> DEFINE m == round[r].match
           saved == round[r].saved
           w == RestoreLifecycle(universe, m[1], saved[1])
<1>1. /\ Fits(universe, round[r]) /\ IsUniverse(universe) /\ scenario \in Scenario
      /\ Fine(universe, round)
  BY CallFields DEF IInv
<1>2. m[1] \in Agent /\ m[2] \in Agent /\ PairOf(m) = {m[1], m[2]}
  BY <1>1 DEF Fits, Match, PairOf
<1>3. u = RestoreLifecycle(w, m[2], saved[2])
  BY DEF Restored, AllRestored
<1>4. /\ SameLinks(universe, w) /\ w.life[m[1]] # "negotiating"
      /\ \A b \in Agent : w.life[b] = "negotiating" => universe.life[b] = "negotiating"
  BY <1>1, <1>2, RestoredLife
<1> HIDE DEF w
<1>5. /\ SameLinks(w, u) /\ u.life[m[2]] # "negotiating"
      /\ \A b \in Agent : u.life[b] = "negotiating" => w.life[b] = "negotiating"
  BY <1>2, <1>3, <1>4, RestoredLife DEF SameLinks
<1>6. SameLinks(universe, u)
  BY <1>4, <1>5 DEF SameLinks
<1>7. But(universe, round, r)
  BY <1>1, TendedSame, Without
<1>8. But(u, round, r)
  BY <1>1, <1>6, <1>7, ButSame
<1>9. ASSUME NEW a \in Agent, u.life[a] = "negotiating"
      PROVE  \E q \in Parties(round) \ {r} : a \in PairOf(round[q].match)
  <2>1. universe.life[a] = "negotiating" /\ a # m[1] /\ a # m[2]
    BY <1>2, <1>4, <1>5, <1>9
  <2>2. PICK q \in Parties(round) : a \in PairOf(round[q].match)
    BY <1>1, <2>1 DEF Fine, Quiet
  <2>3. q # r
    BY <1>2, <2>1, <2>2
  <2> QED BY <2>2, <2>3
<1>10. ASSUME NEW id \in u.links, u.link[id].lifecycle = "renegotiating"
       PROVE  \E q \in Round \ {r} : round[q].tasks[id].kind = "review"
  <2>1. id \in universe.links /\ universe.link[id].lifecycle = "renegotiating" /\ id \in LinkId
    BY <1>1, <1>6, <1>10, UniverseFields DEF SameLinks
  <2>2. PICK q \in Round : round[q].tasks[id].kind = "review"
    BY <1>1, <2>1 DEF Fine, Quiet
  <2>3. round[r].tasks[id].kind \in {"none"}
    BY <1>1, <2>1 DEF Fits, KindsOf
  <2> QED BY <2>2, <2>3
<1> QED BY <1>6, <1>8, <1>9, <1>10 DEF QuietBut

(* There is an id for the link that is about to be made. *)
LEMMA FreeId ==
    ASSUME NEW u, Cardinality(FreeIds(u)) > 0, NEW id, id = Least(FreeIds(u))
    PROVE  id \in LinkId /\ id \notin DOMAIN u.link
<1>1. FreeIds(u) # {}
  BY FS_EmptySet
<1>2. FreeIds(u) \subseteq Nat
  BY TopologyAssumption DEF FreeIds
<1>3. id \in FreeIds(u)
  BY <1>1, <1>2, LeastIs
<1> QED BY <1>3 DEF FreeIds

(* A link more is an id less. *)
LEMMA IdsGrown ==
    ASSUME NEW u, NEW v, NEW id \in LinkId, id \notin DOMAIN u.link, NEW l, Grown(u, v, id, l)
    PROVE  Cardinality(FreeIds(v)) = Cardinality(FreeIds(u)) - 1
<1>1. FreeIds(v) = FreeIds(u) \ {id} /\ id \in FreeIds(u)
  BY DEF FreeIds, Grown
<1>2. IsFiniteSet(FreeIds(u))
  BY Counts
<1> QED BY <1>1, <1>2, FS_RemoveElement

(* A negotiation that succeeds leaves its link, or leaves things as they are. *)
LEMMA AttachedBut ==
    ASSUME IInv, NEW r \in Round, round[r].phase = "negotiating",
           NEW u, SameLinks(universe, u), But(u, round, r), QuietBut(u, round, r),
           NEW s, s = round[r].session, s.status = "accepted",
           NEW m, m = round[r].match,
           NEW v, v = AttachLink(u, Least(FreeIds(u)), NewLink(m[1], m[2], "probation", s.terms)).u
    PROVE  But(v, round, r) /\ QuietBut(v, round, r)
<1> DEFINE id == Least(FreeIds(u))
           l == NewLink(m[1], m[2], "probation", s.terms)
<1>1. /\ Fits(universe, round[r]) /\ IsUniverse(universe) /\ scenario \in Scenario
      /\ Fine(universe, round)
  BY CallFields DEF IInv
<1>2. m[1] \in Agent /\ m[2] \in Agent /\ m[1] # m[2] /\ PairOf(m) = {m[1], m[2]}
  BY <1>1 DEF Fits, Match, PairOf
<1>3. s \in AnySession /\ Held(s, PairOf(m)) /\ s.terms \in Terms
  BY <1>1, SessionFields DEF Fits
<1>4. /\ l \in Link /\ l.left = m[1] /\ l.right = m[2] /\ l.lifecycle = "probation"
      /\ l.terms = s.terms
  BY <1>2, <1>3, NewLinkType DEF Lifecycle
<1>5. Agreed(l)
  <2>1. Members(l) = {s.proposer, s.recipient}
    BY <1>2, <1>3, <1>4 DEF Held, Members
  <2>2. Suits(l)
    BY <1>3, <1>4, <2>1 DEF Held, Suits, Supported
  <2> QED BY <1>4, <2>2 DEF Agreed, Settled
<1>6. /\ Cardinality(FreeIds(u)) >= Cardinality(Parties(round) \ {r}) + 1
      /\ Cardinality(Parties(round) \ {r}) \in Nat /\ Cardinality(FreeIds(u)) \in Nat
  <2>1. FreeIds(u) = FreeIds(universe) /\ r \in Parties(round)
    BY DEF FreeIds, SameLinks, Parties
  <2>2. Cardinality(FreeIds(universe)) >= Cardinality(Parties(round))
    BY <1>1 DEF Fine, IdsSuffice
  <2> QED BY <2>1, <2>2, Counts
<1>7. id \in LinkId /\ id \notin DOMAIN u.link
  <2>1. Cardinality(FreeIds(u)) > 0
    BY <1>6
  <2> QED BY <2>1, FreeId
<1>8. IsUniverse(u) /\ Closed(u) /\ Sound(u) /\ u.links \subseteq DOMAIN u.link
  BY DEF But, Sound, Closed
<1> HIDE DEF id, l
<1>9. /\ IsUniverse(v) /\ v.life = u.life
      /\ v = u \/ Grown(u, v, id, l)
      /\ v = u \/ (l.left # l.right /\ Capacity(u, l.left) > 0 /\ Capacity(u, l.right) > 0
                     => Full(u, v, id, l))
  BY <1>1, <1>4, <1>7, <1>8, AttachGrown DEF id, l
<1>10. CASE v = u
  BY <1>10
<1>11. CASE v # u
  <2>1. Grown(u, v, id, l)
    BY <1>9, <1>11
  <2>2. Sound(v)
    BY <1>5, <1>7, <1>8, <2>1, SoundGrown
  <2>3. \A q \in Round \ {r} : Fits(v, round[q])
    BY <2>1, FitsGrown DEF But
  <2>4. Cardinality(FreeIds(v)) >= Cardinality(Parties(round) \ {r})
    BY <1>6, <1>7, <2>1, IdsGrown
  <2>5. ASSUME MakesLinksAlone PROVE Mirrors(v) /\ Parties(round) \ {r} = {}
    <3>1. Capacity(u, m[1]) > 0 /\ Capacity(u, m[2]) > 0
      <4>1. Capacity(universe, m[1]) > 0 /\ Capacity(universe, m[2]) > 0
        BY <1>1, <1>2, <2>5 DEF Fine, RoomKept, Parties
      <4> QED BY <4>1 DEF Capacity, SameLinks
    <3>2. Full(u, v, id, l)
      BY <1>2, <1>4, <1>9, <1>11, <3>1
    <3>3. Mirrors(v)
      BY <1>4, <1>7, <1>8, <2>1, <2>5, <3>2, MirrorsGrown DEF But
    <3>4. Parties(round) \ {r} = {}
      <4>1. ASSUME NEW q \in Parties(round) PROVE q = r
        BY <2>5, AloneIs DEF Parties
      <4> QED BY <4>1
    <3> QED BY <3>3, <3>4
  <2>6. But(v, round, r)
    BY <1>9, <2>2, <2>3, <2>4, <2>5 DEF But
  <2>7. ASSUME NEW i \in v.links, v.link[i].lifecycle = "renegotiating"
        PROVE  \E q \in Round \ {r} : round[q].tasks[i].kind = "review"
    <3>1. v.links = u.links \union {id} /\ v.link[id] = l
      BY <2>1 DEF Grown
    <3>2. i # id
      BY <1>4, <2>7, <3>1
    <3>3. i \in u.links /\ v.link[i] = u.link[i]
      BY <1>8, <2>1, <2>7, <3>1, <3>2 DEF Grown
    <3> QED BY <2>7, <3>3 DEF QuietBut
  <2>8. QuietBut(v, round, r)
    BY <1>9, <2>7 DEF QuietBut
  <2> QED BY <2>6, <2>8
<1> QED BY <1>10, <1>11

(* What follows a session. *)
LEMMA ConcludeOfferFine ==
    ASSUME IInv, NEW r \in Round, ConcludeOffer(r)
    PROVE  Fine(universe', round') /\ scenario' = scenario
<1> DEFINE m == round[r].match
           s == round[r].session
           accepted == round[r].accepted
           u == Restored(r)
           attached == AttachLink(u, Least(FreeIds(u)),
                                  NewLink(m[1], m[2], "probation", s.terms))
           counted == [a \in Agent |-> IF a \in PairOf(m) THEN accepted[a] + 1 ELSE accepted[a]]
           cooled == [u EXCEPT !.cooldown = @ \union {PairOf(m)}]
<1>1. /\ round[r].phase = "negotiating" /\ scenario' = scenario
      /\ IF s.status = "accepted"
         THEN Proceed(attached.u, r, round[r].queue,
                      IF attached.ok THEN counted ELSE accepted)
         ELSE Proceed(cooled, r, round[r].queue, accepted)
  BY DEF ConcludeOffer
<1>2. /\ round[r].queue \in Seq(Match) /\ accepted \in [Agent -> Nat]
      /\ Calls(r) # 0 /\ scenario \in Scenario /\ Fits(universe, round[r])
  BY <1>1, CallFields
<1>3. counted \in [Agent -> Nat]
  BY <1>2
<1> HIDE DEF u, counted
<1>4. SameLinks(universe, u) /\ But(u, round, r) /\ QuietBut(u, round, r)
  BY <1>1, RestoredBut DEF u
<1>5. CASE s.status = "accepted"
  <2> DEFINE v == attached.u
             count == IF attached.ok THEN counted ELSE accepted
  <2>1. But(v, round, r) /\ QuietBut(v, round, r)
    BY <1>1, <1>4, <1>5, AttachedBut
  <2>2. count \in [Agent -> Nat]
    BY <1>2, <1>3
  <2>3. Proceed(v, r, round[r].queue, count)
    BY <1>1, <1>5
  <2> HIDE DEF v, count
  <2>4. Fine(universe', round')
    BY <1>2, <2>1, <2>2, <2>3, ProceedFine
  <2> QED BY <1>1, <2>4
<1>6. CASE s.status # "accepted"
  <2>1. IsUniverse(u)
    BY <1>4 DEF But
  <2>2. PairOf(m) \in SUBSET Agent
    BY <1>1, <1>2 DEF Fits, Match, PairOf
  <2>3. u.cooldown \union {PairOf(m)} \in SUBSET SUBSET Agent
    BY <2>1, <2>2 DEF IsUniverse
  <2>4. cooled = [u EXCEPT !.cooldown = u.cooldown \union {PairOf(m)}]
    BY <2>1 DEF IsUniverse
  <2>5. /\ cooled.life = u.life /\ cooled.held = u.held /\ cooled.link = u.link
        /\ cooled.links = u.links
    BY <2>1, <2>4 DEF IsUniverse
  <2>6. Proceed(cooled, r, round[r].queue, accepted)
    BY <1>1, <1>6
  <2> HIDE DEF cooled
  <2>7. IsUniverse(cooled)
    BY <2>1, <2>3, <2>4, <2>5 DEF IsUniverse
  <2>8. But(cooled, round, r) /\ QuietBut(cooled, round, r)
    <3>1. SameLinks(u, cooled)
      BY <2>5, <2>7 DEF SameLinks
    <3>2. But(cooled, round, r)
      BY <1>2, <1>4, <3>1, ButSame
    <3> QED BY <1>4, <2>5, <3>2 DEF QuietBut
  <2>9. Fine(universe', round')
    BY <1>2, <2>6, <2>8, ProceedFine
  <2> QED BY <1>1, <2>9
<1> QED BY <1>5, <1>6

(* Whose turn it is takes part in the link. *)
LEMMA TurnOfMember ==
    ASSUME NEW l \in Link
    PROVE  CurrentTurnAgent(l) \in Members(l) /\ CurrentTurnAgent(l) \in Agent
BY LinkFields DEF CurrentTurnAgent, Members

(* A link is synchronised by the one whose turn it is; a dormant one has served. *)
LEMMA SyncTaskFits ==
    ASSUME NEW u, IsUniverse(u), NEW id \in DOMAIN u.link, Agreed(u.link[id]),
           NEW turn \in Nat, NEW t, t = SyncTask(u, id, turn)
    PROVE  t \in Task /\ TaskFits(u, id, t) /\ t.kind = "project"
<1>1. u.link[id] \in Link
  BY UniverseFields
<1>2. /\ t.kind = "project" /\ t.was = u.link[id].lifecycle /\ t \in ProjectTask
  BY <1>1, TurnOfMember, LinkFields DEF SyncTask, ProjectTask
<1>3. t.was = "dormant" /\ Counted => Served(u.link[id])
  BY <1>2 DEF Agreed, Settled
<1>4. TaskFits(u, id, t)
  BY <1>2, <1>3 DEF TaskFits
<1> QED BY <1>2, <1>4 DEF Task

(* All links are synchronised at once. *)
LEMMA StartSyncFine ==
    ASSUME IInv, NEW r \in Round, StartSync(r)
    PROVE  Fine(universe', round') /\ scenario' = scenario
<1> DEFINE ready == {id \in universe.links : universe.link[id].lifecycle \in Synchronizable}
<1>1. round[r].phase = "formed" /\ scenario' = scenario /\ universe' = universe
  BY DEF StartSync
<1>2. PICK due \in SUBSET ready :
        round' = [round EXCEPT ![r] =
          [Phase(r, "synchronizing") EXCEPT
             !.tasks = [id \in LinkId |-> IF id \in due THEN SyncTask(universe, id, 1)
                                          ELSE NoTask]]]
  BY DEF StartSync
<1> DEFINE p == Phase(r, "synchronizing")
           tasks == [id \in LinkId |-> IF id \in due THEN SyncTask(universe, id, 1) ELSE NoTask]
           x == [p EXCEPT !.tasks = tasks]
<1>3. /\ round \in [Round -> Call] /\ Fits(universe, round[r]) /\ IsUniverse(universe)
      /\ Sound(universe) /\ Closed(universe) /\ Calls(r) # 0
  BY <1>1, CallFields
<1>4. p \in Call /\ p.phase = "synchronizing"
  BY <1>3, PhaseType
<1>5. ASSUME NEW id \in LinkId
      PROVE  /\ tasks[id] \in Task /\ TaskFits(universe, id, tasks[id])
             /\ tasks[id].kind \in {"none", "project"}
  <2>1. CASE id \in due
    <3>1. id \in DOMAIN universe.link /\ Agreed(universe.link[id])
      BY <1>3, <2>1 DEF Closed, Sound
    <3>2. tasks[id] = SyncTask(universe, id, 1)
      BY <2>1
    <3> HIDE DEF tasks
    <3> QED BY <1>3, <3>1, <3>2, SyncTaskFits
  <2>2. CASE id \notin due
    <3>1. tasks[id] = NoTask
      BY <2>2
    <3> HIDE DEF tasks
    <3> QED BY <3>1 DEF TaskFits, Task, NoTask
  <2> QED BY <2>1, <2>2
<1>6. tasks \in [LinkId -> Task]
  BY <1>5
<1>7. round' = [round EXCEPT ![r] = x]
  BY <1>2
<1> HIDE DEF p, tasks
<1>8. x \in Call /\ x.phase = "synchronizing" /\ x.tasks = tasks
  BY <1>4, <1>6 DEF Call
<1> HIDE DEF x
<1>9. Fits(universe, x)
  BY <1>5, <1>8 DEF Fits, KindsOf
<1>10. \A id \in LinkId : round[r].tasks[id].kind # "review"
  <2>1. KindsOf(round[r].phase) = {"none"}
    BY <1>1 DEF KindsOf
  <2> QED BY <1>3, <2>1 DEF Fits
<1>11. Tended(universe, universe) /\ universe.links \subseteq LinkId
  BY <1>3, TendedSame, UniverseFields
<1>12. Fine(universe', round')
  BY <1>1, <1>3, <1>7, <1>8, <1>9, <1>10, <1>11, CallStep
<1> QED BY <1>1, <1>12

(* What is projected onto a link. *)
LEMMA ProjectedKept ==
    ASSUME NEW l \in Link, NEW task, NEW answer \in Projections, NEW p,
           p = Projected(l, task, answer)
    PROVE  /\ p.l.lifecycle = l.lifecycle \/ (p.l.lifecycle = "active" /\ task.was = "dormant")
           /\ Kept(l, p.l)
<1> DEFINE written == Mutate(l, task.author)
<1>1. Kept(l, l) /\ Kept(l, written) /\ written.lifecycle = l.lifecycle /\ written \in Link
  BY LaterSame, MutateKept DEF Kept, Later
<1>2. Kept(l, PassTurn(l, task.author)) /\ PassTurn(l, task.author).lifecycle = l.lifecycle
  BY WrittenKept DEF PassTurn
<1> HIDE DEF written
<1>3. Kept(l, Activate(written)) /\ Activate(written).lifecycle = "active"
  <2>1. Kept(written, Activate(written)) /\ Activate(written).lifecycle = "active"
    BY <1>1, TransitionKept DEF Activate, Lifecycle
  <2> QED BY <1>1, <2>1, KeptTwice
<1>4. answer \in {"null", "same", "new", "throws", "unobserved"}
  BY DEF Projections
<1>5. \/ p.l = l \/ p.l = written \/ p.l = PassTurn(l, task.author)
      \/ p.l = Activate(written) /\ task.was = "dormant"
  <2>1. CASE answer = "throws"
    BY <2>1 DEF Projected
  <2>2. CASE answer = "same"
    BY <2>2 DEF Projected
  <2>3. CASE answer = "null"
    BY <2>3 DEF Projected
  <2>4. CASE answer = "unobserved"
    BY <2>4 DEF Projected, written
  <2>5. CASE answer = "new"
    BY <2>5 DEF Projected, written
  <2> QED BY <1>4, <2>1, <2>2, <2>3, <2>4, <2>5
<1> QED BY <1>1, <1>2, <1>3, <1>5

(* The tasks of a call are of the phase it is in. *)
LEMMA TaskPhase ==
    ASSUME IInv, NEW r \in Round, NEW id \in LinkId
    PROVE  /\ round[r].tasks[id] \in Task /\ TaskFits(universe, id, round[r].tasks[id])
           /\ round[r].tasks[id].kind = "project" =>
                /\ round[r].phase = "synchronizing" /\ round[r].tasks[id] \in ProjectTask
                /\ KindsOf(round[r].phase) = {"none", "project"}
           /\ round[r].tasks[id].kind = "suggest" =>
                /\ round[r].phase = "adapting" /\ round[r].tasks[id] \in SuggestTask
                /\ KindsOf(round[r].phase) = {"none", "suggest", "review"}
           /\ round[r].tasks[id].kind = "review" =>
                /\ round[r].phase = "adapting" /\ round[r].tasks[id] \in ReviewTask
                /\ KindsOf(round[r].phase) = {"none", "suggest", "review"}
           /\ round[r].tasks[id].kind # "none" =>
                /\ id \in DOMAIN universe.link /\ universe.link[id] \in Link
                /\ Agreed(universe.link[id])
<1> DEFINE t == round[r].tasks[id]
<1>1. /\ Fits(universe, round[r]) /\ round[r] \in Call /\ IsUniverse(universe)
      /\ round[r].tasks \in [LinkId -> Task] /\ Sound(universe)
  BY CallFields
<1>2. t \in Task /\ TaskFits(universe, id, t) /\ t.kind \in KindsOf(round[r].phase)
  BY <1>1 DEF Fits
<1>3. /\ t.kind = "project" => t \in ProjectTask
      /\ t.kind = "suggest" => t \in SuggestTask
      /\ t.kind = "review" => t \in ReviewTask
  BY <1>2 DEF Task, NoTask, ProjectTask, SuggestTask, ReviewTask
<1>4. t.kind # "none" =>
        /\ id \in DOMAIN universe.link /\ universe.link[id] \in Link
        /\ Agreed(universe.link[id])
  <2>1. t.kind # "none" => id \in DOMAIN universe.link
    BY <1>2 DEF TaskFits, NoTask
  <2> QED BY <1>1, <2>1, UniverseFields DEF Sound
<1>5. \/ round[r].phase = "synchronizing" /\ KindsOf(round[r].phase) = {"none", "project"}
      \/ round[r].phase = "adapting" /\ KindsOf(round[r].phase) = {"none", "suggest", "review"}
      \/ KindsOf(round[r].phase) = {"none"}
  BY DEF KindsOf
<1> QED BY <1>2, <1>3, <1>4, <1>5

(* A project is over and the link is reviewed, or the next turn begins. *)
LEMMA ProjectFine ==
    ASSUME IInv, NEW r \in Round, NEW id \in LinkId, Project(r, id)
    PROVE  Fine(universe', round') /\ scenario' = scenario
<1> DEFINE task == round[r].tasks[id]
           l == universe.link[id]
<1>1. task.kind = "project" /\ scenario' = scenario
  BY DEF Project
<1>2. PICK answer \in Projections :
        LET p == Projected(l, task, answer)
            u == SetLink(universe, id, p.l)
        IN IF p.ok /\ task.turn < scenario.turns /\ p.l.lifecycle \in Synchronizable
           THEN /\ universe' = u
                /\ round' = [round EXCEPT ![r].tasks[id] = SyncTask(u, id, task.turn + 1)]
           ELSE /\ universe' \in ReviewOneLink(u, id)
                /\ round' = [round EXCEPT ![r].tasks[id] = NoTask]
  BY DEF Project
<1>3. /\ IsUniverse(universe) /\ Closed(universe) /\ Sound(universe) /\ scenario \in Scenario
  BY CallFields
<1>4. /\ round[r].phase = "synchronizing" /\ task \in ProjectTask
      /\ KindsOf(round[r].phase) = {"none", "project"}
      /\ id \in DOMAIN universe.link /\ l \in Link /\ Agreed(l)
      /\ TaskFits(universe, id, task)
  BY <1>1, TaskPhase
<1> DEFINE p == Projected(l, task, answer)
           u == SetLink(universe, id, p.l)
           k == p.l
<1>5. /\ k.lifecycle = l.lifecycle \/ (k.lifecycle = "active" /\ task.was = "dormant")
      /\ Kept(l, k)
  BY <1>4, ProjectedKept
<1>6. Agreed(k)
  <2>1. Counted /\ task.was = "dormant" => Served(l)
    BY <1>1, <1>4 DEF TaskFits
  <2> HIDE DEF p
  <2> QED BY <1>3, <1>4, <1>5, <2>1, AgreedKept
<1>7. \/ /\ universe' = u
         /\ round' = [round EXCEPT ![r].tasks[id] = SyncTask(u, id, task.turn + 1)]
      \/ /\ universe' \in ReviewOneLink(u, id)
         /\ round' = [round EXCEPT ![r].tasks[id] = NoTask]
  BY <1>2
<1> HIDE DEF p
<1>8. /\ Tended(universe, u) /\ u.life = universe.life
      /\ u.link[id] = k /\ \A i \in DOMAIN universe.link : i # id => u.link[i] = universe.link[i]
  BY <1>3, <1>4, <1>5, SetTended DEF Kept
<1> HIDE DEF u
<1>9. Calm(universe, u)
  BY <1>5, <1>6, <1>8 DEF Calm
<1>10. IsUniverse(u) /\ Closed(u) /\ id \in DOMAIN u.link /\ Agreed(u.link[id])
  BY <1>3, <1>4, <1>6, <1>8, ClosedTended DEF Tended
<1>11. task.kind # "review" /\ universe.links \subseteq DOMAIN universe.link
  BY <1>1, <1>3 DEF Closed
<1>12. CASE /\ universe' = u
            /\ round' = [round EXCEPT ![r].tasks[id] = SyncTask(u, id, task.turn + 1)]
  <2> DEFINE t == SyncTask(u, id, task.turn + 1)
  <2>1. task.turn + 1 \in Nat
    BY <1>4 DEF ProjectTask
  <2>2. t \in Task /\ TaskFits(u, id, t) /\ t.kind = "project"
    BY <1>10, <2>1, SyncTaskFits
  <2> HIDE DEF t
  <2>3. /\ \A i \in DOMAIN universe.link : Agreed(universe.link[i]) => Agreed(u.link[i])
        /\ \A i \in DOMAIN universe.link : u.link[i].lifecycle = "renegotiating" =>
              universe.link[i].lifecycle = "renegotiating"
    BY <1>9 DEF Calm
  <2>4. \A i \in u.links : i \in DOMAIN universe.link
    BY <1>8, <1>11 DEF Tended
  <2>5. round' = [round EXCEPT ![r].tasks[id] = t]
    BY <1>12 DEF t
  <2>6. Fine(universe', round')
    BY <1>4, <1>8, <1>11, <1>12, <2>2, <2>3, <2>4, <2>5, TaskStep
  <2> QED BY <1>1, <2>6
<1>13. CASE /\ universe' \in ReviewOneLink(u, id)
            /\ round' = [round EXCEPT ![r].tasks[id] = NoTask]
  <2> DEFINE v == universe'
  <2>1. Tended(u, v) /\ Calm(u, v)
    BY <1>3, <1>10, <1>13, ReviewOneTended
  <2>2. Tended(universe, v) /\ Calm(universe, v)
    BY <1>3, <1>8, <1>9, <2>1, TendedTwice, CalmTwice DEF Tended
  <2>3. NoTask \in Task /\ TaskFits(v, id, NoTask) /\ NoTask.kind = "none"
    BY DEF Task, TaskFits, NoTask
  <2>4. /\ \A i \in DOMAIN universe.link : Agreed(universe.link[i]) => Agreed(v.link[i])
        /\ \A i \in DOMAIN universe.link : v.link[i].lifecycle = "renegotiating" =>
              universe.link[i].lifecycle = "renegotiating"
        /\ v.life = universe.life
    BY <2>2 DEF Calm
  <2>5. \A i \in v.links : i \in DOMAIN universe.link
    BY <1>11, <2>2 DEF Tended
  <2>6. Fine(universe', round')
    BY <1>4, <1>11, <1>13, <2>2, <2>3, <2>4, <2>5, TaskStep
  <2> QED BY <1>1, <2>6
<1> QED BY <1>7, <1>12, <1>13

(* The protocol of a link is reviewed by the one whose turn it is, and of     *)
(* links alone that have served.                                              *)
LEMMA SuggestTaskFits ==
    ASSUME NEW u, IsUniverse(u), NEW id \in DOMAIN u.link, Agreed(u.link[id]),
           u.link[id].lifecycle \in Adaptable,
           NEW t, t = [kind |-> "suggest", proposer |-> CurrentTurnAgent(u.link[id]),
                       terms |-> u.link[id].terms, was |-> u.link[id].lifecycle]
    PROVE  t \in Task /\ TaskFits(u, id, t) /\ t.kind = "suggest"
<1>1. u.link[id] \in Link
  BY UniverseFields
<1>2. /\ t.kind = "suggest" /\ t.proposer \in Members(u.link[id]) /\ t \in SuggestTask
  BY <1>1, TurnOfMember, LinkFields DEF SuggestTask
<1>3. Counted => Served(u.link[id])
  BY DEF Agreed, Settled, Adaptable
<1>4. TaskFits(u, id, t)
  BY <1>2, <1>3 DEF TaskFits
<1> QED BY <1>2, <1>4 DEF Task

(* The reviews of all protocols begin at once. *)
LEMMA StartAdaptFine ==
    ASSUME IInv, NEW r \in Round, StartAdapt(r)
    PROVE  Fine(universe', round') /\ scenario' = scenario
<1> DEFINE due == {id \in universe.links : /\ universe.link[id].lifecycle \in Adaptable
                                           /\ ShouldReviewProtocol(universe.link[id])}
           T(id) == [kind |-> "suggest", proposer |-> CurrentTurnAgent(universe.link[id]),
                     terms |-> universe.link[id].terms, was |-> universe.link[id].lifecycle]
           p == Phase(r, "adapting")
           tasks == [id \in LinkId |-> IF id \in due THEN T(id) ELSE NoTask]
           x == [p EXCEPT !.tasks = tasks]
<1>1. /\ round[r].phase = "synchronizing" /\ scenario' = scenario /\ universe' = universe
      /\ round' = [round EXCEPT ![r] = x]
  BY DEF StartAdapt
<1>2. due \subseteq {id \in universe.links : universe.link[id].lifecycle \in Adaptable}
  OBVIOUS
<1> HIDE DEF due
<1>3. /\ round \in [Round -> Call] /\ Fits(universe, round[r]) /\ IsUniverse(universe)
      /\ Sound(universe) /\ Closed(universe) /\ Calls(r) # 0
  BY <1>1, CallFields
<1>4. p \in Call /\ p.phase = "adapting"
  BY <1>3, PhaseType
<1>5. ASSUME NEW id \in LinkId
      PROVE  /\ tasks[id] \in Task /\ TaskFits(universe, id, tasks[id])
             /\ tasks[id].kind \in {"none", "suggest"}
  <2>1. CASE id \in due
    <3>1. /\ id \in DOMAIN universe.link /\ Agreed(universe.link[id])
          /\ universe.link[id].lifecycle \in Adaptable
      BY <1>2, <1>3, <2>1 DEF Closed, Sound
    <3>2. tasks[id] = T(id)
      BY <2>1
    <3> HIDE DEF tasks
    <3> QED BY <1>3, <3>1, <3>2, SuggestTaskFits
  <2>2. CASE id \notin due
    <3>1. tasks[id] = NoTask
      BY <2>2
    <3> HIDE DEF tasks
    <3> QED BY <3>1 DEF TaskFits, Task, NoTask
  <2> QED BY <2>1, <2>2
<1>6. tasks \in [LinkId -> Task]
  BY <1>5
<1> HIDE DEF p, tasks
<1>8. x \in Call /\ x.phase = "adapting" /\ x.tasks = tasks
  BY <1>4, <1>6 DEF Call
<1> HIDE DEF x
<1>9. Fits(universe, x)
  BY <1>5, <1>8 DEF Fits, KindsOf
<1>10. \A id \in LinkId : round[r].tasks[id].kind # "review"
  <2>1. KindsOf(round[r].phase) = {"none", "project"}
    BY <1>1 DEF KindsOf
  <2> QED BY <1>3, <2>1 DEF Fits
<1>11. Tended(universe, universe) /\ universe.links \subseteq LinkId
  BY <1>3, TendedSame, UniverseFields
<1>12. Fine(universe', round')
  BY <1>1, <1>3, <1>8, <1>9, <1>10, <1>11, CallStep
<1> QED BY <1>1, <1>12

(* A link is changed by the call that has a task about it.  Only a task of    *)
(* review leaves it to be renegotiated, or a review of another call.          *)
LEMMA SetStep ==
    ASSUME IInv, NEW r \in Round, NEW id \in LinkId,
           round[r].phase \in {"synchronizing", "adapting"}, id \in DOMAIN universe.link,
           NEW k, Later(universe.link[id], k), Agreed(k),
           NEW t \in Task, TaskFits(SetLink(universe, id, k), id, t),
           t.kind \in KindsOf(round[r].phase),
           k.lifecycle = "renegotiating" =>
             \/ t.kind = "review"
             \/ /\ universe.link[id].lifecycle = "renegotiating"
                /\ round[r].tasks[id].kind # "review",
           universe' = SetLink(universe, id, k),
           round' = [round EXCEPT ![r].tasks[id] = t]
    PROVE  Fine(universe', round')
<1> DEFINE u == SetLink(universe, id, k)
<1>1. IsUniverse(universe) /\ Closed(universe)
  BY CallFields
<1>2. /\ Tended(universe, u) /\ u.life = universe.life /\ u.link[id] = k
      /\ u.links = universe.links
      /\ \A i \in DOMAIN universe.link : i # id => u.link[i] = universe.link[i]
  BY <1>1, SetTended
<1>3. universe' = u /\ TaskFits(u, id, t)
  OBVIOUS
<1> HIDE DEF u
<1>4. \A i \in DOMAIN universe.link : Agreed(universe.link[i]) => Agreed(u.link[i])
  BY <1>2
<1>5. \A i \in u.links : i # id /\ u.link[i].lifecycle = "renegotiating" =>
        universe.link[i].lifecycle = "renegotiating"
  BY <1>1, <1>2 DEF Closed
<1> QED BY <1>2, <1>3, <1>4, <1>5, TaskStep

(* A suggestion has come, and the other participant is asked. *)
LEMMA SuggestFine ==
    ASSUME IInv, NEW r \in Round, NEW id \in LinkId, Suggest(r, id)
    PROVE  Fine(universe', round') /\ scenario' = scenario
<1> DEFINE task == round[r].tasks[id]
           l == universe.link[id]
           peer == Other(l, task.proposer)
<1>1. task.kind = "suggest" /\ scenario' = scenario
  BY DEF Suggest
<1>2. /\ IsUniverse(universe) /\ Closed(universe) /\ scenario \in Scenario
  BY CallFields
<1>3. /\ round[r].phase = "adapting" /\ task \in SuggestTask
      /\ KindsOf(round[r].phase) = {"none", "suggest", "review"}
      /\ id \in DOMAIN universe.link /\ l \in Link /\ Agreed(l)
      /\ TaskFits(universe, id, task)
  BY <1>1, TaskPhase
<1>4. task.proposer \in Members(l) /\ (Counted => Served(l))
  BY <1>1, <1>3 DEF TaskFits
<1>5. CASE /\ universe' = SetLink(universe, id, MarkProtocolReviewed(l))
           /\ round' = [round EXCEPT ![r].tasks[id] = NoTask]
  <2> DEFINE k == MarkProtocolReviewed(l)
  <2>1. Kept(l, k) /\ k.lifecycle = l.lifecycle
    BY <1>3, MarkedKept
  <2>2. Agreed(k) /\ Later(l, k)
    BY <1>2, <1>3, <1>4, <2>1, AgreedKept DEF Kept
  <2>3. universe' = SetLink(universe, id, k)
    BY <1>5
  <2> HIDE DEF k
  <2>4. NoTask \in Task /\ TaskFits(SetLink(universe, id, k), id, NoTask) /\ NoTask.kind = "none"
    BY DEF Task, TaskFits, NoTask
  <2>5. Fine(universe', round')
    BY <1>1, <1>3, <1>5, <2>1, <2>2, <2>3, <2>4, SetStep
  <2> QED BY <1>1, <2>5
<1>6. CASE \E terms \in Proposals(task) :
             LET u == SetLink(universe, id, BeginRenegotiation(l))
                 s == Session("renegotiation", task.proposer, peer, terms, 0, terms.cost)
             IN /\ universe' = u
                /\ round' = [round EXCEPT ![r].tasks[id] =
                     [kind |-> "review", proposer |-> task.proposer, terms |-> task.terms,
                      was |-> task.was, session |-> Ask(u, s)]]
  <2> DEFINE k == BeginRenegotiation(l)
             u == SetLink(universe, id, k)
  <2>1. Kept(l, k) /\ k.lifecycle = "renegotiating"
    BY <1>3, TransitionKept DEF BeginRenegotiation, Lifecycle
  <2>2. Agreed(k) /\ Later(l, k)
    BY <1>2, <1>3, <1>4, <2>1, AgreedKept DEF Kept
  <2>3. PICK terms \in Proposals(task) :
          LET s == Session("renegotiation", task.proposer, peer, terms, 0, terms.cost)
          IN /\ universe' = u
             /\ round' = [round EXCEPT ![r].tasks[id] =
                  [kind |-> "review", proposer |-> task.proposer, terms |-> task.terms,
                   was |-> task.was, session |-> Ask(u, s)]]
    BY <1>6
  <2> DEFINE s == Session("renegotiation", task.proposer, peer, terms, 0, terms.cost)
             q == Ask(u, s)
             t == [kind |-> "review", proposer |-> task.proposer, terms |-> task.terms,
                   was |-> task.was, session |-> q]
  <2>4. terms \in Terms /\ terms.cost \in Nat
    <3>1. Offers \subseteq Terms
      BY <1>2 DEF Offers, Terms, Scenario
    <3>2. terms \in Terms
      BY <1>3, <3>1 DEF Proposals, SuggestTask
    <3> QED BY <3>2 DEF Terms
  <2>5. /\ task.proposer \in Agent /\ peer \in Agent
        /\ {task.proposer, peer} = Members(l)
    BY <1>3, <1>4, LinkFields DEF Members, Other
  <2>6. s \in AnySession /\ s.proposer = task.proposer /\ s.recipient = peer
    BY <2>4, <2>5, BegunType
  <2>7. universe' = u /\ round' = [round EXCEPT ![r].tasks[id] = t]
    BY <2>3
  <2>8. /\ IsUniverse(u) /\ u.link[id] = k /\ DOMAIN u.link = DOMAIN universe.link
    BY <1>2, <1>3, <2>2, SetTended DEF Tended
  <2> HIDE DEF s, k, u
  <2>9. /\ q \in AnySession /\ q.status \in {"asked", "refused"}
        /\ q.proposer = task.proposer /\ q.recipient = peer
    BY <2>6, AskType
  <2> HIDE DEF q
  <2>10. t \in ReviewTask /\ t.kind = "review" /\ t.proposer = task.proposer /\ t.session = q
    BY <1>3, <2>9 DEF SuggestTask, ReviewTask
  <2> HIDE DEF t
  <2>11. Members(k) = Members(l) /\ (Counted => Served(k))
    BY <1>2, <1>3, <1>4, <2>2, ServedLater DEF Later, Members
  <2>12. Held(q, Members(k))
    BY <2>5, <2>9, <2>11 DEF Held
  <2>13. TaskFits(u, id, t)
    BY <1>3, <1>4, <2>8, <2>10, <2>11, <2>12 DEF TaskFits
  <2>14. t \in Task
    BY <2>10 DEF Task
  <2>15. Fine(universe', round')
    BY <1>1, <1>3, <2>2, <2>7, <2>10, <2>13, <2>14, SetStep DEF u
  <2> QED BY <1>1, <2>15
<1>7. \/ /\ universe' = SetLink(universe, id, MarkProtocolReviewed(l))
         /\ round' = [round EXCEPT ![r].tasks[id] = NoTask]
      \/ \E terms \in Proposals(task) :
             LET u == SetLink(universe, id, BeginRenegotiation(l))
                 s == Session("renegotiation", task.proposer, peer, terms, 0, terms.cost)
             IN /\ universe' = u
                /\ round' = [round EXCEPT ![r].tasks[id] =
                     [kind |-> "review", proposer |-> task.proposer, terms |-> task.terms,
                      was |-> task.was, session |-> Ask(u, s)]]
  BY DEF Suggest
<1> QED BY <1>5, <1>6, <1>7

(* The other participant of a review answers. *)
LEMMA AnswerReviewFine ==
    ASSUME IInv, NEW r \in Round, NEW id \in LinkId, AnswerReview(r, id)
    PROVE  Fine(universe', round') /\ scenario' = scenario
<1> DEFINE task == round[r].tasks[id]
           l == universe.link[id]
<1>1. /\ task.kind = "review" /\ scenario' = scenario /\ universe' = universe
      /\ task.session.status \notin Final
  BY DEF AnswerReview
<1>2. PICK d \in Decisions(task.session) :
        round' = [round EXCEPT ![r].tasks[id].session = Answered(universe, @, d)]
  BY DEF AnswerReview
<1>3. /\ IsUniverse(universe) /\ scenario \in Scenario /\ round \in [Round -> Call]
      /\ round[r].tasks \in [LinkId -> Task] /\ round[r] \in Call
  BY CallFields
<1>4. /\ round[r].phase = "adapting" /\ task \in ReviewTask
      /\ KindsOf(round[r].phase) = {"none", "suggest", "review"}
      /\ id \in DOMAIN universe.link /\ l \in Link
      /\ TaskFits(universe, id, task)
  BY <1>1, TaskPhase
<1> DEFINE q == Answered(universe, task.session, d)
           t == [task EXCEPT !.session = q]
<1>5. /\ task.session \in AnySession /\ Held(task.session, Members(l))
      /\ task.proposer \in Members(l) /\ (Counted => Served(l))
  BY <1>1, <1>4 DEF TaskFits, ReviewTask
<1>6. q \in AnySession /\ Held(q, Members(l))
  BY <1>1, <1>3, <1>5, AnsweredHeld
<1>7. round' = [round EXCEPT ![r].tasks[id] = t]
  BY <1>2, <1>3 DEF Call
<1> HIDE DEF q
<1>8. t \in ReviewTask /\ t.kind = "review" /\ t.proposer = task.proposer /\ t.session = q
  BY <1>4, <1>6 DEF ReviewTask
<1> HIDE DEF t
<1>9. TaskFits(universe, id, t)
  BY <1>4, <1>5, <1>6, <1>8 DEF TaskFits
<1>10. t \in Task /\ Tended(universe, universe)
  BY <1>3, <1>8, TendedSame DEF Task
<1>11. Fine(universe', round')
  BY <1>1, <1>4, <1>7, <1>8, <1>9, <1>10, TaskStep
<1> QED BY <1>1, <1>11

(* A review that ends leaves a link that is not renegotiated and whose terms  *)
(* both still support, though they may be of two reviews.                     *)
LEMMA ReviewedAgreed ==
    ASSUME scenario \in Scenario, NEW l \in Link, Agreed(l), NEW task \in ReviewTask,
           Counted => Served(l), Held(task.session, Members(l)),
           task.session.status \in Final, NEW k \in Reviewed(l, task)
    PROVE  Later(l, k) /\ Agreed(k) /\ k.lifecycle # "renegotiating"
<1> DEFINE next == task.session.terms
           patch == ProtocolPatchBetween(task.terms, next)
           marked == ResumeAfterRenegotiation(MarkProtocolReviewed(l), task.was)
           failed == MarkProtocolReviewed(ResumeAfterRenegotiation(l, task.was))
           mutated == MutateProtocol(l, task.proposer, patch)
           adapted == ResumeAfterRenegotiation(mutated, task.was)
<1>1. \/ k = failed \/ k = marked
      \/ task.session.status = "accepted" /\ k = adapted
  <2>1. CASE task.session.status = "failed"
    BY <2>1 DEF Reviewed
  <2>2. CASE task.session.status \in {"rejected", "deferred"}
    BY <2>2 DEF Reviewed
  <2>3. CASE task.session.status = "accepted"
    BY <2>3 DEF Reviewed
  <2> QED BY <2>1, <2>2, <2>3 DEF Final
<1>2. /\ task.was \in Lifecycle /\ task.terms \in Terms /\ next \in Terms
  BY SessionFields DEF ReviewTask
<1>3. CASE k = failed
  <2> DEFINE m == ResumeAfterRenegotiation(l, task.was)
  <2>1. Kept(l, m) /\ m.lifecycle # "renegotiating" /\ m \in Link
    BY <1>2, ResumedKept DEF Kept, Later
  <2> HIDE DEF m
  <2>2. Kept(m, k) /\ k.lifecycle # "renegotiating"
    BY <1>3, <2>1, MarkedKept DEF m
  <2>3. Kept(l, k)
    BY <2>1, <2>2, KeptTwice
  <2> QED BY <2>2, <2>3, AgreedKept DEF Kept
<1>4. CASE k = marked
  <2> DEFINE m == MarkProtocolReviewed(l)
  <2>1. Kept(l, m) /\ m \in Link
    BY MarkedKept DEF Kept, Later
  <2> HIDE DEF m
  <2>2. Kept(m, k) /\ k.lifecycle # "renegotiating"
    BY <1>2, <1>4, <2>1, ResumedKept DEF m
  <2>3. Kept(l, k)
    BY <2>1, <2>2, KeptTwice
  <2> QED BY <2>2, <2>3, AgreedKept DEF Kept
<1>5. CASE task.session.status = "accepted" /\ k = adapted
  <2> HIDE DEF patch
  <2>1. /\ Later(l, mutated) /\ mutated \in Link
        /\ mutated.terms = ApplyProtocolPatch(l.terms, patch)
    BY <1>2, PatchedLater DEF Later, patch
  <2> HIDE DEF mutated
  <2>2. Kept(mutated, k) /\ k.lifecycle # "renegotiating"
    BY <1>2, <1>5, <2>1, ResumedKept
  <2>3. Members(mutated) = Members(l) /\ (Counted => Served(mutated))
    BY <2>1, ServedLater DEF Later, Members
  <2>4. ASSUME ~HostMay("connect") PROVE Suits(mutated)
    <3> SUFFICES ASSUME NEW a \in Members(mutated)
                 PROVE  TermsSupportedBy(mutated.terms, Policy(a))
      BY DEF Suits
    <3>1. TermsSupportedBy(l.terms, Policy(a))
      BY <2>3, <2>4 DEF Agreed, Suits
    <3>2. TermsSupportedBy(next, Policy(a))
      BY <1>5, <2>3 DEF Held, Supported
    <3>3. l.terms \in Terms
      BY LinkFields
    <3>4. TermsSupportedBy(ApplyProtocolPatch(l.terms, patch), Policy(a))
      BY <1>2, <3>1, <3>2, <3>3, PatchedSupported DEF patch
    <3> QED BY <2>1, <3>4
  <2>5. Agreed(mutated)
    BY <2>3, <2>4 DEF Agreed
  <2>6. Agreed(k)
    BY <2>1, <2>2, <2>3, <2>5, AgreedKept
  <2>7. Later(l, k)
    <3>1. l.useful \in Nat /\ mutated.useful \in Nat /\ k.useful \in Nat
      BY <2>1, <2>2, LinkFields DEF Kept, Later
    <3> QED BY <2>1, <2>2, <3>1 DEF Kept, Later
  <2> QED BY <2>2, <2>6, <2>7
<1> QED BY <1>1, <1>3, <1>4, <1>5

(* A review ends. *)
LEMMA ConcludeReviewFine ==
    ASSUME IInv, NEW r \in Round, NEW id \in LinkId, ConcludeReview(r, id)
    PROVE  Fine(universe', round') /\ scenario' = scenario
<1> DEFINE task == round[r].tasks[id]
           l == universe.link[id]
<1>1. /\ task.kind = "review" /\ scenario' = scenario
      /\ task.session.status \in Final
      /\ round' = [round EXCEPT ![r].tasks[id] = NoTask]
  BY DEF ConcludeReview
<1>2. PICK k \in Reviewed(l, task) : universe' = SetLink(universe, id, k)
  BY DEF ConcludeReview
<1>3. /\ IsUniverse(universe) /\ Closed(universe) /\ scenario \in Scenario
  BY CallFields
<1>4. /\ round[r].phase = "adapting" /\ task \in ReviewTask
      /\ KindsOf(round[r].phase) = {"none", "suggest", "review"}
      /\ id \in DOMAIN universe.link /\ l \in Link /\ Agreed(l)
      /\ TaskFits(universe, id, task)
  BY <1>1, TaskPhase
<1>5. Held(task.session, Members(l)) /\ (Counted => Served(l))
  BY <1>1, <1>4 DEF TaskFits
<1>6. Later(l, k) /\ Agreed(k) /\ k.lifecycle # "renegotiating"
  BY <1>1, <1>3, <1>4, <1>5, ReviewedAgreed
<1>7. NoTask \in Task /\ TaskFits(SetLink(universe, id, k), id, NoTask) /\ NoTask.kind = "none"
  BY DEF Task, TaskFits, NoTask
<1>8. Fine(universe', round')
  BY <1>1, <1>2, <1>4, <1>6, <1>7, SetStep
<1> QED BY <1>1, <1>8

(* A call of evolve is over. *)
LEMMA EndRoundFine ==
    ASSUME IInv, NEW r \in Round, EndRound(r)
    PROVE  Fine(universe', round') /\ scenario' = scenario
<1> DEFINE x == Phase(r, "idle")
<1>1. /\ round[r].phase = "adapting" /\ Busy(r) = {} /\ scenario' = scenario
      /\ universe' = universe /\ round' = [round EXCEPT ![r] = x]
  BY DEF EndRound
<1>2. /\ round \in [Round -> Call] /\ IsUniverse(universe) /\ Closed(universe)
  BY CallFields
<1>3. x \in Call /\ x.phase = "idle" /\ x.tasks = [id \in LinkId |-> NoTask]
  BY <1>2, PhaseType
<1> HIDE DEF x
<1>4. Fits(universe, x)
  BY <1>3, PlainFits
<1>5. \A id \in LinkId : round[r].tasks[id].kind # "review"
  BY <1>1 DEF Busy, NoTask
<1>6. Tended(universe, universe) /\ universe.links \subseteq LinkId
  BY <1>2, TendedSame, UniverseFields
<1>7. Fine(universe', round')
  BY <1>1, <1>3, <1>4, <1>5, <1>6, CallStep
<1> QED BY <1>1, <1>7

-----------------------------------------------------------------------------
(* The host. *)

(* The host tends links and leaves the calls. *)
LEMMA HostTends ==
    ASSUME IInv, NEW u, Tended(universe, u),
           \A id \in DOMAIN universe.link : Agreed(universe.link[id]) => Agreed(u.link[id]),
           u.life = universe.life,
           \A id \in u.links : u.link[id].lifecycle = "renegotiating" =>
             universe.link[id].lifecycle = "renegotiating"
    PROVE  Fine(u, round)
<1>1. /\ IsUniverse(universe) /\ IsUniverse(u) /\ scenario \in Scenario
      /\ round \in [Round -> Call] /\ Fine(universe, round) /\ u.links \subseteq universe.links
  BY DEF IInv, Fine, Tended
<1>2. Sound(u)
  BY <1>1, SoundTended DEF Fine
<1>3. CallsFit(u, round)
  BY <1>1, FitsTended DEF Fine, CallsFit
<1>4. IdsSuffice(u, round)
  BY <1>1 DEF Fine, IdsSuffice, FreeIds, Tended
<1>5. ASSUME MakesLinksAlone, NEW q \in Parties(round), NEW a \in PairOf(round[q].match)
      PROVE  Capacity(u, a) > 0
  <2>1. round[q].match \in Match
    BY <1>1 DEF Fine, CallsFit, Fits, Parties
  <2>2. a \in Agent /\ Capacity(universe, a) > 0
    BY <1>1, <1>5, <2>1 DEF Fine, RoomKept, Match, PairOf
  <2> QED BY <1>1, <2>2, CapacityTended
<1>6. RoomKept(u, round)
  BY <1>1, <1>5 DEF Fine, RoomKept, Tended
<1>7. Quiet(u, round)
  BY <1>1 DEF Fine, Quiet
<1> QED BY <1>1, <1>2, <1>3, <1>4, <1>6, <1>7 DEF Fine

(* The host changes a link. *)
LEMMA HostSets ==
    ASSUME IInv, NEW id \in DOMAIN universe.link, NEW k, Later(universe.link[id], k),
           Agreed(universe.link[id]) => Agreed(k),
           k.lifecycle = "renegotiating" => universe.link[id].lifecycle = "renegotiating",
           NEW u, u = SetLink(universe, id, k)
    PROVE  Tended(universe, u) /\ Calm(universe, u) /\ Fine(u, round)
<1>1. IsUniverse(universe) /\ Closed(universe)
  BY DEF IInv, Fine, Sound
<1>2. /\ Tended(universe, u) /\ u.life = universe.life /\ u.link[id] = k
      /\ u.links = universe.links
      /\ \A i \in DOMAIN universe.link : i # id => u.link[i] = universe.link[i]
  BY <1>1, SetTended
<1>3. \A i \in DOMAIN universe.link : Agreed(universe.link[i]) => Agreed(u.link[i])
  BY <1>2
<1>4. \A i \in DOMAIN universe.link : u.link[i].lifecycle = "renegotiating" =>
        universe.link[i].lifecycle = "renegotiating"
  BY <1>2
<1>5. \A i \in u.links : i \in DOMAIN universe.link
  BY <1>1, <1>2 DEF Closed
<1> QED BY <1>2, <1>3, <1>4, <1>5, HostTends DEF Calm

(* What is true of the links the host works at. *)
LEMMA HostLink ==
    ASSUME IInv, NEW id \in universe.links
    PROVE  /\ id \in DOMAIN universe.link /\ universe.link[id] \in Link
           /\ IsUniverse(universe) /\ Closed(universe) /\ scenario \in Scenario
<1>1. IsUniverse(universe) /\ Closed(universe) /\ scenario \in Scenario
  BY DEF IInv, Fine, Sound
<1> QED BY <1>1, UniverseFields DEF Closed

(* A link is ended by the host and removed. *)
LEMMA DisconnectFine ==
    ASSUME IInv, NEW id, Disconnect(id)
    PROVE  Fine(universe', round') /\ scenario' = scenario
<1> DEFINE l == universe.link[id]
           k == Retire(l)
           w == SetLink(universe, id, k)
           u == RemoveLink(w, id)
<1>1. id \in universe.links /\ universe' = u /\ round' = round /\ scenario' = scenario
  BY DEF Disconnect, HostStep
<1>2. id \in DOMAIN universe.link /\ l \in Link /\ scenario \in Scenario
      /\ IsUniverse(universe) /\ Closed(universe)
  BY <1>1, HostLink
<1>3. Kept(l, k) /\ k.lifecycle = "retired"
  BY <1>2, TransitionKept DEF Retire, Lifecycle
<1>4. Later(l, k) /\ (Agreed(l) => Agreed(k))
  BY <1>2, <1>3, AgreedKept DEF Kept, Settled
<1> HIDE DEF k
<1>5. Tended(universe, w) /\ Calm(universe, w)
  BY <1>2, <1>3, <1>4, HostSets
<1> HIDE DEF w
<1>6. IsUniverse(w) /\ Closed(w) /\ id \in DOMAIN w.link
  BY <1>2, <1>5, ClosedTended DEF Tended
<1>7. Tended(w, u) /\ u.link = w.link /\ u.life = w.life
  BY <1>6, RemoveTended
<1> HIDE DEF u
<1>8. Tended(universe, u)
  BY <1>2, <1>5, <1>7, TendedTwice
<1>9. /\ \A i \in DOMAIN universe.link : Agreed(universe.link[i]) => Agreed(u.link[i])
      /\ \A i \in DOMAIN universe.link : u.link[i].lifecycle = "renegotiating" =>
           universe.link[i].lifecycle = "renegotiating"
      /\ u.life = universe.life
  BY <1>5, <1>7 DEF Calm
<1>10. \A i \in u.links : i \in DOMAIN universe.link
  BY <1>2, <1>8 DEF Tended, Closed
<1>11. Fine(u, round)
  BY <1>8, <1>9, <1>10, HostTends
<1> QED BY <1>1, <1>11

(* A link is quarantined. *)
LEMMA QuarantineFine ==
    ASSUME IInv, NEW id, QuarantineLink(id)
    PROVE  Fine(universe', round') /\ scenario' = scenario
<1> DEFINE l == universe.link[id]
           k == Quarantine(l)
<1>1. /\ id \in universe.links /\ universe' = SetLink(universe, id, k)
      /\ round' = round /\ scenario' = scenario
  BY DEF QuarantineLink, HostStep
<1>2. id \in DOMAIN universe.link /\ l \in Link /\ scenario \in Scenario
  BY <1>1, HostLink
<1>3. Kept(l, k) /\ k.lifecycle = "quarantined"
  BY <1>2, TransitionKept DEF Quarantine, Lifecycle
<1>4. Later(l, k) /\ (Agreed(l) => Agreed(k))
  BY <1>2, <1>3, AgreedKept DEF Kept, Settled
<1> HIDE DEF k
<1>5. Fine(universe', round)
  BY <1>1, <1>2, <1>3, <1>4, HostSets
<1> QED BY <1>1, <1>5

(* Where participants contradict, links need not have served to be active.    *)
LEMMA ContradictFine ==
    ASSUME IInv, NEW id, NEW a, Contradict(id, a)
    PROVE  Fine(universe', round') /\ scenario' = scenario
<1> DEFINE l == universe.link[id]
           Way(k) == k \in {AddContradiction(l, a), ResolveContradiction(l, a),
                            ConsensusMutate(l)}
<1>1. /\ id \in universe.links /\ round' = round /\ scenario' = scenario
      /\ HostMay("contradict")
      /\ \E k : Way(k) /\ universe' = SetLink(universe, id, k)
  BY DEF Contradict, HostStep
<1>2. PICK k : Way(k) /\ universe' = SetLink(universe, id, k)
  BY <1>1
<1>3. id \in DOMAIN universe.link /\ l \in Link /\ scenario \in Scenario
  BY <1>1, HostLink
<1>4. /\ Kept(l, k)
      /\ k.lifecycle = "renegotiating" => l.lifecycle = "renegotiating"
  <2>1. Kept(l, Mutate(l, a)) /\ Mutate(l, a) \in Link
    BY <1>3, MutateKept DEF Kept, Later
  <2>2. CASE k = AddContradiction(l, a)
    <3>1. Kept(Mutate(l, a), k) /\ k.lifecycle = "conflicted"
      BY <2>1, <2>2, TransitionKept DEF AddContradiction, Lifecycle
    <3> QED BY <1>3, <2>1, <3>1, KeptTwice
  <2>3. CASE k = ResolveContradiction(l, a)
    <3>1. Kept(Mutate(l, a), k) /\ k.lifecycle = "active"
      BY <2>1, <2>3, TransitionKept DEF ResolveContradiction, Lifecycle
    <3> QED BY <1>3, <2>1, <3>1, KeptTwice
  <2>4. CASE k = ConsensusMutate(l)
    BY <1>3, <2>4, RevisedKept DEF ConsensusMutate
  <2> QED BY <1>2, <2>2, <2>3, <2>4
<1>5. ~Counted
  BY <1>1 DEF Counted, HostMay
<1>6. Later(l, k) /\ (Agreed(l) => Agreed(k))
  BY <1>3, <1>4, <1>5, AgreedKept DEF Kept
<1>7. Fine(universe', round)
  BY <1>2, <1>3, <1>4, <1>6, HostSets
<1> QED BY <1>1, <1>7

(* The host reviews all links. *)
LEMMA TickFine ==
    ASSUME IInv, Tick
    PROVE  Fine(universe', round') /\ scenario' = scenario
<1>1. /\ universe' \in ReviewLinks(universe) /\ round' = round /\ scenario' = scenario
  BY DEF Tick, HostStep
<1>2. IsUniverse(universe) /\ Closed(universe) /\ scenario \in Scenario
  BY DEF IInv, Fine, Sound
<1>3. Tended(universe, universe') /\ Calm(universe, universe')
  BY <1>1, <1>2, ReviewAllTended
<1>4. \A id \in universe'.links : id \in DOMAIN universe.link
  BY <1>2, <1>3 DEF Tended, Closed
<1>5. Fine(universe', round)
  BY <1>3, <1>4, HostTends DEF Calm
<1> QED BY <1>1, <1>5

(* The host tells an agent what to be; only a negotiation makes it negotiate. *)
LEMMA BecomesFine ==
    ASSUME IInv, NEW w \in scenario.lives, AgentBecomes(w[1], w[2])
    PROVE  Fine(universe', round') /\ scenario' = scenario
<1> DEFINE a == w[1]
           life == [universe.life EXCEPT ![a] = w[2]]
           u == universe'
<1>1. IsUniverse(universe) /\ Fine(universe, round) /\ scenario \in Scenario
  BY DEF IInv, Fine
<1>2. /\ u = [universe EXCEPT !.life = life]
      /\ round' = round /\ scenario' = scenario
  BY <1>1 DEF AgentBecomes, HostStep, IsUniverse
<1>3. a \in Agent /\ w[2] \in AgentLifecycle /\ w[2] # "negotiating"
  BY <1>1 DEF Scenario
<1>4. /\ life \in [Agent -> AgentLifecycle]
      /\ \A b \in Agent : life[b] = "negotiating" => universe.life[b] = "negotiating"
  BY <1>1, <1>3, UniverseFields
<1> HIDE DEF life
<1>5. /\ u.life = life /\ u.held = universe.held /\ u.link = universe.link
      /\ u.links = universe.links
  BY <1>1, <1>2 DEF IsUniverse
<1>6. IsUniverse(u)
  BY <1>1, <1>2, <1>4, <1>5 DEF IsUniverse
<1>7. SameLinks(universe, u)
  BY <1>5, <1>6 DEF SameLinks
<1>8. Tended(universe, u)
  BY <1>1, <1>7, SameTended
<1>9. Sound(u) /\ CallsFit(u, round)
  <2>1. \A id \in DOMAIN universe.link : Agreed(universe.link[id]) => Agreed(u.link[id])
    BY <1>5
  <2> QED BY <1>1, <1>8, <2>1, SoundTended, FitsTended DEF Fine, CallsFit
<1>10. IdsSuffice(u, round)
  BY <1>1, <1>5 DEF Fine, IdsSuffice, FreeIds
<1>11. RoomKept(u, round)
  BY <1>1, <1>5, <1>8 DEF Fine, RoomKept, Capacity, Tended
<1>12. Quiet(u, round)
  <2>1. ASSUME NEW b \in Agent, u.life[b] = "negotiating"
        PROVE  \E r \in Parties(round) : b \in PairOf(round[r].match)
    BY <1>1, <1>4, <1>5, <2>1 DEF Fine, Quiet
  <2> QED BY <1>1, <1>5, <2>1 DEF Fine, Quiet
<1>13. Fine(u, round)
  BY <1>1, <1>6, <1>9, <1>10, <1>11, <1>12 DEF Fine
<1> QED BY <1>2, <1>13

(* The host connects two agents, at whatever terms. *)
LEMMA ConnectFine ==
    ASSUME IInv, NEW w \in scenario.wires, Connect(w[1], w[2], w[3])
    PROVE  Fine(universe', round') /\ scenario' = scenario
<1> DEFINE id == Least(FreeIds(universe))
           l == NewLink(w[1], w[2], "active", w[3])
           v == AttachLink(universe, id, l).u
<1>1. /\ universe' = v /\ round' = round /\ scenario' = scenario /\ HostMay("connect")
      /\ Cardinality(FreeIds(universe)) > Cardinality(Negotiating)
  BY DEF Connect, HostStep
<1>2. /\ IsUniverse(universe) /\ Closed(universe) /\ Sound(universe) /\ scenario \in Scenario
      /\ Fine(universe, round) /\ round \in [Round -> Call]
  BY DEF IInv, Fine, Sound
<1>3. w[1] \in Agent /\ w[2] \in Agent /\ w[3] \in Terms
  BY <1>2 DEF Scenario
<1>4. l \in Link /\ l.lifecycle = "active"
  BY <1>3, NewLinkType DEF Lifecycle
<1>5. /\ Cardinality(FreeIds(universe)) > Cardinality(Parties(round))
      /\ Cardinality(FreeIds(universe)) \in Nat /\ Cardinality(Parties(round)) \in Nat
  BY <1>1, Counts DEF Negotiating, Parties
<1>6. id \in LinkId /\ id \notin DOMAIN universe.link
  <2>1. Cardinality(FreeIds(universe)) > 0
    BY <1>5
  <2> QED BY <2>1, FreeId
<1> HIDE DEF id, l
<1>7. IsUniverse(v) /\ v.life = universe.life /\ (v = universe \/ Grown(universe, v, id, l))
  BY <1>2, <1>4, <1>6, AttachGrown
<1> HIDE DEF v
<1>8. CASE v = universe
  BY <1>1, <1>2, <1>8
<1>9. CASE Grown(universe, v, id, l)
  <2>1. ~Counted /\ Agreed(l)
    BY <1>1 DEF Agreed, Counted, HostMay
  <2>2. Sound(v)
    BY <1>2, <1>6, <1>9, <2>1, SoundGrown
  <2>3. CallsFit(v, round)
    BY <1>2, <1>9, FitsGrown DEF Fine, CallsFit
  <2>4. IdsSuffice(v, round)
    <3>1. Cardinality(FreeIds(v)) = Cardinality(FreeIds(universe)) - 1
      BY <1>6, <1>9, IdsGrown
    <3> QED BY <1>5, <3>1 DEF IdsSuffice
  <2>5. RoomKept(v, round)
    BY <1>1, <1>2 DEF Fine, RoomKept, MakesLinksAlone
  <2>6. Quiet(v, round)
    <3>1. ASSUME NEW i \in v.links, v.link[i].lifecycle = "renegotiating"
          PROVE  i \in universe.links /\ v.link[i] = universe.link[i]
      <4>1. v.links = universe.links \union {id} /\ v.link[id] = l
        BY <1>9 DEF Grown
      <4>2. i # id
        BY <1>4, <3>1, <4>1
      <4> QED BY <1>2, <1>9, <4>1, <4>2 DEF Grown, Closed
    <3> QED BY <1>2, <1>7, <3>1 DEF Fine, Quiet
  <2> QED BY <1>1, <1>2, <1>7, <2>2, <2>3, <2>4, <2>5, <2>6 DEF Fine
<1> QED BY <1>7, <1>8, <1>9

-----------------------------------------------------------------------------
(* The invariant. *)

(* At first nobody is linked and no call is made. *)
LEMMA InitInv == Init => IInv
<1> SUFFICES ASSUME Init PROVE IInv
  OBVIOUS
<1>1. scenario \in Scenario
  BY TopologyAssumption DEF Init
<1>2. /\ universe = [life |-> [a \in Agent |-> "active"], held |-> [a \in Agent |-> {}],
                     link |-> <<>>, links |-> {}, ads |-> [a \in Agent |-> NoAd],
                     cooldown |-> {}]
      /\ round = [r \in Round |-> Idle]
  BY DEF Init
<1>3. DOMAIN universe.link = {} /\ universe.links = {}
  BY <1>2
<1>4. \A a \in Agent : universe.life[a] = "active" /\ universe.held[a] = {}
  BY <1>2
<1>5. IsUniverse(universe)
  <2>1. /\ universe.life \in [Agent -> AgentLifecycle]
        /\ universe.held \in [Agent -> SUBSET LinkId]
        /\ universe.ads \in [Agent -> Nat \union {NoAd}]
        /\ universe.cooldown \in SUBSET SUBSET Agent
    BY <1>2 DEF AgentLifecycle
  <2>2. universe.link \in [DOMAIN universe.link -> Link]
    BY <1>2
  <2> QED BY <1>2, <1>3, <2>1, <2>2 DEF IsUniverse
<1>6. Idle \in Call /\ Idle.phase = "idle" /\ Idle.tasks = [id \in LinkId |-> NoTask]
  <2>1. /\ [id \in LinkId |-> NoTask] \in [LinkId -> Task] /\ <<>> \in Seq(Match)
        /\ [a \in Agent |-> 0] \in [Agent -> Nat]
    BY DEF Task
  <2> QED BY <2>1 DEF Idle, Call
<1>7. round \in [Round -> Call] /\ \A r \in Round : round[r] = Idle
  BY <1>2, <1>6
<1>8. Sound(universe)
  BY <1>3, <1>4 DEF Sound, Closed, OneLink
<1>9. CallsFit(universe, round)
  BY <1>6, <1>7, PlainFits DEF CallsFit
<1>10. Parties(round) = {}
  BY <1>6, <1>7 DEF Parties
<1>11. IdsSuffice(universe, round)
  <2>1. Cardinality(Parties(round)) = 0
    BY <1>10, FS_EmptySet
  <2>2. Cardinality(FreeIds(universe)) \in Nat
    BY Counts
  <2> QED BY <2>1, <2>2 DEF IdsSuffice
<1>12. RoomKept(universe, round)
  <2>1. Mirrors(universe)
    BY <1>3, <1>4 DEF Mirrors
  <2> QED BY <1>6, <1>7, <1>10, <2>1 DEF RoomKept
<1>13. Quiet(universe, round)
  BY <1>3, <1>4 DEF Quiet
<1> QED BY <1>1, <1>5, <1>7, <1>8, <1>9, <1>11, <1>12, <1>13 DEF IInv, Fine

(* What the invariant says of the next state while the scenario stays.        *)
LEMMA FineNext ==
    ASSUME scenario \in Scenario, scenario' = scenario, Fine(universe', round')
    PROVE  IInv'
<1>1. /\ IsUniverse(universe)' /\ (round \in [Round -> Call])' /\ Closed(universe)'
      /\ OneLink(universe)' /\ IdsSuffice(universe, round)' /\ Quiet(universe, round)'
  BY DEF Fine, Sound, IsUniverse, Closed, OneLink, IdsSuffice, FreeIds, Parties, Quiet
<1>2. Counted' = Counted
  BY DEF Counted
<1>3. MakesLinksAlone' = MakesLinksAlone
  BY DEF MakesLinksAlone, Rounds, Calls, HostMay
<1>4. Sound(universe)'
  <2> SUFFICES ASSUME NEW id \in DOMAIN universe'.link PROVE Agreed(universe.link[id])'
    BY <1>1 DEF Sound
  <2>1. Agreed(universe'.link[id])
    BY DEF Fine, Sound
  <2>2. (HostMay("connect"))' = HostMay("connect")
    BY DEF HostMay
  <2>3. Suits(universe'.link[id]) => Suits(universe.link[id])'
    BY DEF Suits, Policy
  <2>4. Served(universe'.link[id]) => Served(universe.link[id])'
    BY DEF Served, Policy
  <2> QED BY <1>2, <2>1, <2>2, <2>3, <2>4 DEF Agreed
<1>5. CallsFit(universe, round)'
  <2> SUFFICES ASSUME NEW r \in Round PROVE Fits(universe, round[r])'
    BY DEF CallsFit
  <2>1. Fits(universe', round'[r])
    BY DEF Fine, CallsFit
  <2>2. Held(round'[r].session, PairOf(round'[r].match)) =>
          Held(round[r].session, PairOf(round[r].match))'
    BY DEF Held, Supported, Policy
  <2>3. ASSUME NEW id \in LinkId PROVE TaskFits(universe, id, round[r].tasks[id])'
    <3>1. TaskFits(universe', id, round'[r].tasks[id])
      BY <2>1 DEF Fits
    <3>2. Served(universe'.link[id]) => Served(universe.link[id])'
      BY DEF Served, Policy
    <3>3. Held(round'[r].tasks[id].session, Members(universe'.link[id])) =>
            Held(round[r].tasks[id].session, Members(universe.link[id]))'
      BY DEF Held, Supported, Policy
    <3> QED BY <1>2, <3>1, <3>2, <3>3 DEF TaskFits
  <2> QED BY <2>1, <2>2, <2>3 DEF Fits
<1>6. RoomKept(universe, round)'
  <2>1. RoomKept(universe', round')
    BY DEF Fine
  <2>2. \A r \in Round : Calls(r)' = Calls(r)
    BY DEF Calls
  <2>3. Parties(round)' = Parties(round') /\ (Mirrors(universe') => Mirrors(universe)')
    BY DEF Parties, Mirrors
  <2>4. ASSUME NEW a PROVE (Capacity(universe', a) > 0) => (Capacity(universe, a) > 0)'
    BY DEF Capacity, Policy
  <2> QED BY <1>3, <2>1, <2>2, <2>3, <2>4 DEF RoomKept
<1> QED BY <1>1, <1>4, <1>5, <1>6 DEF IInv, Fine

(* Every step keeps the invariant. *)
LEMMA NextInv == IInv /\ [Next]_vars => IInv'
<1> SUFFICES ASSUME IInv, [Next]_vars PROVE IInv'
  OBVIOUS
<1> SUFFICES Fine(universe', round') /\ scenario' = scenario
  BY FineNext DEF IInv
<1>1. CASE UNCHANGED vars
  BY <1>1 DEF vars, IInv
<1>2. ASSUME NEW r \in Round, Evolve(r)
      PROVE  Fine(universe', round') /\ scenario' = scenario
  <2>1. CASE StartRound(r)
    BY <2>1, StartRoundFine
  <2>2. CASE FirstMatch(r)
    BY <2>2, FirstMatchFine
  <2>3. CASE AnswerOffer(r)
    BY <2>3, AnswerOfferFine
  <2>4. CASE ConcludeOffer(r)
    BY <2>4, ConcludeOfferFine
  <2>5. CASE StartSync(r)
    BY <2>5, StartSyncFine
  <2>6. CASE StartAdapt(r)
    BY <2>6, StartAdaptFine
  <2>7. CASE EndRound(r)
    BY <2>7, EndRoundFine
  <2>8. ASSUME NEW id \in LinkId, Project(r, id)
        PROVE  Fine(universe', round') /\ scenario' = scenario
    BY <2>8, ProjectFine
  <2>9. ASSUME NEW id \in LinkId, Suggest(r, id)
        PROVE  Fine(universe', round') /\ scenario' = scenario
    BY <2>9, SuggestFine
  <2>10. ASSUME NEW id \in LinkId, AnswerReview(r, id)
         PROVE  Fine(universe', round') /\ scenario' = scenario
    BY <2>10, AnswerReviewFine
  <2>11. ASSUME NEW id \in LinkId, ConcludeReview(r, id)
         PROVE  Fine(universe', round') /\ scenario' = scenario
    BY <2>11, ConcludeReviewFine
  <2> QED
    BY <1>2, <2>1, <2>2, <2>3, <2>4, <2>5, <2>6, <2>7, <2>8, <2>9, <2>10, <2>11 DEF Evolve
<1>3. CASE Host
  <2>1. ASSUME NEW id \in LinkId, Disconnect(id)
        PROVE  Fine(universe', round') /\ scenario' = scenario
    BY <2>1, DisconnectFine
  <2>2. ASSUME NEW id \in LinkId, QuarantineLink(id)
        PROVE  Fine(universe', round') /\ scenario' = scenario
    BY <2>2, QuarantineFine
  <2>3. ASSUME NEW id \in LinkId, NEW a \in Agent, Contradict(id, a)
        PROVE  Fine(universe', round') /\ scenario' = scenario
    BY <2>3, ContradictFine
  <2>4. ASSUME NEW w \in scenario.lives, AgentBecomes(w[1], w[2])
        PROVE  Fine(universe', round') /\ scenario' = scenario
    BY <2>4, BecomesFine
  <2>5. ASSUME NEW w \in scenario.wires, Connect(w[1], w[2], w[3])
        PROVE  Fine(universe', round') /\ scenario' = scenario
    BY <2>5, ConnectFine
  <2>6. CASE Tick
    BY <2>6, TickFine
  <2> QED BY <1>3, <2>1, <2>2, <2>3, <2>4, <2>5, <2>6 DEF Host
<1> QED BY <1>1, <1>2, <1>3 DEF Next

(* What the invariant says of the links and the agents of a universe. *)
LEMMA InvIntegrity == IInv => Integrity
BY DEF IInv, Fine, Sound, OneLink, RoomKept, Mirrors, Integrity, OneLinkPerPair, Mirrored

LEMMA InvQuiet == IInv => NothingLeftNegotiating
BY DEF IInv, Fine, Quiet, Parties, Negotiating, NothingLeftNegotiating

(* And of what was agreed. *)
LEMMA InvAgreed == IInv => AgreementKept
<1> SUFFICES ASSUME IInv, NEW id \in DOMAIN universe.link, NEW a \in Members(universe.link[id])
             PROVE  /\ ~HostMay("connect") => TermsSupportedBy(universe.link[id].terms, Policy(a))
                    /\ /\ scenario.host \intersect {"connect", "contradict"} = {}
                       /\ universe.link[id].lifecycle \in {"active", "strengthening",
                             "weakening", "dormant", "renegotiating"}
                       => universe.link[id].useful >= Policy(a).need
  BY DEF AgreementKept
<1>1. Agreed(universe.link[id])
  BY DEF IInv, Fine, Sound
<1> QED BY <1>1 DEF Agreed, Suits, Served, Counted, Settled

-----------------------------------------------------------------------------
(* The theorems. *)

(* The invariant that all of this rests on, of the universe, its links and    *)
(* every call of evolve: src/runtime/topology-runtime.ts:82-700.              *)
THEOREM TopologyInvariant == Spec => []IInv
<1>1. Init => IInv
  BY InitInv
<1>2. IInv /\ [Next]_vars => IInv'
  BY NextInv
<1> QED BY <1>1, <1>2, PTL DEF Spec

(* Two agents have one link at most, however many rounds, host calls and      *)
(* failing participants were at it; and where one call alone makes links, the *)
(* links of the universe and those its agents hold mirror one another         *)
(* (attachLink and assertIntegrity of src/runtime/universe.ts).               *)
THEOREM IntegrityHolds == Spec => []Integrity
<1>1. IInv => Integrity
  BY InvIntegrity
<1> QED BY <1>1, TopologyInvariant, PTL

(* Whoever is negotiating, and whatever link is renegotiated, has a session   *)
(* at work that ends it: both ways out of a negotiation restore lifecycles    *)
(* and every end of a review resumes the link (#restoreLifecycle and          *)
(* resumeAfterRenegotiation in src/runtime/topology-runtime.ts).              *)
THEOREM NothingIsLeftNegotiating == Spec => []NothingLeftNegotiating
<1>1. IInv => NothingLeftNegotiating
  BY InvQuiet
<1> QED BY <1>1, TopologyInvariant, PTL

(* A negotiated link is held under terms both participants support, whatever  *)
(* they offered, countered and suggested, also when two reviews met; and it   *)
(* has served both probations before it counts as active                      *)
(* (src/core/protocol-terms.ts, src/core/link-protocol.ts).                   *)
THEOREM AgreementIsKept == Spec => []AgreementKept
<1>1. IInv => AgreementKept
  BY InvAgreed
<1> QED BY <1>1, TopologyInvariant, PTL

=============================================================================
