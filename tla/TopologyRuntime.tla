-------------------------- MODULE TopologyRuntime --------------------------
(***************************************************************************)
(* A universe of agents and the rounds that evolve its topology:           *)
(* src/runtime/topology-runtime.ts, universe.ts, negotiation.ts and        *)
(* discovery-mesh.ts, with the agents of src/core/nano-agent.ts.           *)
(*                                                                         *)
(* evolve is one call after the other or several at once, each in its own  *)
(* phase.  A phase waits for what agents answer, and while it waits every  *)
(* other call and every operation of the host may run.  An agent answers   *)
(* what it likes.  Time is the host's: every comparison with it may go     *)
(* either way, as far as the scenario does not say.                        *)
(*                                                                         *)
(* Left out: what a boundary says, scores beyond their order, events and   *)
(* reports, metrics, clones, splits and merges of agents.                  *)
(***************************************************************************)
EXTENDS LinkProtocol, SequencesExt, FiniteSetsExt

CONSTANTS
    Round,      \* the most calls of evolve at work at once
    LinkId,     \* bound: the links that can ever be made
    MaxNew,     \* options.maxNewLinksPerAgentPerRound
    MaxOffers,  \* policy.maxNegotiationRounds, the same for all
    Scenarios   \* those that are looked at

\* Of an agent's policy what this module reads; the terms it asks for are among it.
AgentPolicy ==
    [maxLinks : Nat, modes : Seq(TurnMode), cost : Nat, need : 1 .. MaxInteractions,
     discovery : {"active", "passive", "disabled"}, acceptInbound : BOOLEAN,
     allowProtocolMutation : BOOLEAN, minCompatibility : Nat, maxCandidates : Nat]

\* Those that a transition of nano-agent.ts leads to.
AgentLifecycle == {"active", "waiting", "negotiating", "dormant", "retired", "quarantined"}

\* Only a negotiation makes an agent negotiate.
Scenario ==
    [policy : [Agent -> AgentPolicy], scores : [Agent \X Agent -> Nat], costs : SUBSET Nat,
     calls : [Round -> Nat], turns : Nat,
     host : SUBSET {"wait", "disconnect", "quarantine", "contradict", "agents",
                    "connect", "tick"},
     agents : SUBSET {"decide", "throw"},
     lives : SUBSET (Agent \X (AgentLifecycle \ {"negotiating"})),
     wires : SUBSET (Agent \X Agent \X Terms)]

ASSUME TopologyAssumption ==
    /\ IsFiniteSet(Round)
    /\ LinkId \subseteq Nat /\ IsFiniteSet(LinkId)
    /\ MaxNew \in Nat /\ MaxOffers \in Nat \ {0}
    /\ Scenarios \subseteq Scenario

VARIABLES
    scenario,   \* policies and scores, the calls of evolve and their option
                \* maxLinkTurnsPerRound, and what host and agents may do
    universe,   \* [life, held, link, links, ads, cooldown]
    round       \* of each call of evolve, its phase and what it waits for

vars == <<scenario, universe, round>>

NetworkLifecycles == {"active", "waiting", "negotiating"}
Synchronizable == {"probation", "active", "strengthening", "weakening",
                   "conflicted", "dormant"}
Adaptable == {"active", "strengthening", "weakening", "conflicted"}

Policy(a) == scenario.policy[a]
Endless == 99
Calls(r) == scenario.calls[r]
Rounds == {r \in Round : Calls(r) > 0}
HostMay(operation) == operation \in scenario.host
AgentsMay(answer) == answer \in scenario.agents

NoSession == [status |-> "none"]
NoTask == [kind |-> "none"]
NoAd == -1

-----------------------------------------------------------------------------
(* The universe: agents, links, and the mesh of advertisements.  A link    *)
(* that was removed stays in link: whoever holds it may still use it.      *)

Eligible(u, a) == u.life[a] \in NetworkLifecycles /\ Policy(a).discovery # "disabled"
Capacity(u, a) == Policy(a).maxLinks - Cardinality(u.held[a])
LinksBetween(u, a, b) == {id \in u.links : Members(u.link[id]) = {a, b}}
Neighbors(u, a) == {Other(u.link[id], a) : id \in u.held[a]}
FreeIds(u) == LinkId \ DOMAIN u.link

SetLink(u, id, l) ==
    [u EXCEPT !.link = [i \in DOMAIN @ \union {id} |-> IF i = id THEN l ELSE @[i]]]

\* addLink of the agent throws when it holds all the links it may.
AddLinkThrows(u, a) == Capacity(u, a) <= 0
AddLink(u, a, id) == [u EXCEPT !.held[a] = @ \union {id}]

\* Fault: the pair is not looked up.
AttachLinkUnchecked(u, id, l) ==
    [ok |-> TRUE,
     u |-> AddLink(AddLink([SetLink(u, id, l) EXCEPT !.links = @ \union {id}],
                           l.left, id), l.right, id)]

\* attachLink: a second link of the pair is refused before anything changes; a
\* participant that throws leaves behind what is done already.
AttachLink(u, id, l) ==
    LET stored == [SetLink(u, id, l) EXCEPT !.links = @ \union {id}]
        left == AddLink(stored, l.left, id)
    IN CASE LinksBetween(u, l.left, l.right) # {} -> [ok |-> FALSE, u |-> u]
         [] OTHER ->
              IF AddLinkThrows(stored, l.left) THEN [ok |-> FALSE, u |-> stored]
              ELSE IF AddLinkThrows(left, l.right) THEN [ok |-> FALSE, u |-> left]
              ELSE [ok |-> TRUE, u |-> AddLink(left, l.right, id)]

RemoveLink(u, id) ==
    [u EXCEPT !.links = @ \ {id},
              !.held = [a \in Agent |-> IF a \in Members(u.link[id]) /\ id \in u.links
                                        THEN @[a] \ {id} ELSE @[a]]]

\* #reviewOneLink, with every strength and lateness the link may be found in.
ReviewOneLink(u, id) ==
    {IF l.lifecycle = "retired" THEN RemoveLink(SetLink(u, id, l), id) ELSE SetLink(u, id, l) :
       l \in {ReviewLifecycle(u.link[id], strength, late) :
                strength \in Strength, late \in BOOLEAN}}

\* #reviewLifecycle for all links.
ReviewLinks(u) ==
    FoldSet(LAMBDA id, V : UNION {ReviewOneLink(v, id) : v \in V}, {u}, u.links)

PublishAdvertisements(u) ==
    [u EXCEPT !.ads = [a \in Agent |-> IF Eligible(u, a) THEN Cardinality(u.held[a])
                                       ELSE NoAd]]

\* Lifecycle of an agent during a negotiation.
BeginNegotiation(u, a) ==
    IF u.life[a] \in NetworkLifecycles THEN [u EXCEPT !.life[a] = "negotiating"] ELSE u

RestoreLifecycle(u, a, lifecycle) ==
    IF u.life[a] # "negotiating" THEN u
    ELSE [u EXCEPT !.life[a] = IF lifecycle \in {"waiting", "dormant"} THEN lifecycle
                               ELSE "active"]

-----------------------------------------------------------------------------
(* Discovery.  A match is a pair <<seeker, peer>>.                         *)

Score(seeker, peer) == scenario.scores[<<seeker, peer>>]

Matches(u, a) ==
    {b \in Agent \ ({a} \union Neighbors(u, a)) :
       /\ u.ads[b] # NoAd
       /\ Policy(b).acceptInbound /\ Policy(b).discovery # "disabled"
       /\ u.ads[b] < Policy(b).maxLinks
       /\ Score(a, b) >= Most({Policy(a).minCompatibility, Policy(b).minCompatibility})}

\* Best first; ties in the order of ids.
BetterPeer(a, b, c) ==
    Score(a, b) > Score(a, c) \/ (Score(a, b) = Score(a, c) /\ b < c)

\* discover: what an agent with room for links proposes.
Discover(u, a) ==
    IF ~Eligible(u, a) \/ Policy(a).discovery # "active" \/ Capacity(u, a) <= 0 THEN {}
    ELSE LET limit == Least({Capacity(u, a), Policy(a).maxCandidates})
             Better(b) == {c \in Matches(u, a) : BetterPeer(a, c, b)}
         IN {<<a, b>> : b \in {c \in Matches(u, a) : Cardinality(Better(c)) < limit}}

Mirror(m) == <<m[2], m[1]>>
PairOf(m) == {m[1], m[2]}

BetterMatch(m, n) ==
    \/ Score(m[1], m[2]) > Score(n[1], n[2])
    \/ /\ Score(m[1], m[2]) = Score(n[1], n[2])
       /\ \/ Least(PairOf(m)) < Least(PairOf(n))
          \/ Least(PairOf(m)) = Least(PairOf(n)) /\ Most(PairOf(m)) < Most(PairOf(n))

\* Of two matches of a pair the better, or that of the first seeker; the best of
\* all first (there is one such order).
Candidates(u) ==
    LET all == UNION {Discover(u, a) : a \in Agent}
        kept == {m \in all :
                   Mirror(m) \in all =>
                     \/ Score(m[1], m[2]) > Score(m[2], m[1])
                     \/ Score(m[1], m[2]) = Score(m[2], m[1]) /\ m[1] < m[2]}
    IN {s \in SetToSeqs(kept) :
          \A i, j \in DOMAIN s : i < j => BetterMatch(s[i], s[j])}

-----------------------------------------------------------------------------
(* Negotiation.                                                            *)

Final == {"accepted", "rejected", "deferred", "failed"}
Offers == [mode : TurnMode, cost : scenario.costs, need : 1 .. MaxInteractions]

\* What evaluateOffer refuses by itself.
Refuses(u, s) ==
    LET policy == Policy(s.recipient)
    IN \/ u.life[s.recipient] \notin NetworkLifecycles
       \/ s.estimate > policy.cost
       \/ s.purpose = "renegotiation" /\ ~policy.allowProtocolMutation
       \/ /\ s.purpose = "formation"
          /\ \/ ~policy.acceptInbound \/ policy.discovery = "disabled"
             \/ Capacity(u, s.recipient) <= 0
             \/ s.score < policy.minCompatibility

Ask(u, s) == [s EXCEPT !.status = IF Refuses(u, s) THEN "refused" ELSE "asked"]

Session(purpose, proposer, recipient, terms, score, estimate) ==
    [status |-> "asked", purpose |-> purpose, proposer |-> proposer,
     recipient |-> recipient, terms |-> terms, offer |-> 1, score |-> score,
     estimate |-> estimate]

Decision(action, terms) == [action |-> action, terms |-> terms]

DefaultDecision(s) ==
    LET stricter == StricterTerms(s.terms, Policy(s.recipient), Policy(s.proposer))
    IN CASE stricter.mode = "none" -> Decision("reject", s.terms)
         [] stricter = s.terms -> Decision("accept", s.terms)
         [] OTHER -> Decision("counter", stricter)

\* What the recipient may answer: by its policy, or by a behaviour of its own.
Decisions(s) ==
    {DefaultDecision(s)}
    \union (IF AgentsMay("decide")
            THEN {Decision(action, s.terms) : action \in {"accept", "reject", "defer"}}
                 \union {Decision("counter", terms) : terms \in Offers}
            ELSE {})
    \union (IF AgentsMay("throw") THEN {Decision("throw", s.terms)} ELSE {})

\* Fault: only the recipient's own support is looked at.
SupportedByRecipient(terms, a, b) == TermsSupportedBy(terms, Policy(b))

Supported(terms, a, b) ==
    TermsSupportedBy(terms, Policy(a)) /\ TermsSupportedBy(terms, Policy(b))

Counter(u, s, terms) ==
    IF s.offer >= MaxOffers THEN [s EXCEPT !.status = "rejected"]
    ELSE Ask(u, [s EXCEPT !.proposer = s.recipient, !.recipient = s.proposer,
                          !.offer = @ + 1, !.terms = terms])

\* One turn of the loop of NegotiationSession.run.
Answered(u, s, d) ==
    CASE s.status = "refused" \/ d.action = "reject" -> [s EXCEPT !.status = "rejected"]
      [] s.status = "asked" /\ d.action = "accept" ->
           [s EXCEPT !.status = IF Supported(s.terms, s.proposer, s.recipient)
                                THEN "accepted" ELSE "rejected"]
      [] s.status = "asked" /\ d.action = "defer" -> [s EXCEPT !.status = "deferred"]
      [] s.status = "asked" /\ d.action = "throw" -> [s EXCEPT !.status = "failed"]
      [] s.status = "asked" /\ d.action = "counter" -> Counter(u, s, d.terms)

-----------------------------------------------------------------------------
(* A round: discovery and negotiation one match after the other, then all  *)
(* links at once, then the reviews of all protocols at once.               *)

Idle == [phase |-> "idle", calls |-> 0, queue |-> <<>>, match |-> <<>>, session |-> NoSession,
         saved |-> <<>>, accepted |-> [a \in Agent |-> 0],
         tasks |-> [id \in LinkId |-> NoTask]]

\* The next phase of a call, with nothing of the last one left.
Phase(r, phase) == [Idle EXCEPT !.phase = phase, !.calls = round[r].calls]

Busy(r) == {id \in LinkId : round[r].tasks[id] # NoTask}
Negotiating == {r \in Round : round[r].phase = "negotiating"}

Viable(u, r, m, accepted) ==
    /\ PairOf(m) \notin u.cooldown
    /\ LinksBetween(u, m[1], m[2]) = {}
    /\ \A a \in PairOf(m) : Capacity(u, a) > 0 /\ accepted[a] < MaxNew /\ u.ads[a] # NoAd
    /\ NegotiateInitialTerms(Policy(m[1]), Policy(m[2])).mode # "none"
    /\ Cardinality(FreeIds(u)) > Cardinality(Negotiating \ {r})   \* bound

\* On to the next match that can be negotiated; its recipient is asked.
Proceed(u, r, queue, accepted) ==
    LET viable == {i \in DOMAIN queue : Viable(u, r, queue[i], accepted)}
    IN IF viable = {}
       THEN /\ universe' = u
            /\ round' = [round EXCEPT ![r] = Phase(r, "formed")]
       ELSE LET i == Least(viable)
                m == queue[i]
                v == BeginNegotiation(BeginNegotiation(u, m[1]), m[2])
                s == Session("formation", m[1], m[2],
                             NegotiateInitialTerms(Policy(m[1]), Policy(m[2])),
                             Score(m[1], m[2]), 0)
            IN /\ universe' = v
               /\ round' = [round EXCEPT ![r] =
                    [Phase(r, "negotiating") EXCEPT
                       !.queue = SubSeq(queue, i + 1, Len(queue)),
                       !.match = m,
                       !.session = Ask(v, s),
                       !.saved = <<u.life[m[1]], u.life[m[2]]>>,
                       !.accepted = accepted]]

\* Calls are counted where their number is bounded.
Called(r) == IF Calls(r) = Endless THEN 0 ELSE round[r].calls + 1

\* evolve up to its first await: lifecycles, advertisements, candidates.
StartRound(r) ==
    /\ round[r].phase = "idle"
    /\ round[r].calls < Calls(r)   \* bound, unless Endless
    /\ \E reviewed \in ReviewLinks(universe), cooldown \in {universe.cooldown, {}} :
         LET u == PublishAdvertisements([reviewed EXCEPT !.cooldown = cooldown])
         IN /\ universe' = u
            /\ \E queue \in Candidates(u) :
                 round' = [round EXCEPT ![r] =
                   [Phase(r, "scoring") EXCEPT !.queue = queue, !.calls = Called(r)]]
    /\ UNCHANGED scenario

\* Every agent has scored its peers.
FirstMatch(r) ==
    /\ round[r].phase = "scoring"
    /\ Proceed(universe, r, round[r].queue, round[r].accepted)
    /\ UNCHANGED scenario

AnswerOffer(r) ==
    /\ round[r].phase = "negotiating"
    /\ round[r].session.status \notin Final
    /\ \E d \in Decisions(round[r].session) :
         round' = [round EXCEPT ![r].session = Answered(universe, @, d)]
    /\ UNCHANGED <<scenario, universe>>

\* The participants of a session that has ended have the lifecycles they had.
AllRestored(r) ==
    LET m == round[r].match
        saved == round[r].saved
    IN RestoreLifecycle(RestoreLifecycle(universe, m[1], saved[1]), m[2], saved[2])

\* Fault: a negotiation that fails leaves the lifecycles as they are.
UnlessFailed(r) == IF round[r].session.status = "failed" THEN universe ELSE AllRestored(r)

Restored(r) == AllRestored(r)

\* What follows session.run, up to the next session or to the end of the phase.
ConcludeOffer(r) ==
    LET m == round[r].match
        s == round[r].session
        accepted == round[r].accepted
        restored == Restored(r)
        attached == AttachLink(restored, Least(FreeIds(restored)),
                               NewLink(m[1], m[2], "probation", s.terms))
        counted == [a \in Agent |-> IF a \in PairOf(m) THEN accepted[a] + 1 ELSE accepted[a]]
    IN /\ round[r].phase = "negotiating"
       /\ s.status \in Final
       /\ IF s.status = "accepted"
          THEN Proceed(attached.u, r, round[r].queue,
                       IF attached.ok THEN counted ELSE accepted)
          ELSE Proceed([restored EXCEPT !.cooldown = @ \union {PairOf(m)}], r,
                       round[r].queue, accepted)
       /\ UNCHANGED scenario

SyncTask(u, id, turn) ==
    [kind |-> "project", turn |-> turn, author |-> CurrentTurnAgent(u.link[id]),
     was |-> u.link[id].lifecycle]

\* Links whose interval or heartbeat is not over are passed by.
StartSync(r) ==
    LET ready == {id \in universe.links : universe.link[id].lifecycle \in Synchronizable}
    IN /\ round[r].phase = "formed"
       /\ \E due \in IF HostMay("wait") THEN SUBSET ready ELSE {ready} :
            round' = [round EXCEPT ![r] =
              [Phase(r, "synchronizing") EXCEPT
                           !.tasks = [id \in LinkId |-> IF id \in due
                                        THEN SyncTask(universe, id, 1) ELSE NoTask]]]
       /\ UNCHANGED <<scenario, universe>>

\* What the author projects: nothing, what is there already, something new, or
\* something that costs more than the terms allow, as good as an exception.
\* "unobserved" is new, and the peer throws when it observes it.
Projections == {"null", "same", "new"}
               \union (IF AgentsMay("throw") THEN {"throws", "unobserved"} ELSE {})

Projected(l, task, answer) ==
    LET stays == [ok |-> FALSE, l |-> l]
        written == Mutate(l, task.author)
    IN CASE answer = "throws" -> stays
         [] answer = "same" /\ task.was = "dormant" -> stays
         [] answer \in {"null", "same"} /\ ~(answer = "same" /\ task.was = "dormant") ->
              IF CanWrite(l, task.author)
              THEN [ok |-> TRUE, l |-> PassTurn(l, task.author)] ELSE stays
         [] answer = "unobserved" ->
              IF CanWrite(l, task.author) THEN [ok |-> FALSE, l |-> written] ELSE stays
         [] answer = "new" ->
              IF CanWrite(l, task.author)
              THEN [ok |-> TRUE, l |-> IF task.was = "dormant" THEN Activate(written)
                                       ELSE written]
              ELSE stays

\* One turn of the loop of #synchronizeLink; after the last the link is reviewed.
Project(r, id) ==
    LET task == round[r].tasks[id]
    IN /\ task.kind = "project"
       /\ \E answer \in Projections :
            LET p == Projected(universe.link[id], task, answer)
                u == SetLink(universe, id, p.l)
            IN IF p.ok /\ task.turn < scenario.turns /\ p.l.lifecycle \in Synchronizable
               THEN /\ universe' = u
                    /\ round' = [round EXCEPT ![r].tasks[id] =
                                   SyncTask(u, id, task.turn + 1)]
               ELSE /\ universe' \in ReviewOneLink(u, id)
                    /\ round' = [round EXCEPT ![r].tasks[id] = NoTask]
       /\ UNCHANGED scenario

StartAdapt(r) ==
    LET due == {id \in universe.links : /\ universe.link[id].lifecycle \in Adaptable
                                        /\ ShouldReviewProtocol(universe.link[id])}
        Task(id) == [kind |-> "suggest", proposer |-> CurrentTurnAgent(universe.link[id]),
                     terms |-> universe.link[id].terms,
                     was |-> universe.link[id].lifecycle]
    IN /\ round[r].phase = "synchronizing" /\ Busy(r) = {}
       /\ round' = [round EXCEPT ![r] =
            [Phase(r, "adapting") EXCEPT
                         !.tasks = [id \in LinkId |-> IF id \in due THEN Task(id)
                                                      ELSE NoTask]]]
       /\ UNCHANGED <<scenario, universe>>

\* What the proposer suggests, or the link recommends where it suggests nothing:
\* a recommendation changes only terms that are left out here.
Proposals(task) ==
    {task.terms} \union (IF AgentsMay("decide") /\ Policy(task.proposer).allowProtocolMutation
                         THEN Offers ELSE {})

\* suggestProtocolPatch has answered.  Whether the link is still attached, or
\* what its lifecycle is by now, is not looked at.
Suggest(r, id) ==
    LET task == round[r].tasks[id]
        l == universe.link[id]
        peer == Other(l, task.proposer)
    IN /\ task.kind = "suggest"
       /\ \/ /\ universe' = SetLink(universe, id, MarkProtocolReviewed(l))
             /\ round' = [round EXCEPT ![r].tasks[id] = NoTask]
          \/ \E terms \in Proposals(task) :
               LET u == SetLink(universe, id, BeginRenegotiation(l))
                   s == Session("renegotiation", task.proposer, peer, terms, 0, terms.cost)
               IN /\ universe' = u
                  /\ round' = [round EXCEPT ![r].tasks[id] =
                       [kind |-> "review", proposer |-> task.proposer, terms |-> task.terms,
                        was |-> task.was, session |-> Ask(u, s)]]
       /\ UNCHANGED scenario

AnswerReview(r, id) ==
    LET task == round[r].tasks[id]
    IN /\ task.kind = "review" /\ task.session.status \notin Final
       /\ \E d \in Decisions(task.session) :
            round' = [round EXCEPT ![r].tasks[id].session = Answered(universe, @, d)]
       /\ UNCHANGED <<scenario, universe>>

\* Agreed terms that are the old ones may still differ in what is left out.
Reviewed(l, task) ==
    LET patch == ProtocolPatchBetween(task.terms, task.session.terms)
        Resumed(k) == ResumeAfterRenegotiation(k, task.was)
        marked == Resumed(MarkProtocolReviewed(l))
        adapted == IF CanWrite(l, task.proposer)
                   THEN Resumed(MutateProtocol(l, task.proposer, patch)) ELSE marked
    IN CASE task.session.status = "failed" -> {MarkProtocolReviewed(Resumed(l))}
         [] task.session.status \in {"rejected", "deferred"} -> {marked}
         [] task.session.status = "accepted" ->
              {adapted} \union (IF DOMAIN patch = {} THEN {marked} ELSE {})

ConcludeReview(r, id) ==
    LET task == round[r].tasks[id]
    IN /\ task.kind = "review" /\ task.session.status \in Final
       /\ \E l \in Reviewed(universe.link[id], task) : universe' = SetLink(universe, id, l)
       /\ round' = [round EXCEPT ![r].tasks[id] = NoTask]
       /\ UNCHANGED scenario

EndRound(r) ==
    /\ round[r].phase = "adapting" /\ Busy(r) = {}
    /\ round' = [round EXCEPT ![r] = Phase(r, "idle")]
    /\ UNCHANGED <<scenario, universe>>

-----------------------------------------------------------------------------
(* What the host may do at any time.                                       *)

HostStep(operation, u) ==
    /\ HostMay(operation)
    /\ universe' = u
    /\ UNCHANGED <<scenario, round>>

Disconnect(id) ==
    /\ id \in universe.links
    /\ HostStep("disconnect",
                RemoveLink(SetLink(universe, id, Retire(universe.link[id])), id))

QuarantineLink(id) ==
    /\ id \in universe.links
    /\ HostStep("quarantine", SetLink(universe, id, Quarantine(universe.link[id])))

\* Contradictions and consensus mutations are calls of the participants.
Contradict(id, a) ==
    /\ id \in universe.links /\ a \in Members(universe.link[id])
    /\ \/ /\ CanWrite(universe.link[id], a)
          /\ \E l \in {AddContradiction(universe.link[id], a),
                       ResolveContradiction(universe.link[id], a)} :
               HostStep("contradict", SetLink(universe, id, l))
       \/ /\ Writable(universe.link[id])
          /\ HostStep("contradict", SetLink(universe, id, ConsensusMutate(universe.link[id])))

\* An agent that is told to activate, wait, sleep or retire does; scenario.lives
\* are the changes the host makes, scenario.wires its connections.
AgentBecomes(a, life) ==
    /\ life # universe.life[a]
    /\ HostStep("agents", [universe EXCEPT !.life[a] = life])

\* The escape hatch: no negotiation, no look at the capacity of the agents.
Connect(a, b, terms) ==
    /\ Cardinality(FreeIds(universe)) > Cardinality(Negotiating)   \* bound
    /\ LET link == NewLink(a, b, "active", terms)
       IN HostStep("connect", AttachLink(universe, Least(FreeIds(universe)), link).u)

Tick == \E reviewed \in ReviewLinks(universe) : HostStep("tick", reviewed)

-----------------------------------------------------------------------------
Init ==
    /\ scenario \in Scenarios
    /\ universe = [life |-> [a \in Agent |-> "active"],
                   held |-> [a \in Agent |-> {}],
                   link |-> <<>>, links |-> {},
                   ads |-> [a \in Agent |-> NoAd],
                   cooldown |-> {}]
    /\ round = [r \in Round |-> Idle]

Evolve(r) ==
    \/ StartRound(r) \/ FirstMatch(r) \/ AnswerOffer(r) \/ ConcludeOffer(r)
    \/ StartSync(r) \/ StartAdapt(r) \/ EndRound(r)
    \/ \E id \in LinkId :
         Project(r, id) \/ Suggest(r, id) \/ AnswerReview(r, id) \/ ConcludeReview(r, id)

Host ==
    \/ \E id \in LinkId : Disconnect(id) \/ QuarantineLink(id)
    \/ \E id \in LinkId, a \in Agent : Contradict(id, a)
    \/ \E w \in scenario.lives : AgentBecomes(w[1], w[2])
    \/ \E w \in scenario.wires : Connect(w[1], w[2], w[3])
    \/ Tick

Next == (\E r \in Round : Evolve(r)) \/ Host

Spec == Init /\ [][Next]_vars

\* Every answer comes, and the host evolves again and again.  While calls are not
\* bounded Evolve(r) is enabled for some r, and nothing else changes round: this
\* is WF_vars(\E r \in Round : Evolve(r)), as TLC checks it without looking for
\* the successors of every state again.
FairSpec ==
    /\ Spec
    /\ (\E r \in Round : Calls(r) = Endless) => []<><<round' # round>>_vars

-----------------------------------------------------------------------------
(* Properties.                                                             *)

\* assertIntegrity, and what attachLink is for: two agents have one relationship
\* at most, whoever formed it and however many rounds were at it.  The links of
\* the universe and those of its agents mirror one another, unless links are made
\* while a negotiation that found room waits for an answer: the participant then
\* throws after the link was stored.
OneLinkPerPair ==
    \A i, j \in universe.links :
      Members(universe.link[i]) = Members(universe.link[j]) => i = j

Mirrored ==
    /\ \A id \in universe.links : \A a \in Members(universe.link[id]) : id \in universe.held[a]
    /\ \A a \in Agent : \A id \in universe.held[a] :
         id \in universe.links /\ a \in Members(universe.link[id])

MakesLinksAlone == Cardinality(Rounds) = 1 /\ ~HostMay("connect")

Integrity == OneLinkPerPair /\ (MakesLinksAlone => Mirrored)

\* An agent is negotiating and a link is being renegotiated only for a session
\* that is at work: refusals, failures, retirements and overlapping rounds leave
\* neither behind.
NothingLeftNegotiating ==
    /\ \A a \in Agent :
         universe.life[a] = "negotiating" =>
           \E r \in Negotiating : a \in PairOf(round[r].match)
    /\ \A id \in universe.links :
         universe.link[id].lifecycle = "renegotiating" =>
           \E r \in Round : round[r].tasks[id].kind = "review"

\* "Agreement on supported terms": whatever was offered, countered, suggested or
\* accepted, a negotiated link is held under terms both participants advertise,
\* also when two reviews of it were at work and their patches met.  And it serves
\* the longer of the probations the two ask for before it counts as active.
AgreementKept ==
    \A id \in DOMAIN universe.link :
      LET l == universe.link[id]
      IN \A a \in Members(l) :
           /\ ~HostMay("connect") => TermsSupportedBy(l.terms, Policy(a))
           /\ /\ scenario.host \intersect {"connect", "contradict"} = {}
              /\ l.lifecycle \in {"active", "strengthening", "weakening", "dormant",
                                  "renegotiating"}
              => l.useful >= Policy(a).need

\* Where agents answer without failing and the host evolves one round after the
\* other and lets each look at every link, the turn of a relationship in strict
\* alternation comes round, through reviews and renegotiations, as long as it is
\* neither dormant nor gone.
Turning(id) ==
    /\ id \in universe.links
    /\ universe.link[id].terms.mode = "strict_alternation"
    /\ universe.link[id].lifecycle \in (Synchronizable \ {"dormant"}) \union {"renegotiating"}

Steady ==
    /\ scenario.host = {} /\ ~AgentsMay("throw")
    /\ \E r \in Round : Rounds = {r} /\ Calls(r) = Endless

TurnComesRound ==
    \A id \in LinkId, side \in Side :
      (Steady /\ Turning(id) /\ universe.link[id].turn = side)
        ~> ~(Turning(id) /\ universe.link[id].turn = side)

\* The lifecycle of docs/PROTOCOL.md ends in retired.  The code does not keep
\* this: a review that was waiting for a suggestion begins a renegotiation of a
\* link that was retired meanwhile, and resumes it as active.
RetiredIsFinal ==
    [][\A id \in LinkId :
         (id \in DOMAIN universe.link /\ universe.link[id].lifecycle = "retired")
           => (universe.link[id].lifecycle)' = "retired"]_vars
=============================================================================
