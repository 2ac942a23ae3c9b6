---------------------------- MODULE LinkProtocol ----------------------------
(***************************************************************************)
(* A relationship between two agents and the terms it is held under:       *)
(* src/core/link-protocol.ts and src/core/protocol-terms.ts.               *)
(*                                                                         *)
(* A link is a record, a method of the code a guard (where it throws) and  *)
(* a function from link to link.  Of the revisions their number since the  *)
(* last review is kept, up to the number that calls for one, and of the   *)
(* metrics the useful updates, up to the most that a probation             *)
(* asks for (a synchronisation is one).  The strength is read, never kept: *)
(* every reading is an input.  Of the terms there are the turn mode, one   *)
(* limit of which less is stricter (maxCommunicationCost) and one of which *)
(* more is (probation.requiredInteractions); payload, activation, idle     *)
(* time, retirement and review interval are negotiated like one of them.   *)
(***************************************************************************)
EXTENDS Naturals, Sequences, FiniteSets

CONSTANTS
    Agent,
    ReviewEvery,      \* terms.reviewEveryRevisions
    MaxInteractions   \* bound: the most requiredInteractions of any policy

ASSUME LinkAssumption ==
    IsFiniteSet(Agent) /\ ReviewEvery \in Nat \ {0} /\ MaxInteractions \in Nat \ {0}

Side == {"left", "right"}
TurnMode == {"strict_alternation", "consensus_turn"}

Lifecycle == {"negotiating", "probation", "active", "strengthening", "weakening",
              "dormant", "conflicted", "quarantined", "renegotiating", "retired"}

Terms == [mode : TurnMode, cost : Nat, need : 1 .. MaxInteractions]

\* Of a strength what the thresholds tell apart: below retireBelowStrength,
\* below 0.1, below probation.minStrength, up to 0.75, and above.
Gone == 0
Weak == 1
Low == 2
Fit == 3
Strong == 4
Strength == Gone .. Strong

-----------------------------------------------------------------------------
(* Terms. *)

Least(S) == CHOOSE x \in S : \A y \in S : x <= y
Most(S) == CHOOSE x \in S : \A y \in S : x >= y

\* The first of the modes of one that the other supports.
FirstCommon(preferred, supported) ==
    LET common == {i \in DOMAIN preferred :
                     \E j \in DOMAIN supported : supported[j] = preferred[i]}
    IN IF common = {} THEN "none" ELSE preferred[Least(common)]

Prefers(policy, mode) == \E i \in DOMAIN policy.modes : policy.modes[i] = mode

NegotiateInitialTerms(left, right) ==
    [mode |-> FirstCommon(left.modes, right.modes),
     cost |-> Least({left.cost, right.cost}),
     need |-> Most({left.need, right.need})]

TermsSupportedBy(terms, policy) ==
    /\ Prefers(policy, terms.mode)
    /\ terms.cost <= policy.cost
    /\ terms.need >= policy.need

StricterTerms(terms, self, peer) ==
    [mode |-> IF Prefers(self, terms.mode) /\ Prefers(peer, terms.mode)
              THEN terms.mode
              ELSE FirstCommon(self.modes, peer.modes),
     cost |-> Least({terms.cost, self.cost, peer.cost}),
     need |-> Most({terms.need, self.need, peer.need})]

ProtocolPatchBetween(current, next) ==
    [f \in {g \in DOMAIN current : current[g] # next[g]} |-> next[f]]

ApplyProtocolPatch(terms, patch) ==
    [f \in DOMAIN terms |-> IF f \in DOMAIN patch THEN patch[f] ELSE terms[f]]

-----------------------------------------------------------------------------
(* The link. *)

NewLink(left, right, lifecycle, terms) ==
    [left |-> left, right |-> right, lifecycle |-> lifecycle, terms |-> terms,
     turn |-> "left", useful |-> 0, unreviewed |-> 0]

Link == [left : Agent, right : Agent, lifecycle : Lifecycle, terms : Terms,
         turn : Side, useful : 0 .. MaxInteractions, unreviewed : 0 .. ReviewEvery]

Members(l) == {l.left, l.right}
SideOf(l, agent) == IF agent = l.left THEN "left" ELSE "right"
Other(l, agent) == IF agent = l.left THEN l.right ELSE l.left
OppositeSide(side) == IF side = "left" THEN "right" ELSE "left"
CurrentTurnAgent(l) == IF l.turn = "left" THEN l.left ELSE l.right

Writable(l) == l.lifecycle \notin {"retired", "quarantined"}
HasTurn(l, agent) == l.terms.mode = "consensus_turn" \/ SideOf(l, agent) = l.turn
CanWrite(l, agent) == Writable(l) /\ HasTurn(l, agent)

\* Fault: the turn stays with the author.
NextTurnKept(l, author) == l.turn

NextTurn(l, author) ==
    IF l.terms.mode = "consensus_turn" THEN l.turn ELSE OppositeSide(SideOf(l, author))

\* One more revision.
Revised(l) == [l EXCEPT !.unreviewed = Least({@ + 1, ReviewEvery})]

Written(l, author) == [Revised(l) EXCEPT !.turn = NextTurn(l, author)]

\* mutate, for a link the author can write and a payload within the terms.
Mutate(l, author) ==
    [Written(l, author) EXCEPT !.useful = Least({@ + 1, MaxInteractions})]

PassTurn(l, author) == Written(l, author)

ConsensusMutate(l) == Revised(l)

\* The turn passes whatever the mode, and the revision counts as a review.
MutateProtocol(l, author, patch) ==
    [l EXCEPT !.terms = ApplyProtocolPatch(@, patch),
              !.turn = OppositeSide(SideOf(l, author)),
              !.unreviewed = 0]

ShouldReviewProtocol(l) == l.unreviewed >= ReviewEvery
MarkProtocolReviewed(l) == [l EXCEPT !.unreviewed = 0]

\* No transition asks where the link comes from.
RuntimeTransition(l, lifecycle) ==
    IF l.lifecycle = lifecycle THEN l
    ELSE [Revised(l) EXCEPT !.lifecycle = lifecycle]

BeginRenegotiation(l) == RuntimeTransition(l, "renegotiating")
Activate(l) == RuntimeTransition(l, "active")
Retire(l) == RuntimeTransition(l, "retired")
Quarantine(l) == RuntimeTransition(l, "quarantined")

\* Fault: only a link that was active is resumed.
ResumeActiveOnly(l, previous) ==
    IF l.lifecycle # "renegotiating" \/ previous # "active" THEN l
    ELSE RuntimeTransition(l, "active")

ResumeAfterRenegotiation(l, previous) ==
    IF l.lifecycle # "renegotiating" THEN l
    ELSE RuntimeTransition(l,
           IF previous \in {"active", "strengthening", "weakening", "conflicted"}
           THEN previous ELSE "active")

AddContradiction(l, author) == RuntimeTransition(Mutate(l, author), "conflicted")
ResolveContradiction(l, author) == RuntimeTransition(Mutate(l, author), "active")

\* reviewLifecycle after decay, with the strength it reads and whether the
\* timeout of the probation, or the idle time of a dormant link, is over.
ReviewLifecycle(l, strength, late) ==
    CASE l.lifecycle = "probation" /\ l.useful >= l.terms.need /\ strength >= Fit ->
           RuntimeTransition(l, "active")
      [] l.lifecycle = "probation" /\ (l.useful < l.terms.need \/ strength < Fit) /\ late ->
           RuntimeTransition(l, "retired")
      [] l.lifecycle \in {"active", "strengthening", "weakening"} ->
           RuntimeTransition(l, CASE strength = Gone -> "dormant"
                                  [] strength = Strong -> "strengthening"
                                  [] strength = Weak -> "weakening"
                                  [] OTHER -> "active")
      [] l.lifecycle = "dormant" /\ late -> RuntimeTransition(l, "retired")
      [] OTHER -> l
=============================================================================
