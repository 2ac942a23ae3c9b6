----------------------------- MODULE NetworkBft -----------------------------
(***************************************************************************)
(* The networked commit protocol of src/v2/network-consensus.ts: a static  *)
(* committee, a leader per view, one round of votes per command and a      *)
(* certificate that every replica applies.                                 *)
(*                                                                         *)
(* The code runs handlers to completion on one thread and gives up the     *)
(* thread only at an await; an action is the code between two awaits.  The *)
(* two awaits that matter keep their place in the state: `validating`      *)
(* holds the proposals whose validateCommand has been called and has not   *)
(* answered, `applying` the certificates whose applyCommit is running at   *)
(* the proposer.  Signatures and digests are abstracted: a message is what *)
(* its signature covers, and only its author creates it.                   *)
(***************************************************************************)
EXTENDS Naturals, FiniteSets

CONSTANTS
    Node,       \* the committee members
    Order,      \* the members sorted by id: a function on 0 .. |Node| - 1
    Command,    \* command ids; randomUUID never returns one twice
    MaxView,    \* bound: no view change targets a higher view
    Down,       \* which members may not be started at first: a set of sets
    FaultModels \* sets of things that may go wrong together

AllFaults == {"reject", "timeout", "applyThrows", "stop", "restore", "crash"}

ASSUME CommitteeAssumption ==
    /\ IsFiniteSet(Node)
    /\ Cardinality(Node) >= 4
    /\ Order \in [0 .. Cardinality(Node) - 1 -> Node]
    /\ \A i, j \in DOMAIN Order : Order[i] = Order[j] => i = j
    /\ MaxView \in Nat
    /\ Down \subseteq SUBSET Node
    /\ FaultModels \subseteq SUBSET AllFaults

View == 0 .. MaxView

f == (Cardinality(Node) - 1) \div 3

quorum == 2 * f + 1

leader(v) == Order[v % Cardinality(Node)]

Proposal == [view : View, seq : Nat \ {0}, cmd : Command]

Vote == [proposal : Proposal, voter : Node, accept : BOOLEAN]

Certificate == [proposal : Proposal, voters : SUBSET Node]

ViewChange == [toView : View, voter : Node]

VARIABLES
    faults,         \* what may go wrong in this behaviour, chosen at first
    running,        \* the members whose message handler is subscribed
    view,           \* #view of every member
    sequence,       \* #sequence of every member
    applied,        \* the proposals a member has handed to applyCommit
    pending,        \* #pending: the rounds a member has open
    votes,          \* the votes recorded in the open rounds of a member
    viewVotes,      \* #viewVotes: view changes a member has recorded
    validating,     \* proposals inside a call of validateCommand
    applying,       \* certificates inside the proposer's applyCommit
    proposed,       \* every proposal created so far
    proposalMsgs,   \* bft.proposal in flight, one per addressee
    voteMsgs,       \* votes created so far; those of replicas are bft.vote
    commitMsgs,     \* bft.commit in flight, one per addressee
    viewMsgs        \* bft.view-change sent so far

local == <<running, view, sequence, applied, pending, votes, viewVotes,
           validating, applying>>

network == <<proposalMsgs, voteMsgs, commitMsgs, viewMsgs>>

vars == <<faults, running, view, sequence, applied, pending, votes,
          viewVotes, validating, applying, proposed, proposalMsgs, voteMsgs,
          commitMsgs, viewMsgs>>

Init ==
    /\ faults \in FaultModels
    /\ running \in {Node \ down : down \in Down}
    /\ view = [n \in Node |-> 0]
    /\ sequence = [n \in Node |-> 0]
    /\ applied = [n \in Node |-> {}]
    /\ pending = [n \in Node |-> {}]
    /\ votes = [n \in Node |-> {}]
    /\ viewVotes = [n \in Node |-> {}]
    /\ validating = [n \in Node |-> {}]
    /\ applying = [n \in Node |-> {}]
    /\ proposed = {}
    /\ proposalMsgs = {}
    /\ voteMsgs = {}
    /\ commitMsgs = {}
    /\ viewMsgs = {}

-----------------------------------------------------------------------------
(* Helpers *)

\* The command ids in #committed.
committed(n) == {p.cmd : p \in applied[n]}

\* One copy of a broadcast for every other member.
ToPeers(n, body) == {[to |-> m, body |-> body] : m \in Node \ {n}}

\* What validateCommand may answer; an exception counts as a rejection.
Verdict == IF "reject" \in faults THEN BOOLEAN ELSE {TRUE}

\* Fault: a rejecting vote is counted like an accepting one.
AcceptorsOrRejectors(recorded, p) ==
    {vote.voter : vote \in {w \in recorded : w.proposal = p}}

\* Who has accepted p, in a set of recorded votes.
Acceptors(recorded, p) ==
    {vote.voter : vote \in {w \in recorded : w.proposal = p /\ w.accept}}

\* The votes left when the round of p is dropped.
WithoutRound(recorded, p) == {w \in recorded : w.proposal # p}

\* Fault: one vote more than the quorum is asked for.
verifyCertificateStrictly(c) == Cardinality(c.voters) > quorum

\* verifyCertificate: the certificate carries a quorum of accepting votes.
verifyCertificate(c) == Cardinality(c.voters) >= quorum

\* Fault: the certificate's sequence number is not compared.
FreshAtAnySequence(n, c) ==
    verifyCertificate(c) /\ c.proposal.cmd \notin committed(n)

\* The synchronous part of #applyCertificate, up to the call of applyCommit.
\* A command applied before is ignored; a gap in the sequence throws.
Fresh(n, c) ==
    /\ verifyCertificate(c)
    /\ c.proposal.cmd \notin committed(n)
    /\ c.proposal.seq = sequence[n] + 1

\* Fault: the sequence is not advanced.
applyCertificateInPlace(n, c) ==
    /\ applied' = IF Fresh(n, c)
                  THEN [applied EXCEPT ![n] = @ \cup {c.proposal}]
                  ELSE applied
    /\ UNCHANGED sequence

applyCertificate(n, c) ==
    IF Fresh(n, c)
    THEN /\ applied' = [applied EXCEPT ![n] = @ \cup {c.proposal}]
         /\ sequence' = [sequence EXCEPT ![n] = c.proposal.seq]
    ELSE UNCHANGED <<applied, sequence>>

\* Fault: the certificate is broadcast even when applying it threw.
recordVoteAndBroadcast(n, vote) ==
    LET p == vote.proposal
        recorded == votes[n] \cup {vote}
        c == [proposal |-> p, voters |-> Acceptors(recorded, p)]
    IN  IF p \in pending[n] /\ verifyCertificate(c)
        THEN /\ pending' = [pending EXCEPT ![n] = @ \ {p}]
             /\ votes' = [votes EXCEPT ![n] = WithoutRound(@, p)]
             /\ applyCertificate(n, c)
             /\ applying' = [applying EXCEPT ![n] = @ \cup {c}]
        ELSE /\ votes' = IF p \in pending[n]
                         THEN [votes EXCEPT ![n] = recorded] ELSE votes
             /\ UNCHANGED <<pending, applied, sequence, applying>>

\* #recordVote: the vote counts only while its round is open.  With a quorum
\* of acceptors the round closes and the certificate goes to
\* #applyAndBroadcast, which stops where #applyCertificate throws.
recordVote(n, vote) ==
    LET p == vote.proposal
        recorded == votes[n] \cup {vote}
        c == [proposal |-> p, voters |-> Acceptors(recorded, p)]
    IN  \/ /\ p \notin pending[n]
           /\ UNCHANGED <<pending, votes, applied, sequence, applying>>
        \/ /\ p \in pending[n]
           /\ ~ verifyCertificate(c)
           /\ votes' = [votes EXCEPT ![n] = recorded]
           /\ UNCHANGED <<pending, applied, sequence, applying>>
        \/ /\ p \in pending[n]
           /\ verifyCertificate(c)
           /\ pending' = [pending EXCEPT ![n] = @ \ {p}]
           /\ votes' = [votes EXCEPT ![n] = WithoutRound(@, p)]
           /\ applyCertificate(n, c)
           /\ applying' = IF Fresh(n, c) \/ p.cmd \in committed(n)
                          THEN [applying EXCEPT ![n] = @ \cup {c}]
                          ELSE applying

\* Who has voted for view v, in a set of view changes.
Supporters(recorded, v) ==
    {vote.voter : vote \in {w \in recorded : w.toView = v}}

\* Fault: f + 1 votes move the view.
recordViewChangeOnWeakQuorum(state, vote) ==
    LET recorded == state.recorded \cup {vote}
    IN  IF vote.toView <= state.view THEN state
        ELSE IF Cardinality(Supporters(recorded, vote.toView)) > f
        THEN [view |-> vote.toView,
              recorded |-> {w \in recorded : w.toView > vote.toView}]
        ELSE [state EXCEPT !.recorded = recorded]

\* #recordViewChange, from a member's view and recorded votes to the next: a
\* target that is not ahead is refused, a quorum moves the view and forgets
\* the targets it has passed.
recordViewChange(state, vote) ==
    LET recorded == state.recorded \cup {vote}
    IN  IF vote.toView <= state.view THEN state
        ELSE IF Cardinality(Supporters(recorded, vote.toView)) >= quorum
        THEN [view |-> vote.toView,
              recorded |-> {w \in recorded : w.toView > vote.toView}]
        ELSE [state EXCEPT !.recorded = recorded]

ViewState(n) == [view |-> view[n], recorded |-> viewVotes[n]]

SetViewState(n, state) ==
    /\ view' = [view EXCEPT ![n] = state.view]
    /\ viewVotes' = [viewVotes EXCEPT ![n] = state.recorded]

-----------------------------------------------------------------------------
(* Commands *)

\* Fault: the proposal takes the number of the last commit.
ProposeAtCurrent(n) ==
    /\ n = leader(view[n])
    /\ \E cmd \in Command \ {p.cmd : p \in proposed} :
         LET p == [view |-> view[n], seq |-> sequence[n], cmd |-> cmd]
         IN  /\ proposed' = proposed \cup {p}
             /\ pending' = [pending EXCEPT ![n] = @ \cup {p}]
             /\ validating' = [validating EXCEPT ![n] = @ \cup {p}]
    /\ UNCHANGED <<faults, running, view, sequence, applied, votes,
                   viewVotes, applying, network>>

\* propose, up to the await of the proposer's own validation.  The timer of
\* the round starts here, so a round may time out before it is broadcast.
Propose(n) ==
    /\ n = leader(view[n])
    /\ \E cmd \in Command \ {p.cmd : p \in proposed} :
         LET p == [view |-> view[n], seq |-> sequence[n] + 1, cmd |-> cmd]
         IN  /\ proposed' = proposed \cup {p}
             /\ pending' = [pending EXCEPT ![n] = @ \cup {p}]
             /\ validating' = [validating EXCEPT ![n] = @ \cup {p}]
    /\ UNCHANGED <<faults, running, view, sequence, applied, votes,
                   viewVotes, applying, network>>

\* propose, after the await: the own vote is recorded, the proposal sent.
FinishPropose(n, p) ==
    /\ p \in validating[n]
    /\ n = leader(p.view)
    /\ validating' = [validating EXCEPT ![n] = @ \ {p}]
    /\ \E accept \in Verdict :
         LET own == [proposal |-> p, voter |-> n, accept |-> accept]
         IN  /\ recordVote(n, own)
             /\ voteMsgs' = voteMsgs \cup {own}
    /\ proposalMsgs' = proposalMsgs \cup ToPeers(n, p)
    /\ UNCHANGED <<faults, running, view, viewVotes, proposed, commitMsgs,
                   viewMsgs>>

\* #handleProposal, up to the await: view and sequence are compared here and
\* not again when the vote is cast.
HandleProposal(n, msg) ==
    /\ n \in running
    /\ msg \in proposalMsgs
    /\ msg.to = n
    /\ proposalMsgs' = proposalMsgs \ {msg}
    /\ IF msg.body.seq = sequence[n] + 1 /\ msg.body.view = view[n]
       THEN validating' = [validating EXCEPT ![n] = @ \cup {msg.body}]
       ELSE UNCHANGED validating
    /\ UNCHANGED <<faults, running, view, sequence, applied, pending, votes,
                   viewVotes, applying, proposed, voteMsgs, commitMsgs,
                   viewMsgs>>

\* #handleProposal, after the await: the vote goes to the proposer.
CastVote(n, p) ==
    /\ p \in validating[n]
    /\ n # leader(p.view)
    /\ validating' = [validating EXCEPT ![n] = @ \ {p}]
    /\ \E accept \in Verdict :
         voteMsgs' = voteMsgs \cup
                       {[proposal |-> p, voter |-> n, accept |-> accept]}
    /\ UNCHANGED <<faults, running, view, sequence, applied, pending, votes,
                   viewVotes, applying, proposed, proposalMsgs, commitMsgs,
                   viewMsgs>>

\* bft.vote at the proposer.  A vote stays in voteMsgs: recording it again
\* changes nothing while the round is open, and nothing when it is closed.
ReceiveVote(n, vote) ==
    /\ n \in running
    /\ vote \in voteMsgs
    /\ n = leader(vote.proposal.view)
    /\ n # vote.voter
    /\ recordVote(n, vote)
    /\ UNCHANGED <<faults, running, view, viewVotes, validating, proposed,
                   network>>

\* #applyAndBroadcast, after applyCommit returned: the certificate is sent.
BroadcastCommit(n, c) ==
    /\ c \in applying[n]
    /\ applying' = [applying EXCEPT ![n] = @ \ {c}]
    /\ commitMsgs' = commitMsgs \cup ToPeers(n, c)
    /\ UNCHANGED <<faults, running, view, sequence, applied, pending, votes,
                   viewVotes, validating, proposed, proposalMsgs, voteMsgs,
                   viewMsgs>>

\* applyCommit threw at the proposer: the sequence has advanced and the
\* certificate is sent to nobody.
ApplyThrows(n, c) ==
    /\ "applyThrows" \in faults
    /\ c \in applying[n]
    /\ applying' = [applying EXCEPT ![n] = @ \ {c}]
    /\ UNCHANGED <<faults, running, view, sequence, applied, pending, votes,
                   viewVotes, validating, proposed, network>>

\* bft.commit at a member.
ReceiveCommit(n, msg) ==
    /\ n \in running
    /\ msg \in commitMsgs
    /\ msg.to = n
    /\ commitMsgs' = commitMsgs \ {msg}
    /\ applyCertificate(n, msg.body)
    /\ UNCHANGED <<faults, running, view, pending, votes, viewVotes,
                   validating, applying, proposed, proposalMsgs, voteMsgs,
                   viewMsgs>>

\* The timer of a round: the round is forgotten and propose rejects.
RoundTimeout(n, p) ==
    /\ "timeout" \in faults
    /\ p \in pending[n]
    /\ pending' = [pending EXCEPT ![n] = @ \ {p}]
    /\ votes' = [votes EXCEPT ![n] = WithoutRound(@, p)]
    /\ UNCHANGED <<faults, running, view, sequence, applied, viewVotes,
                   validating, applying, proposed, network>>

-----------------------------------------------------------------------------
(* View changes *)

\* requestViewChange: its target defaults to the next view, and may be any
\* later one.
RequestViewChange(n) ==
    /\ \E v \in View :
         LET vote == [toView |-> v, voter |-> n]
         IN  /\ v > view[n]
             /\ SetViewState(n, recordViewChange(ViewState(n), vote))
             /\ viewMsgs' = viewMsgs \cup {vote}
    /\ UNCHANGED <<faults, running, sequence, applied, pending, votes,
                   validating, applying, proposed, proposalMsgs, voteMsgs,
                   commitMsgs>>

\* Fault: the member sends a vote of its own and does not count it.
HandleViewChangeUncounted(n, vote) ==
    /\ n \in running
    /\ vote \in viewMsgs
    /\ vote.voter # n
    /\ vote.toView > view[n]
    /\ SetViewState(n, recordViewChange(ViewState(n), vote))
    /\ viewMsgs' = viewMsgs \cup {[toView |-> vote.toView, voter |-> n]}
    /\ UNCHANGED <<faults, running, sequence, applied, pending, votes,
                   validating, applying, proposed, proposalMsgs, voteMsgs,
                   commitMsgs>>

\* #handleViewChange: the vote is recorded, then the member joins with a vote
\* of its own.  When the first already moved the view, creating the second
\* throws and nothing is sent.  View changes stay in viewMsgs: every one that
\* is received makes its receiver send its own vote again.
HandleViewChange(n, vote) ==
    /\ n \in running
    /\ vote \in viewMsgs
    /\ vote.voter # n
    /\ vote.toView > view[n]
    /\ LET first == recordViewChange(ViewState(n), vote)
           own == [toView |-> vote.toView, voter |-> n]
       IN  IF first.view >= vote.toView
           THEN /\ SetViewState(n, first)
                /\ UNCHANGED viewMsgs
           ELSE /\ SetViewState(n, recordViewChange(first, own))
                /\ viewMsgs' = viewMsgs \cup {own}
    /\ UNCHANGED <<faults, running, sequence, applied, pending, votes,
                   validating, applying, proposed, proposalMsgs, voteMsgs,
                   commitMsgs>>

-----------------------------------------------------------------------------
(* Life of a member *)

\* start: subscribe the handler.
Start(n) ==
    /\ "stop" \in faults
    /\ n \notin running
    /\ running' = running \cup {n}
    /\ UNCHANGED <<faults, view, sequence, applied, pending, votes,
                   viewVotes, validating, applying, proposed, network>>

\* stop: unsubscribe and reject the open rounds.  Calls that are inside an
\* await go on: a vote, a proposal or a commit may still be sent.
Stop(n) ==
    /\ "stop" \in faults
    /\ n \in running
    /\ running' = running \ {n}
    /\ pending' = [pending EXCEPT ![n] = {}]
    /\ votes' = [votes EXCEPT ![n] = {}]
    /\ UNCHANGED <<faults, view, sequence, applied, viewVotes, validating,
                   applying, proposed, network>>

\* restore: the host moves a member forward to the position of another one,
\* whose state it obtained by means of its own.
Restore(n, m) ==
    /\ "restore" \in faults
    /\ sequence[n] <= sequence[m]
    /\ view[n] <= view[m]
    /\ sequence' = [sequence EXCEPT ![n] = sequence[m]]
    /\ view' = [view EXCEPT ![n] = view[m]]
    /\ UNCHANGED <<faults, running, applied, pending, votes, viewVotes,
                   validating, applying, proposed, network>>

\* The process of a member ends and a new one constructs the node: all of its
\* state is in memory, and a new node begins at view 0 and sequence 0.
Crash(n) ==
    /\ "crash" \in faults
    /\ view' = [view EXCEPT ![n] = 0]
    /\ sequence' = [sequence EXCEPT ![n] = 0]
    /\ applied' = [applied EXCEPT ![n] = {}]
    /\ pending' = [pending EXCEPT ![n] = {}]
    /\ votes' = [votes EXCEPT ![n] = {}]
    /\ viewVotes' = [viewVotes EXCEPT ![n] = {}]
    /\ validating' = [validating EXCEPT ![n] = {}]
    /\ applying' = [applying EXCEPT ![n] = {}]
    /\ UNCHANGED <<faults, running, proposed, network>>

-----------------------------------------------------------------------------

Next ==
    \/ \E n \in Node :
         \/ Propose(n)
         \/ RequestViewChange(n)
         \/ Start(n)
         \/ Stop(n)
         \/ Crash(n)
         \/ \E m \in Node : Restore(n, m)
         \/ \E p \in validating[n] : FinishPropose(n, p) \/ CastVote(n, p)
         \/ \E p \in pending[n] : RoundTimeout(n, p)
         \/ \E c \in applying[n] : BroadcastCommit(n, c) \/ ApplyThrows(n, c)
    \/ \E msg \in proposalMsgs : HandleProposal(msg.to, msg)
    \/ \E msg \in commitMsgs : ReceiveCommit(msg.to, msg)
    \/ \E vote \in voteMsgs : ReceiveVote(leader(vote.proposal.view), vote)
    \/ \E vote \in viewMsgs, n \in Node : HandleViewChange(n, vote)

Spec == Init /\ [][Next]_vars

\* Every handler that has been called runs to its end, and a message to a
\* running member arrives: the event loop and a TCP connection to a live peer.
\* Nothing obliges anyone to propose or to ask for a view change: both are
\* calls of the host.
Fairness ==
    /\ \A n \in Node :
         /\ WF_vars(\E p \in validating[n] : FinishPropose(n, p) \/ CastVote(n, p))
         /\ WF_vars(\E c \in applying[n] : BroadcastCommit(n, c))
         /\ WF_vars(\E msg \in proposalMsgs : HandleProposal(n, msg))
         /\ WF_vars(\E msg \in commitMsgs : ReceiveCommit(n, msg))
         /\ WF_vars(\E vote \in voteMsgs : ReceiveVote(n, vote))
         /\ \A other \in Node, v \in View :
              WF_vars(HandleViewChange(n, [toView |-> v, voter |-> other]))

FairSpec == Spec /\ Fairness

-----------------------------------------------------------------------------
(* Properties *)

TypeOK ==
    /\ faults \in FaultModels
    /\ running \subseteq Node
    /\ view \in [Node -> View]
    /\ sequence \in [Node -> Nat]
    /\ applied \in [Node -> SUBSET Proposal]
    /\ pending \in [Node -> SUBSET Proposal]
    /\ votes \in [Node -> SUBSET Vote]
    /\ viewVotes \in [Node -> SUBSET ViewChange]
    /\ validating \in [Node -> SUBSET Proposal]
    /\ applying \in [Node -> SUBSET Certificate]
    /\ proposed \subseteq Proposal
    /\ proposalMsgs \subseteq [to : Node, body : Proposal]
    /\ voteMsgs \subseteq Vote
    /\ commitMsgs \subseteq [to : Node, body : Certificate]
    /\ viewMsgs \subseteq ViewChange

\* Who has accepted a proposal.
Endorsers(p) == {n \in Node : [proposal |-> p, voter |-> n, accept |-> TRUE]
                                \in voteMsgs}

\* Within a view the committee applies one command per sequence number, at
\* whichever members and whenever they apply it.  Replicas do not remember
\* what they voted for, so nothing but the proposer's own sequence check
\* stands between two certified rounds for the same number; a proposer whose
\* process is replaced has forgotten its sequence.
SameViewAgreement ==
    "crash" \notin faults =>
        \A n, m \in Node : \A p \in applied[n], q \in applied[m] :
            p.view = q.view /\ p.seq = q.seq => p = q

\* A member applies at most one command per sequence number and none ahead of
\* its own position, through gaps, duplicates, view changes, restores and
\* crashes.
OncePerSequence ==
    \A n \in Node : \A p, q \in applied[n] :
        /\ p.seq <= sequence[n]
        /\ p.seq = q.seq => p = q

\* A replica applies nothing the proposer has not applied before it, so a
\* command the proposer refused or forgot never reaches a replica's graph.
ProposerFirst ==
    "crash" \notin faults =>
        \A n \in Node : \A p \in applied[n] : p \in applied[leader(p.view)]

\* A command is applied only when a quorum of members validated it and said
\* so, whoever timed out, rejected or restarted its round meanwhile.
AppliedByQuorum ==
    \A n \in Node : \A p \in applied[n] : Cardinality(Endorsers(p)) >= quorum

\* A view other than the first was asked for by a quorum of members before
\* any member moved to it.
ViewBackedByQuorum ==
    \A n \in Node :
        view[n] > 0 => Cardinality(Supporters(viewMsgs, view[n])) >= quorum

\* p is proposed, and sent to nobody yet, when every running member has
\* applied all that comes before it.
InTurn(p) ==
    /\ p \in validating[leader(p.view)]
    /\ \A m \in running : view[m] = p.view /\ sequence[m] + 1 = p.seq

\* When a command is proposed in its turn, its number is applied by every
\* running member, with this command or with one that was proposed at the same
\* time, whatever is proposed after it and overtakes it; unless somebody asks
\* for another view.  With f members down the others are enough.  Of a command
\* proposed while a commit is on its way nothing is said: its proposal or its
\* certificate may overtake that commit and is dropped then (see
\* CommitReachesRunning; src/v2/network-consensus.ts:206 and :247).
ProposalCommits ==
    \A k \in 1 .. Cardinality(Command) :
        (\E p \in proposed : p.seq = k /\ InTurn(p)) ~>
            \/ \A m \in running : \E q \in applied[m] : q.seq = k
            \/ viewMsgs # {}

\* When a member has moved to a view, every running member gets there.
ViewReachesRunning ==
    \A v \in View :
        (\E n \in Node : view[n] >= v) ~> (\A m \in running : view[m] >= v)

\* What docs/NETWORK_BFT.md says of commit safety: across views too a sequence
\* number stands for one command.  The code does not keep this.
Agreement ==
    \A n, m \in Node : \A p \in applied[n], q \in applied[m] :
        p.seq = q.seq => p = q

\* What docs/NETWORK_BFT.md says of members that were unavailable: a command
\* that one member has applied reaches every running member.  The code does
\* not keep this when two commits overtake one another.
CommitReachesRunning ==
    \A cmd \in Command :
        (\E n \in Node : cmd \in committed(n)) ~>
            (\A m \in running : cmd \in committed(m))
=============================================================================
