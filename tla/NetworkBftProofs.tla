-------------------------- MODULE NetworkBftProofs --------------------------
(* Safety of NetworkBft for every committee, every number of views and      *)
(* commands and every combination of faults.                                *)
EXTENDS NetworkBft, FiniteSetTheorems, TLAPS

(* The leader of a view is a member. *)
LEMMA LeaderInNode ==
    ASSUME NEW v \in Nat
    PROVE  leader(v) \in Node
<1> DEFINE size == Cardinality(Node)
<1>1. size \in Nat /\ size >= 4
  BY CommitteeAssumption, FS_CardinalityType
<1>2. v % size \in 0 .. size - 1
  BY <1>1, Z3
<1>3. Order \in [0 .. size - 1 -> Node]
  BY CommitteeAssumption
<1> QED
  BY <1>2, <1>3 DEF leader

(* What recordVote leaves behind has the types of the variables it sets. *)
LEMMA RecordVoteType ==
    ASSUME TypeOK, NEW n \in Node, NEW vote \in Vote, recordVote(n, vote)
    PROVE  /\ applied' \in [Node -> SUBSET Proposal]
           /\ sequence' \in [Node -> Nat]
           /\ pending' \in [Node -> SUBSET Proposal]
           /\ votes' \in [Node -> SUBSET Vote]
           /\ applying' \in [Node -> SUBSET Certificate]
<1> DEFINE c == [proposal |-> vote.proposal,
                 voters |-> Acceptors(votes[n] \cup {vote}, vote.proposal)]
<1>1. vote.proposal \in Proposal /\ vote.proposal.seq \in Nat
  BY DEF Vote, Proposal
<1>2. c \in Certificate
  BY <1>1 DEF TypeOK, Vote, Certificate, Acceptors
<1>3. c.proposal = vote.proposal
  OBVIOUS
<1>4. UNCHANGED <<applied, sequence>> \/ applyCertificate(n, c)
  BY DEF recordVote
<1>5. applied' \in [Node -> SUBSET Proposal] /\ sequence' \in [Node -> Nat]
  <2> HIDE DEF c
  <2>1. CASE UNCHANGED <<applied, sequence>>
    BY <2>1 DEF TypeOK
  <2>2. CASE applyCertificate(n, c)
    BY <2>2, <1>1, <1>3 DEF TypeOK, applyCertificate
  <2> QED BY <1>4, <2>1, <2>2
<1>6. pending' \in [Node -> SUBSET Proposal]
  BY DEF recordVote, TypeOK
<1>7. votes' \in [Node -> SUBSET Vote]
  BY DEF recordVote, TypeOK, WithoutRound
<1>8. applying' \in [Node -> SUBSET Certificate]
  <2>1. applying' = applying \/ applying' = [applying EXCEPT ![n] = @ \cup {c}]
    BY DEF recordVote
  <2> HIDE DEF c
  <2> QED BY <2>1, <1>2 DEF TypeOK
<1> QED BY <1>5, <1>6, <1>7, <1>8

(* The view state that recordViewChange returns has the right types. *)
LEMMA RecordViewChangeType ==
    ASSUME NEW state \in [view : View, recorded : SUBSET ViewChange],
           NEW vote \in ViewChange
    PROVE  recordViewChange(state, vote)
             \in [view : View, recorded : SUBSET ViewChange]
BY DEF recordViewChange, ViewChange

(* TypeOK: the variables keep their types. *)
THEOREM TypeCorrect == Spec => []TypeOK
<1>1. Init => TypeOK
  BY CommitteeAssumption DEF Init, TypeOK, View
<1>2. TypeOK /\ [Next]_vars => TypeOK'
  <2> SUFFICES ASSUME TypeOK, [Next]_vars PROVE TypeOK'
    OBVIOUS
  <2> USE DEF TypeOK, network
  <2>1. ASSUME NEW n \in Node, Propose(n) PROVE TypeOK'
    BY <2>1 DEF Propose, Proposal
  <2>2. ASSUME NEW n \in Node, NEW p \in validating[n], FinishPropose(n, p)
        PROVE TypeOK'
    <3>1. PICK accept \in BOOLEAN :
             /\ recordVote(n, [proposal |-> p, voter |-> n, accept |-> accept])
             /\ voteMsgs' = voteMsgs \cup
                    {[proposal |-> p, voter |-> n, accept |-> accept]}
      BY <2>2 DEF FinishPropose, Verdict
    <3>2. [proposal |-> p, voter |-> n, accept |-> accept] \in Vote
      BY DEF Vote
    <3>3. /\ applied' \in [Node -> SUBSET Proposal]
          /\ sequence' \in [Node -> Nat]
          /\ pending' \in [Node -> SUBSET Proposal]
          /\ votes' \in [Node -> SUBSET Vote]
          /\ applying' \in [Node -> SUBSET Certificate]
      BY <3>1, <3>2, RecordVoteType
    <3>4. ToPeers(n, p) \subseteq [to : Node, body : Proposal]
      BY DEF ToPeers
    <3> QED BY <2>2, <3>1, <3>2, <3>3, <3>4 DEF FinishPropose
  <2>3. ASSUME NEW msg \in proposalMsgs, HandleProposal(msg.to, msg)
        PROVE TypeOK'
    BY <2>3 DEF HandleProposal
  <2>4. ASSUME NEW n \in Node, NEW p \in validating[n], CastVote(n, p)
        PROVE TypeOK'
    <3>1. PICK accept \in BOOLEAN :
             voteMsgs' = voteMsgs \cup
                    {[proposal |-> p, voter |-> n, accept |-> accept]}
      BY <2>4 DEF CastVote, Verdict
    <3>2. [proposal |-> p, voter |-> n, accept |-> accept] \in Vote
      BY DEF Vote
    <3> QED BY <2>4, <3>1, <3>2 DEF CastVote
  <2>5. ASSUME NEW vote \in voteMsgs,
               ReceiveVote(leader(vote.proposal.view), vote)
        PROVE TypeOK'
    <3> DEFINE n == leader(vote.proposal.view)
    <3>1. n \in Node
      BY LeaderInNode DEF Vote, Proposal, View
    <3>2. recordVote(n, vote)
      BY <2>5 DEF ReceiveVote
    <3>3. /\ applied' \in [Node -> SUBSET Proposal]
          /\ sequence' \in [Node -> Nat]
          /\ pending' \in [Node -> SUBSET Proposal]
          /\ votes' \in [Node -> SUBSET Vote]
          /\ applying' \in [Node -> SUBSET Certificate]
      <4> HIDE DEF n
      <4> QED BY <3>1, <3>2, RecordVoteType
    <3> QED BY <2>5, <3>3 DEF ReceiveVote
  <2>6. ASSUME NEW n \in Node, NEW c \in applying[n], BroadcastCommit(n, c)
        PROVE TypeOK'
    <3>1. ToPeers(n, c) \subseteq [to : Node, body : Certificate]
      BY DEF ToPeers
    <3> QED BY <2>6, <3>1 DEF BroadcastCommit
  <2>7. ASSUME NEW n \in Node, NEW c \in applying[n], ApplyThrows(n, c)
        PROVE TypeOK'
    BY <2>7 DEF ApplyThrows
  <2>8. ASSUME NEW msg \in commitMsgs, ReceiveCommit(msg.to, msg)
        PROVE TypeOK'
    <3>1. msg.to \in Node /\ msg.body.proposal \in Proposal
      BY DEF Certificate
    <3>2. msg.body.proposal.seq \in Nat
      BY <3>1 DEF Proposal
    <3>3. applied' \in [Node -> SUBSET Proposal] /\ sequence' \in [Node -> Nat]
      BY <2>8, <3>1, <3>2 DEF ReceiveCommit, applyCertificate
    <3> QED BY <2>8, <3>3 DEF ReceiveCommit
  <2>9. ASSUME NEW n \in Node, NEW p \in pending[n], RoundTimeout(n, p)
        PROVE TypeOK'
    BY <2>9 DEF RoundTimeout, WithoutRound
  <2>10. ASSUME NEW n \in Node, RequestViewChange(n) PROVE TypeOK'
    <3>1. PICK v \in View :
             /\ SetViewState(n, recordViewChange(ViewState(n),
                                                 [toView |-> v, voter |-> n]))
             /\ viewMsgs' = viewMsgs \cup {[toView |-> v, voter |-> n]}
      BY <2>10 DEF RequestViewChange
    <3>2. [toView |-> v, voter |-> n] \in ViewChange
      BY DEF ViewChange
    <3>3. ViewState(n) \in [view : View, recorded : SUBSET ViewChange]
      BY DEF ViewState
    <3>4. recordViewChange(ViewState(n), [toView |-> v, voter |-> n])
            \in [view : View, recorded : SUBSET ViewChange]
      BY <3>2, <3>3, RecordViewChangeType
    <3> QED BY <2>10, <3>1, <3>2, <3>4 DEF RequestViewChange, SetViewState
  <2>11. ASSUME NEW vote \in viewMsgs, NEW n \in Node, HandleViewChange(n, vote)
         PROVE TypeOK'
    <3> DEFINE own == [toView |-> vote.toView, voter |-> n]
               first == recordViewChange(ViewState(n), vote)
               second == recordViewChange(first, own)
    <3>1. vote \in ViewChange /\ own \in ViewChange
      BY DEF ViewChange
    <3>2. ViewState(n) \in [view : View, recorded : SUBSET ViewChange]
      BY DEF ViewState
    <3>3. first \in [view : View, recorded : SUBSET ViewChange]
      BY <3>1, <3>2, RecordViewChangeType
    <3>4. second \in [view : View, recorded : SUBSET ViewChange]
      <4> HIDE DEF first, own
      <4> QED BY <3>1, <3>3, RecordViewChangeType
    <3>5. \/ SetViewState(n, first) /\ UNCHANGED viewMsgs
          \/ SetViewState(n, second) /\ viewMsgs' = viewMsgs \cup {own}
      BY <2>11 DEF HandleViewChange
    <3> HIDE DEF first, second, own
    <3> QED BY <2>11, <3>1, <3>3, <3>4, <3>5 DEF HandleViewChange, SetViewState
  <2>12. ASSUME NEW n \in Node, Start(n) \/ Stop(n) PROVE TypeOK'
    BY <2>12 DEF Start, Stop
  <2>13. ASSUME NEW n \in Node, NEW m \in Node, Restore(n, m) PROVE TypeOK'
    BY <2>13 DEF Restore
  <2>14. ASSUME NEW n \in Node, Crash(n) PROVE TypeOK'
    BY <2>14, CommitteeAssumption DEF Crash, View
  <2>15. CASE UNCHANGED vars
    BY <2>15 DEF vars
  <2> QED
    BY <2>1, <2>2, <2>3, <2>4, <2>5, <2>6, <2>7, <2>8, <2>9, <2>10, <2>11,
       <2>12, <2>13, <2>14, <2>15 DEF Next
<1> QED BY <1>1, <1>2, PTL DEF Spec

-----------------------------------------------------------------------------
(* One command per sequence number at a member *)

(* The certificate a vote may complete. *)
Completed(n, vote) ==
    [proposal |-> vote.proposal,
     voters |-> Acceptors(votes[n] \cup {vote}, vote.proposal)]

LEMMA CompletedType ==
    ASSUME TypeOK, NEW n \in Node, NEW vote \in Vote
    PROVE  /\ Completed(n, vote) \in Certificate
           /\ Completed(n, vote).proposal = vote.proposal
BY DEF TypeOK, Completed, Acceptors, Vote, Certificate

(* recordVote applies at most the certificate its vote completes. *)
LEMMA RecordVoteApplies ==
    ASSUME NEW n \in Node, NEW vote, recordVote(n, vote)
    PROVE  UNCHANGED <<applied, sequence>>
             \/ applyCertificate(n, Completed(n, vote))
BY DEF recordVote, Completed

(* Applying a certificate adds one command at the next number. *)
LEMMA ApplyKeepsOncePerSequence ==
    ASSUME TypeOK, OncePerSequence, NEW n \in Node, NEW c \in Certificate,
           applyCertificate(n, c)
    PROVE  OncePerSequence'
<1>1. c.proposal \in Proposal /\ c.proposal.seq \in Nat
  BY DEF Certificate, Proposal
<1>2. \A m \in Node : sequence[m] \in Nat /\ \A p \in applied[m] : p.seq \in Nat
  BY DEF TypeOK, Proposal
<1>3. CASE Fresh(n, c)
  <2>1. /\ applied' = [applied EXCEPT ![n] = @ \cup {c.proposal}]
        /\ sequence' = [sequence EXCEPT ![n] = c.proposal.seq]
        /\ c.proposal.seq = sequence[n] + 1
    BY <1>3 DEF applyCertificate, Fresh
  <2> SUFFICES ASSUME NEW m \in Node, NEW p \in applied'[m], NEW q \in applied'[m]
               PROVE  /\ p.seq <= sequence'[m]
                      /\ p.seq = q.seq => p = q
    BY DEF OncePerSequence
  <2>2. CASE m # n
    BY <2>1, <2>2 DEF OncePerSequence, TypeOK
  <2>3. CASE m = n
    <3>1. /\ p \in applied[n] \/ p = c.proposal
          /\ q \in applied[n] \/ q = c.proposal
          /\ sequence'[n] = c.proposal.seq
      BY <2>1, <2>3 DEF TypeOK
    <3>2. \A r \in applied[n] : r.seq <= sequence[n]
      BY DEF OncePerSequence
    <3>3. p.seq <= sequence'[n]
      BY <1>1, <1>2, <2>1, <3>1, <3>2
    <3>4. p.seq = q.seq => p = q
      BY <1>1, <1>2, <2>1, <3>1, <3>2 DEF OncePerSequence
    <3> QED BY <2>3, <3>3, <3>4
  <2> QED BY <2>2, <2>3
<1>4. CASE ~ Fresh(n, c)
  BY <1>4 DEF applyCertificate, OncePerSequence
<1> QED BY <1>3, <1>4

(* OncePerSequence: a member applies at most one command per number, and     *)
(* none ahead of its position, whatever it times out, loses or restores.     *)
THEOREM OneCommandPerNumber == Spec => []OncePerSequence
<1>1. Init => OncePerSequence
  BY DEF Init, OncePerSequence
<1>2. TypeOK /\ OncePerSequence /\ [Next]_vars => OncePerSequence'
  <2> SUFFICES ASSUME TypeOK, OncePerSequence, [Next]_vars
               PROVE  OncePerSequence'
    OBVIOUS
  <2>0. ASSUME UNCHANGED <<applied, sequence>> PROVE OncePerSequence'
    BY <2>0 DEF OncePerSequence
  <2>1. ASSUME NEW n \in Node, NEW p \in validating[n], FinishPropose(n, p)
        PROVE OncePerSequence'
    <3>1. PICK accept \in BOOLEAN :
             recordVote(n, [proposal |-> p, voter |-> n, accept |-> accept])
      BY <2>1 DEF FinishPropose, Verdict
    <3> DEFINE vote == [proposal |-> p, voter |-> n, accept |-> accept]
    <3>2. vote \in Vote
      BY DEF Vote, TypeOK
    <3>3. recordVote(n, vote)
      BY <3>1
    <3> HIDE DEF vote
    <3> QED BY <3>2, <3>3, <2>0, CompletedType, RecordVoteApplies,
               ApplyKeepsOncePerSequence
  <2>2. ASSUME NEW vote \in voteMsgs,
               ReceiveVote(leader(vote.proposal.view), vote)
        PROVE OncePerSequence'
    <3>1. vote \in Vote /\ leader(vote.proposal.view) \in Node
      BY LeaderInNode DEF TypeOK, Vote, Proposal, View
    <3> DEFINE n == leader(vote.proposal.view)
    <3>2. recordVote(n, vote) /\ n \in Node
      BY <2>2, <3>1 DEF ReceiveVote
    <3> HIDE DEF n
    <3> QED BY <3>1, <3>2, <2>0, CompletedType, RecordVoteApplies,
               ApplyKeepsOncePerSequence
  <2>3. ASSUME NEW msg \in commitMsgs, ReceiveCommit(msg.to, msg)
        PROVE OncePerSequence'
    <3>1. msg.to \in Node /\ msg.body \in Certificate
      BY DEF TypeOK
    <3>2. applyCertificate(msg.to, msg.body)
      BY <2>3 DEF ReceiveCommit
    <3> QED BY <3>1, <3>2, ApplyKeepsOncePerSequence
  <2>4. ASSUME NEW n \in Node, NEW m \in Node, Restore(n, m)
        PROVE OncePerSequence'
    <3>1. /\ applied' = applied
          /\ sequence' = [sequence EXCEPT ![n] = sequence[m]]
          /\ sequence[n] <= sequence[m]
      BY <2>4 DEF Restore
    <3>2. \A k \in Node : sequence[k] \in Nat /\ sequence[k] <= sequence'[k]
                            /\ sequence'[k] \in Nat
      BY <3>1 DEF TypeOK
    <3>3. \A k \in Node : \A p \in applied[k] : p.seq \in Nat
      BY DEF TypeOK, Proposal
    <3> QED BY <3>1, <3>2, <3>3 DEF OncePerSequence
  <2>5. ASSUME NEW n \in Node, Crash(n) PROVE OncePerSequence'
    <3>1. /\ applied' = [applied EXCEPT ![n] = {}]
          /\ sequence' = [sequence EXCEPT ![n] = 0]
      BY <2>5 DEF Crash
    <3> QED BY <3>1 DEF OncePerSequence, TypeOK
  <2>6. ASSUME NEW n \in Node,
               \/ Propose(n) \/ RequestViewChange(n) \/ Start(n) \/ Stop(n)
               \/ \E p \in validating[n] : CastVote(n, p)
               \/ \E p \in pending[n] : RoundTimeout(n, p)
               \/ \E c \in applying[n] : BroadcastCommit(n, c) \/ ApplyThrows(n, c)
               \/ \E msg \in proposalMsgs : HandleProposal(msg.to, msg)
               \/ \E vote \in viewMsgs : HandleViewChange(n, vote)
        PROVE OncePerSequence'
    <3>1. UNCHANGED <<applied, sequence>>
      BY <2>6 DEF Propose, RequestViewChange, Start, Stop, CastVote,
         RoundTimeout, BroadcastCommit, ApplyThrows, HandleProposal,
         HandleViewChange
    <3> QED BY <2>0, <3>1
  <2>7. CASE UNCHANGED vars
    BY <2>0, <2>7 DEF vars
  <2> QED
    BY <2>1, <2>2, <2>3, <2>4, <2>5, <2>6, <2>7 DEF Next, TypeOK
<1> QED BY <1>1, <1>2, TypeCorrect, PTL DEF Spec

-----------------------------------------------------------------------------
(* One command per sequence number in a view *)

\* Every proposal that is in use was created by a propose.
Traced ==
    /\ \A n \in Node :
         /\ applied[n] \subseteq proposed
         /\ pending[n] \subseteq proposed
         /\ validating[n] \subseteq proposed
         /\ \A c \in applying[n] : c.proposal \in proposed
    /\ \A msg \in proposalMsgs : msg.body \in proposed
    /\ \A msg \in commitMsgs : msg.body.proposal \in proposed

\* Two proposals never carry the same command.
UniqueCommand == \A p, q \in proposed : p.cmd = q.cmd => p = q

\* A round is open at the proposer only.
OwnRounds == \A n \in Node : \A p \in pending[n] : n = leader(p.view)

\* A certificate on its way has been applied by its proposer.
CertifiedAtProposer ==
    /\ \A n \in Node : \A c \in applying[n] :
         c.proposal \in applied[leader(c.proposal.view)]
    /\ \A msg \in commitMsgs :
         msg.body.proposal \in applied[leader(msg.body.proposal.view)]

\* What a member has applied, its proposer has.
AppliedByProposer ==
    \A n \in Node : \A p \in applied[n] : p \in applied[leader(p.view)]

ProposerInv ==
    /\ TypeOK
    /\ Traced
    /\ UniqueCommand
    /\ OwnRounds
    /\ CertifiedAtProposer
    /\ AppliedByProposer

\* What the invariant needs of a step that neither creates nor loses anything.
LEMMA ProposerInvFrame ==
    ASSUME ProposerInv, TypeOK',
           UNCHANGED proposed,
           \A n \in Node : /\ applied'[n] = applied[n]
                           /\ pending'[n] \subseteq pending[n]
                           /\ validating'[n] \subseteq proposed
                           /\ \A c \in applying'[n] : c \in applying[n],
           \A msg \in proposalMsgs' : msg.body \in proposed,
           \A msg \in commitMsgs' :
               msg \in commitMsgs \/ \E n \in Node : msg.body \in applying[n]
    PROVE  ProposerInv'
<1>1. \A p \in Proposal : leader(p.view) \in Node
  BY LeaderInNode DEF Proposal, View
<1>2. Traced'
  BY DEF ProposerInv, Traced
<1>3. UniqueCommand' /\ OwnRounds'
  BY DEF ProposerInv, UniqueCommand, OwnRounds
<1>4. \A n \in Node : \A c \in applying[n] : c.proposal \in Proposal
  BY DEF ProposerInv, TypeOK, Certificate
<1>5. \A msg \in commitMsgs : msg.body.proposal \in Proposal
  BY DEF ProposerInv, TypeOK, Certificate
<1>6. CertifiedAtProposer'
  <2>1. ASSUME NEW n \in Node, NEW c \in applying'[n]
        PROVE  c.proposal \in applied'[leader(c.proposal.view)]
    BY <2>1, <1>1, <1>4 DEF ProposerInv, CertifiedAtProposer
  <2>2. ASSUME NEW msg \in commitMsgs'
        PROVE  msg.body.proposal \in applied'[leader(msg.body.proposal.view)]
    <3>1. msg.body.proposal \in Proposal
            /\ msg.body.proposal \in applied[leader(msg.body.proposal.view)]
      BY <2>2, <1>4, <1>5 DEF ProposerInv, CertifiedAtProposer
    <3> QED BY <3>1, <1>1
  <2> QED BY <2>1, <2>2 DEF CertifiedAtProposer
<1>7. AppliedByProposer'
  <2>1. \A n \in Node : applied[n] \subseteq Proposal
    BY DEF ProposerInv, TypeOK
  <2> QED BY <2>1, <1>1 DEF ProposerInv, AppliedByProposer
<1> QED BY <1>2, <1>3, <1>6, <1>7 DEF ProposerInv

\* A step in which member k applies cert opens no round, starts no validation
\* and broadcasts cert only if k is its proposer and has applied it.
AppliesOnly(k, cert) ==
    \A n \in Node :
        /\ pending'[n] \subseteq pending[n]
        /\ validating'[n] \subseteq validating[n]
        /\ \A c \in applying'[n] :
             \/ c \in applying[n]
             \/ /\ c = cert
                /\ cert.proposal \in applied'[k]
                /\ k = leader(cert.proposal.view)

\* The proposer may apply a command of its own, a member one that the proposer
\* has applied: nothing else changes what the invariant speaks of, except that
\* the proposer's certificate joins the ones being applied.
LEMMA ProposerInvApply ==
    ASSUME ProposerInv, TypeOK', UNCHANGED proposed,
           NEW k \in Node, NEW cert \in Certificate,
           cert.proposal \in proposed,
           k = leader(cert.proposal.view)
             \/ cert.proposal \in applied[leader(cert.proposal.view)],
           applyCertificate(k, cert),
           AppliesOnly(k, cert),
           \A msg \in proposalMsgs' : msg.body \in proposed,
           commitMsgs' \subseteq commitMsgs
    PROVE  ProposerInv'
<1>1. \A p \in Proposal : leader(p.view) \in Node
  BY LeaderInNode DEF Proposal, View
<1>2. \A n \in Node : /\ applied[n] \subseteq applied'[n]
                      /\ applied'[n] \subseteq applied[n] \cup {cert.proposal}
                      /\ n # k => applied'[n] = applied[n]
  BY DEF applyCertificate, ProposerInv, TypeOK
<1>3. Traced'
  BY <1>2 DEF ProposerInv, Traced, AppliesOnly
<1>4. UniqueCommand' /\ OwnRounds'
  BY DEF ProposerInv, UniqueCommand, OwnRounds, AppliesOnly
<1>5. CertifiedAtProposer'
  <2>1. ASSUME NEW n \in Node, NEW c \in applying'[n]
        PROVE  c.proposal \in applied'[leader(c.proposal.view)]
    <3>1. c.proposal \in Proposal
      BY <2>1 DEF TypeOK, Certificate
    <3>2. c \in applying[n] => c.proposal \in applied[leader(c.proposal.view)]
      BY DEF ProposerInv, CertifiedAtProposer
    <3> QED BY <2>1, <3>1, <3>2, <1>1, <1>2 DEF AppliesOnly
  <2>2. ASSUME NEW msg \in commitMsgs'
        PROVE  msg.body.proposal \in applied'[leader(msg.body.proposal.view)]
    <3>1. msg \in commitMsgs /\ msg.body.proposal \in Proposal
      BY <2>2 DEF ProposerInv, TypeOK, Certificate
    <3>2. msg.body.proposal \in applied[leader(msg.body.proposal.view)]
      BY <3>1 DEF ProposerInv, CertifiedAtProposer
    <3> QED BY <3>1, <3>2, <1>1, <1>2
  <2> QED BY <2>1, <2>2 DEF CertifiedAtProposer
<1>6. AppliedByProposer'
  <2> SUFFICES ASSUME NEW n \in Node, NEW p \in applied'[n]
               PROVE  p \in applied'[leader(p.view)]
    BY DEF AppliedByProposer
  <2>1. p \in Proposal
    BY DEF TypeOK
  <2>2. CASE p \in applied[n]
    BY <2>1, <2>2, <1>1, <1>2 DEF ProposerInv, AppliedByProposer
  <2>3. CASE p \notin applied[n]
    BY <2>1, <2>3, <1>1, <1>2
  <2> QED BY <2>2, <2>3
<1> QED BY <1>3, <1>4, <1>5, <1>6 DEF ProposerInv

\* Recording a vote at the proposer keeps the invariant.
LEMMA ProposerInvVote ==
    ASSUME ProposerInv, TypeOK', UNCHANGED proposed,
           NEW n \in Node, NEW vote \in Vote,
           recordVote(n, vote),
           \A m \in Node : validating'[m] \subseteq validating[m],
           \A msg \in proposalMsgs' : msg.body \in proposed,
           commitMsgs' \subseteq commitMsgs
    PROVE  ProposerInv'
<1> DEFINE p == vote.proposal
           c == Completed(n, vote)
<1>1. c \in Certificate /\ c.proposal = p
  BY CompletedType DEF ProposerInv
<1>2. \/ UNCHANGED <<applied, applying, pending>>
      \/ /\ p \in pending[n]
         /\ pending' = [pending EXCEPT ![n] = @ \ {p}]
         /\ applyCertificate(n, c)
         /\ applying' = IF Fresh(n, c) \/ p.cmd \in committed(n)
                        THEN [applying EXCEPT ![n] = @ \cup {c}]
                        ELSE applying
  BY DEF recordVote, Completed
<1> HIDE DEF c
<1>3. CASE UNCHANGED <<applied, applying, pending>>
  BY <1>3, ProposerInvFrame DEF ProposerInv, Traced
<1>4. CASE /\ p \in pending[n]
           /\ pending' = [pending EXCEPT ![n] = @ \ {p}]
           /\ applyCertificate(n, c)
           /\ applying' = IF Fresh(n, c) \/ p.cmd \in committed(n)
                          THEN [applying EXCEPT ![n] = @ \cup {c}]
                          ELSE applying
  <2>1. p \in proposed /\ n = leader(p.view)
    BY <1>4 DEF ProposerInv, Traced, OwnRounds
  <2>2. Fresh(n, c) => p \in applied'[n]
    BY <1>1, <1>4 DEF applyCertificate, ProposerInv, TypeOK
  <2>3. p.cmd \in committed(n) => p \in applied'[n]
    <3>1. SUFFICES ASSUME p.cmd \in committed(n) PROVE p \in applied[n]
      BY <1>4 DEF applyCertificate, ProposerInv, TypeOK
    <3>2. PICK q \in applied[n] : q.cmd = p.cmd
      BY <3>1 DEF committed
    <3>3. q \in proposed
      BY <3>2 DEF ProposerInv, Traced
    <3> QED BY <2>1, <3>2, <3>3 DEF ProposerInv, UniqueCommand
  <2>4. AppliesOnly(n, c)
    BY <1>1, <1>4, <2>1, <2>2, <2>3 DEF AppliesOnly, ProposerInv, TypeOK
  <2>5. /\ c.proposal \in proposed
        /\ n = leader(c.proposal.view)
        /\ applyCertificate(n, c)
        /\ c \in Certificate
    BY <1>1, <1>4, <2>1
  <2> HIDE DEF p
  <2> QED BY <2>4, <2>5, ProposerInvApply
<1> QED BY <1>2, <1>3, <1>4

\* The invariant is inductive as long as no member loses its memory.
LEMMA ProposerInvStep ==
    ASSUME "crash" \notin faults, ProposerInv, TypeOK', [Next]_vars
    PROVE  ProposerInv'
<1> USE DEF network
<1>0. /\ TypeOK
      /\ \A msg \in proposalMsgs : msg.body \in proposed
      /\ \A n \in Node : validating[n] \subseteq proposed
  BY DEF ProposerInv, Traced
<1>1. ASSUME NEW n \in Node, Propose(n) PROVE ProposerInv'
  <2>1. PICK cmd \in Command \ {p.cmd : p \in proposed} :
          LET p == [view |-> view[n], seq |-> sequence[n] + 1, cmd |-> cmd]
          IN  /\ proposed' = proposed \cup {p}
              /\ pending' = [pending EXCEPT ![n] = @ \cup {p}]
              /\ validating' = [validating EXCEPT ![n] = @ \cup {p}]
    BY <1>1 DEF Propose
  <2> DEFINE p == [view |-> view[n], seq |-> sequence[n] + 1, cmd |-> cmd]
  <2>2. /\ proposed' = proposed \cup {p}
        /\ pending' = [pending EXCEPT ![n] = @ \cup {p}]
        /\ validating' = [validating EXCEPT ![n] = @ \cup {p}]
        /\ p.cmd = cmd /\ p.view = view[n]
    BY <2>1
  <2>3. n = leader(p.view) /\ UNCHANGED <<applied, applying, network>>
    BY <1>1, <2>2 DEF Propose
  <2> HIDE DEF p
  <2>4. Traced'
    BY <1>0, <2>2, <2>3 DEF ProposerInv, Traced, TypeOK
  <2>5. UniqueCommand'
    BY <2>1, <2>2 DEF ProposerInv, UniqueCommand
  <2>6. OwnRounds'
    BY <1>0, <2>2, <2>3 DEF ProposerInv, OwnRounds, TypeOK
  <2>7. CertifiedAtProposer' /\ AppliedByProposer'
    BY <2>3 DEF ProposerInv, CertifiedAtProposer, AppliedByProposer
  <2> QED BY <2>4, <2>5, <2>6, <2>7 DEF ProposerInv
<1>2. ASSUME NEW n \in Node, NEW p \in validating[n], FinishPropose(n, p)
      PROVE  ProposerInv'
  <2>1. PICK accept \in BOOLEAN :
           recordVote(n, [proposal |-> p, voter |-> n, accept |-> accept])
    BY <1>2 DEF FinishPropose, Verdict
  <2> DEFINE vote == [proposal |-> p, voter |-> n, accept |-> accept]
  <2>2. vote \in Vote /\ recordVote(n, vote)
    BY <1>0, <2>1 DEF Vote, TypeOK
  <2> HIDE DEF vote
  <2>3. \A msg \in proposalMsgs' : msg.body \in proposed
    BY <1>0, <1>2 DEF FinishPropose, ToPeers
  <2>4. \A m \in Node : validating'[m] \subseteq validating[m]
    BY <1>0, <1>2 DEF FinishPropose, TypeOK
  <2>5. UNCHANGED <<proposed, commitMsgs>>
    BY <1>2 DEF FinishPropose
  <2> QED BY <2>2, <2>3, <2>4, <2>5, ProposerInvVote
<1>3. ASSUME NEW msg \in proposalMsgs, HandleProposal(msg.to, msg)
      PROVE  ProposerInv'
  BY <1>0, <1>3, ProposerInvFrame DEF HandleProposal, TypeOK
<1>4. ASSUME NEW n \in Node, NEW p \in validating[n], CastVote(n, p)
      PROVE  ProposerInv'
  BY <1>0, <1>4, ProposerInvFrame DEF CastVote, TypeOK
<1>5. ASSUME NEW vote \in voteMsgs,
             ReceiveVote(leader(vote.proposal.view), vote)
      PROVE  ProposerInv'
  <2>1. vote \in Vote /\ leader(vote.proposal.view) \in Node
    BY <1>0, LeaderInNode DEF TypeOK, Vote, Proposal, View
  <2> DEFINE n == leader(vote.proposal.view)
  <2>2. /\ recordVote(n, vote)
        /\ n \in Node
        /\ UNCHANGED <<proposed, validating, network>>
    BY <1>5, <2>1 DEF ReceiveVote
  <2> HIDE DEF n
  <2> QED BY <1>0, <2>1, <2>2, ProposerInvVote
<1>6. ASSUME NEW n \in Node, NEW c \in applying[n], BroadcastCommit(n, c)
      PROVE  ProposerInv'
  BY <1>0, <1>6, ProposerInvFrame DEF BroadcastCommit, ToPeers, TypeOK
<1>7. ASSUME NEW n \in Node, NEW c \in applying[n], ApplyThrows(n, c)
      PROVE  ProposerInv'
  BY <1>0, <1>7, ProposerInvFrame DEF ApplyThrows, TypeOK
<1>8. ASSUME NEW msg \in commitMsgs, ReceiveCommit(msg.to, msg)
      PROVE  ProposerInv'
  <2>1. msg.to \in Node /\ msg.body \in Certificate
    BY <1>0 DEF TypeOK
  <2>2. /\ msg.body.proposal \in applied[leader(msg.body.proposal.view)]
        /\ msg.body.proposal \in proposed
    BY DEF ProposerInv, CertifiedAtProposer, Traced
  <2>3. /\ applyCertificate(msg.to, msg.body)
        /\ commitMsgs' \subseteq commitMsgs
        /\ UNCHANGED <<proposed, pending, validating, applying, proposalMsgs>>
    BY <1>8 DEF ReceiveCommit
  <2>4. AppliesOnly(msg.to, msg.body)
    BY <2>3 DEF AppliesOnly
  <2>5. \A m \in proposalMsgs' : m.body \in proposed
    BY <1>0, <2>3
  <2> QED BY <2>1, <2>2, <2>3, <2>4, <2>5, ProposerInvApply
<1>9. ASSUME NEW n \in Node, NEW p \in pending[n], RoundTimeout(n, p)
      PROVE  ProposerInv'
  BY <1>0, <1>9, ProposerInvFrame DEF RoundTimeout, TypeOK
<1>10. ASSUME NEW n \in Node, Start(n) \/ Stop(n) PROVE ProposerInv'
  BY <1>0, <1>10, ProposerInvFrame DEF Start, Stop, TypeOK
<1>11. ASSUME NEW n \in Node,
              \/ RequestViewChange(n)
              \/ \E vote \in viewMsgs : HandleViewChange(n, vote)
              \/ \E m \in Node : Restore(n, m)
       PROVE  ProposerInv'
  <2>1. UNCHANGED <<applied, pending, validating, applying, proposed,
                    proposalMsgs, commitMsgs>>
    BY <1>11 DEF RequestViewChange, HandleViewChange, Restore
  <2> QED BY <1>0, <2>1, ProposerInvFrame
<1>12. CASE UNCHANGED vars
  BY <1>0, <1>12, ProposerInvFrame DEF vars
<1> QED
  BY <1>1, <1>2, <1>3, <1>4, <1>5, <1>6, <1>7, <1>8, <1>9, <1>10, <1>11, <1>12
  DEF Next, Crash

\* Faults are chosen for a whole behaviour.
LEMMA FaultsRigid ==
    ASSUME [Next]_vars
    PROVE  faults' = faults
BY DEF Next, vars, Propose, RequestViewChange, Start, Stop, Crash, Restore,
   FinishPropose, CastVote, RoundTimeout, BroadcastCommit, ApplyThrows,
   HandleProposal, ReceiveCommit, ReceiveVote, HandleViewChange

(* ProposerFirst: a replica applies what its proposer applied before it, and *)
(* nothing else, as long as no member restarts with an empty memory.         *)
THEOREM ProposerAppliesFirst == Spec => []ProposerFirst
<1> DEFINE Inv == "crash" \notin faults => ProposerInv
<1>1. Init => Inv
  <2>1. Init => TypeOK
    BY CommitteeAssumption DEF Init, TypeOK, View
  <2> QED
    BY <2>1 DEF Init, ProposerInv, Traced, UniqueCommand, OwnRounds,
       CertifiedAtProposer, AppliedByProposer
<1>2. Inv /\ TypeOK' /\ [Next]_vars => Inv'
  BY ProposerInvStep, FaultsRigid
<1>3. Inv => ProposerFirst
  BY DEF ProposerInv, AppliedByProposer, ProposerFirst
<1> HIDE DEF Inv
<1> QED BY <1>1, <1>2, <1>3, TypeCorrect, PTL DEF Spec

(* SameViewAgreement: in a view the committee applies one command per number *)
(* at whichever members.  Replicas vote for any number of proposals for the  *)
(* same number; what the agreement rests on is that a certificate reaches a  *)
(* replica only after its proposer applied it, and that the proposer, whose  *)
(* sequence only grows, applies one command per number.                      *)
THEOREM AgreementWithinView == Spec => []SameViewAgreement
<1>1. TypeOK /\ ProposerFirst /\ OncePerSequence => SameViewAgreement
  <2> SUFFICES ASSUME TypeOK, ProposerFirst, OncePerSequence,
                      "crash" \notin faults,
                      NEW n \in Node, NEW m \in Node,
                      NEW p \in applied[n], NEW q \in applied[m],
                      p.view = q.view, p.seq = q.seq
               PROVE  p = q
    BY DEF SameViewAgreement
  <2>1. p \in applied[leader(p.view)] /\ q \in applied[leader(p.view)]
    BY DEF ProposerFirst
  <2>2. leader(p.view) \in Node
    BY LeaderInNode DEF TypeOK, Proposal, View
  <2> QED BY <2>1, <2>2 DEF OncePerSequence
<1> QED BY <1>1, TypeCorrect, ProposerAppliesFirst, OneCommandPerNumber, PTL

-----------------------------------------------------------------------------
(* Quorums *)

\* Recorded votes were cast, and certificates name only members that accepted.
Genuine ==
    /\ \A n \in Node : votes[n] \subseteq voteMsgs
    /\ \A n \in Node : \A c \in applying[n] :
         c.voters \subseteq Endorsers(c.proposal)
    /\ \A msg \in commitMsgs :
         msg.body.voters \subseteq Endorsers(msg.body.proposal)

QuorumInv == TypeOK /\ Genuine /\ AppliedByQuorum

LEMMA EndorsersFinite ==
    ASSUME NEW p
    PROVE  IsFiniteSet(Endorsers(p)) /\ Cardinality(Endorsers(p)) \in Nat
<1>1. Endorsers(p) \subseteq Node
  BY DEF Endorsers
<1> QED BY <1>1, CommitteeAssumption, FS_Subset, FS_CardinalityType

(* Votes are never unsaid, so a proposal keeps the endorsers it has. *)
LEMMA EndorsersGrow ==
    ASSUME voteMsgs \subseteq voteMsgs', NEW p
    PROVE  /\ Endorsers(p) \subseteq Endorsers(p)'
           /\ Cardinality(Endorsers(p)) >= quorum
                => Cardinality(Endorsers(p)') >= quorum
<1>1. Endorsers(p) \subseteq Endorsers(p)' /\ Endorsers(p)' \subseteq Node
  BY DEF Endorsers
<1>2. IsFiniteSet(Endorsers(p)') /\ Cardinality(Endorsers(p)') \in Nat
  BY <1>1, CommitteeAssumption, FS_Subset, FS_CardinalityType
<1>3. Cardinality(Endorsers(p)) <= Cardinality(Endorsers(p)')
  BY <1>1, <1>2, FS_Subset
<1>4. quorum \in Nat
  BY CommitteeAssumption, FS_CardinalityType DEF quorum, f
<1> QED BY <1>1, <1>2, <1>3, <1>4, EndorsersFinite

(* A certificate of genuine votes may be applied. *)
LEMMA QuorumApply ==
    ASSUME QuorumInv, voteMsgs \subseteq voteMsgs',
           NEW n \in Node, NEW c \in Certificate,
           c.voters \subseteq Endorsers(c.proposal)',
           applyCertificate(n, c)
    PROVE  AppliedByQuorum'
<1> SUFFICES ASSUME NEW m \in Node, NEW p \in applied'[m]
             PROVE  Cardinality(Endorsers(p)') >= quorum
  BY DEF AppliedByQuorum, quorum, f
<1>1. p \in applied[m] \/ (Fresh(n, c) /\ p = c.proposal)
  <2>1. CASE Fresh(n, c)
    BY <2>1 DEF applyCertificate, QuorumInv, TypeOK
  <2>2. CASE ~ Fresh(n, c)
    BY <2>2 DEF applyCertificate
  <2> QED BY <2>1, <2>2
<1>2. CASE p \in applied[m]
  BY <1>2, EndorsersGrow DEF QuorumInv, AppliedByQuorum
<1>3. CASE Fresh(n, c) /\ p = c.proposal
  <2>1. Endorsers(p)' \subseteq Node
    BY DEF Endorsers
  <2>2. IsFiniteSet(Endorsers(p)') /\ Cardinality(Endorsers(p)') \in Nat
    BY <2>1, CommitteeAssumption, FS_Subset, FS_CardinalityType
  <2>3. Cardinality(c.voters) <= Cardinality(Endorsers(p)')
    BY <1>3, <2>2, FS_Subset
  <2>4. IsFiniteSet(c.voters) /\ Cardinality(c.voters) \in Nat
    BY <1>3, <2>2, FS_Subset, FS_CardinalityType
  <2>5. quorum \in Nat /\ Cardinality(c.voters) >= quorum
    BY <1>3, CommitteeAssumption, FS_CardinalityType
    DEF quorum, f, Fresh, verifyCertificate
  <2> QED BY <2>2, <2>3, <2>4, <2>5
<1> QED BY <1>1, <1>2, <1>3

(* A step that applies nothing and invents no certificate. *)
LEMMA QuorumFrame ==
    ASSUME QuorumInv, TypeOK', voteMsgs \subseteq voteMsgs',
           \A n \in Node : /\ applied'[n] \subseteq applied[n]
                           /\ votes'[n] \subseteq votes[n]
                           /\ applying'[n] \subseteq applying[n],
           \A msg \in commitMsgs' :
               msg \in commitMsgs \/ \E n \in Node : msg.body \in applying[n]
    PROVE  QuorumInv'
<1>1. \A n \in Node : votes'[n] \subseteq voteMsgs'
  BY DEF QuorumInv, Genuine
<1>2. ASSUME NEW n \in Node, NEW c \in applying[n]
      PROVE  c.voters \subseteq Endorsers(c.proposal)'
  <2>1. c.voters \subseteq Endorsers(c.proposal)
    BY <1>2 DEF QuorumInv, Genuine
  <2> QED BY <2>1, EndorsersGrow
<1>3. ASSUME NEW msg \in commitMsgs
      PROVE  msg.body.voters \subseteq Endorsers(msg.body.proposal)'
  <2>1. msg.body.voters \subseteq Endorsers(msg.body.proposal)
    BY <1>3 DEF QuorumInv, Genuine
  <2> QED BY <2>1, EndorsersGrow
<1>4. Genuine'
  BY <1>1, <1>2, <1>3 DEF Genuine
<1>5. ASSUME NEW n \in Node, NEW p \in applied'[n]
      PROVE  Cardinality(Endorsers(p)') >= quorum
  BY <1>5, EndorsersGrow DEF QuorumInv, AppliedByQuorum
<1>6. AppliedByQuorum'
  BY <1>5 DEF AppliedByQuorum, quorum, f
<1> QED BY <1>4, <1>6 DEF QuorumInv

(* Recording a vote that was cast. *)
LEMMA QuorumVote ==
    ASSUME QuorumInv, TypeOK', voteMsgs \subseteq voteMsgs',
           NEW n \in Node, NEW vote \in Vote, vote \in voteMsgs',
           recordVote(n, vote), commitMsgs' = commitMsgs
    PROVE  QuorumInv'
<1>1. PICK c \in Certificate :
         c = Completed(n, vote) /\ c.proposal = vote.proposal
  BY CompletedType DEF QuorumInv
<1>2. c.voters \subseteq Endorsers(c.proposal)'
  <2> SUFFICES ASSUME NEW m \in c.voters
               PROVE  m \in Endorsers(vote.proposal)'
    BY <1>1
  <2>1. PICK w \in votes[n] \cup {vote} :
           w.proposal = vote.proposal /\ w.accept /\ m = w.voter
    BY <1>1 DEF Completed, Acceptors
  <2>2. w \in Vote /\ w \in voteMsgs'
    BY <2>1 DEF QuorumInv, Genuine, TypeOK
  <2>3. w = [proposal |-> w.proposal, voter |-> w.voter, accept |-> w.accept]
          /\ w.accept \in BOOLEAN /\ w.voter \in Node
    BY <2>2 DEF Vote
  <2>4. w.accept = TRUE
    BY <2>1, <2>3
  <2>5. w = [proposal |-> vote.proposal, voter |-> m, accept |-> TRUE]
    BY <2>1, <2>3, <2>4
  <2> QED BY <2>1, <2>2, <2>3, <2>5 DEF Endorsers
<1>3. /\ UNCHANGED <<applied, sequence>> \/ applyCertificate(n, c)
      /\ applying' = applying \/ applying' = [applying EXCEPT ![n] = @ \cup {c}]
      /\ \A m \in Node : votes'[m] \subseteq votes[m] \cup {vote}
  BY <1>1 DEF recordVote, Completed, QuorumInv, TypeOK, WithoutRound
<1>4. \A m \in Node : votes'[m] \subseteq voteMsgs'
  BY <1>3 DEF QuorumInv, Genuine
<1>5. ASSUME NEW m \in Node, NEW d \in applying'[m]
      PROVE  d.voters \subseteq Endorsers(d.proposal)'
  <2>1. d \in applying[m] \/ d = c
    BY <1>3, <1>5 DEF QuorumInv, TypeOK
  <2>2. CASE d \in applying[m]
    <3>1. d.voters \subseteq Endorsers(d.proposal)
      BY <2>2 DEF QuorumInv, Genuine
    <3> QED BY <3>1, EndorsersGrow
  <2> QED BY <1>2, <2>1, <2>2
<1>6. ASSUME NEW msg \in commitMsgs'
      PROVE  msg.body.voters \subseteq Endorsers(msg.body.proposal)'
  <2>1. msg.body.voters \subseteq Endorsers(msg.body.proposal)
    BY <1>6 DEF QuorumInv, Genuine
  <2> QED BY <2>1, EndorsersGrow
<1>7. Genuine'
  BY <1>4, <1>5, <1>6 DEF Genuine
<1>8. AppliedByQuorum'
  <2>1. CASE UNCHANGED <<applied, sequence>>
    <3>1. ASSUME NEW m \in Node, NEW p \in applied'[m]
          PROVE  Cardinality(Endorsers(p)') >= quorum
      BY <2>1, <3>1, EndorsersGrow DEF QuorumInv, AppliedByQuorum
    <3> QED BY <3>1 DEF AppliedByQuorum, quorum, f
  <2>2. CASE applyCertificate(n, c)
    BY <2>2, <1>1, <1>2, QuorumApply
  <2> QED BY <1>3, <2>1, <2>2
<1> QED BY <1>7, <1>8 DEF QuorumInv

LEMMA QuorumStep ==
    ASSUME QuorumInv, TypeOK', [Next]_vars
    PROVE  QuorumInv'
<1> USE DEF network
<1>0. TypeOK
  BY DEF QuorumInv
<1>1. ASSUME NEW n \in Node, NEW p \in validating[n], FinishPropose(n, p)
      PROVE  QuorumInv'
  <2>1. PICK accept \in BOOLEAN :
           /\ recordVote(n, [proposal |-> p, voter |-> n, accept |-> accept])
           /\ voteMsgs' = voteMsgs \cup
                  {[proposal |-> p, voter |-> n, accept |-> accept]}
    BY <1>1 DEF FinishPropose, Verdict
  <2>2. PICK vote \in Vote :
           recordVote(n, vote) /\ voteMsgs' = voteMsgs \cup {vote}
    BY <1>0, <2>1 DEF Vote, TypeOK
  <2>3. commitMsgs' = commitMsgs
    BY <1>1 DEF FinishPropose
  <2> QED BY <2>2, <2>3, QuorumVote
<1>2. ASSUME NEW vote \in voteMsgs,
             ReceiveVote(leader(vote.proposal.view), vote)
      PROVE  QuorumInv'
  <2>1. vote \in Vote /\ leader(vote.proposal.view) \in Node
    BY <1>0, LeaderInNode DEF TypeOK, Vote, Proposal, View
  <2>2. PICK n \in Node : recordVote(n, vote) /\ UNCHANGED network
    BY <1>2, <2>1 DEF ReceiveVote
  <2> QED BY <2>1, <2>2, QuorumVote
<1>3. ASSUME NEW msg \in commitMsgs, ReceiveCommit(msg.to, msg)
      PROVE  QuorumInv'
  <2>1. PICK n \in Node, c \in Certificate :
           /\ c.voters \subseteq Endorsers(c.proposal)
           /\ applyCertificate(n, c)
    BY <1>0, <1>3 DEF ReceiveCommit, TypeOK, QuorumInv, Genuine
  <2>2. /\ UNCHANGED <<votes, applying, voteMsgs>>
        /\ commitMsgs' \subseteq commitMsgs
    BY <1>3 DEF ReceiveCommit
  <2>3. c.voters \subseteq Endorsers(c.proposal)'
    BY <2>1, <2>2 DEF Endorsers
  <2>4. AppliedByQuorum'
    BY <2>1, <2>2, <2>3, QuorumApply
  <2>5. Genuine'
    BY <2>2 DEF QuorumInv, Genuine, Endorsers
  <2> QED BY <2>4, <2>5 DEF QuorumInv
<1>4. ASSUME NEW n \in Node, NEW p \in validating[n], CastVote(n, p)
      PROVE  QuorumInv'
  <2>1. UNCHANGED <<applied, votes, applying, commitMsgs>>
          /\ voteMsgs \subseteq voteMsgs'
    BY <1>4 DEF CastVote
  <2> QED BY <2>1, QuorumFrame
<1>5. ASSUME NEW n \in Node, NEW c \in applying[n], BroadcastCommit(n, c)
      PROVE  QuorumInv'
  BY <1>0, <1>5, QuorumFrame DEF BroadcastCommit, ToPeers, TypeOK
<1>6. ASSUME NEW n \in Node, NEW c \in applying[n], ApplyThrows(n, c)
      PROVE  QuorumInv'
  BY <1>0, <1>6, QuorumFrame DEF ApplyThrows, TypeOK
<1>7. ASSUME NEW n \in Node, NEW p \in pending[n], RoundTimeout(n, p)
      PROVE  QuorumInv'
  BY <1>0, <1>7, QuorumFrame DEF RoundTimeout, WithoutRound, TypeOK
<1>8. ASSUME NEW n \in Node, Start(n) \/ Stop(n) PROVE QuorumInv'
  BY <1>0, <1>8, QuorumFrame DEF Start, Stop, TypeOK
<1>9. ASSUME NEW n \in Node, Crash(n) PROVE QuorumInv'
  BY <1>0, <1>9, QuorumFrame DEF Crash, TypeOK
<1>10. ASSUME NEW n \in Node,
              \/ Propose(n) \/ RequestViewChange(n)
              \/ \E msg \in proposalMsgs : HandleProposal(msg.to, msg)
              \/ \E vote \in viewMsgs : HandleViewChange(n, vote)
              \/ \E m \in Node : Restore(n, m)
       PROVE  QuorumInv'
  <2>1. UNCHANGED <<applied, votes, applying, voteMsgs, commitMsgs>>
    BY <1>10 DEF Propose, RequestViewChange, HandleProposal,
       HandleViewChange, Restore
  <2> QED BY <2>1, QuorumFrame
<1>11. CASE UNCHANGED vars
  BY <1>11, QuorumFrame DEF vars
<1> QED
  BY <1>0, <1>1, <1>2, <1>3, <1>4, <1>5, <1>6, <1>7, <1>8, <1>9, <1>10, <1>11
  DEF Next, TypeOK

(* AppliedByQuorum: a command is in a member's graph only when a quorum of   *)
(* the committee validated it and voted for it, through every timeout,       *)
(* restart, crash and restore.                                               *)
THEOREM AppliedNeedsQuorum == Spec => []AppliedByQuorum
<1>1. Init => QuorumInv
  <2>1. Init => TypeOK
    BY CommitteeAssumption DEF Init, TypeOK, View
  <2> QED BY <2>1 DEF Init, QuorumInv, Genuine, AppliedByQuorum
<1>2. QuorumInv /\ TypeOK' /\ [Next]_vars => QuorumInv'
  BY QuorumStep
<1>3. QuorumInv => AppliedByQuorum
  BY DEF QuorumInv
<1> QED BY <1>1, <1>2, <1>3, TypeCorrect, PTL DEF Spec

-----------------------------------------------------------------------------
(* Views *)

\* Recorded view changes were asked for.
ViewInv ==
    /\ TypeOK
    /\ \A n \in Node : viewVotes[n] \subseteq viewMsgs
    /\ ViewBackedByQuorum

\* A view with a quorum of supporters keeps it.
LEMMA SupportersGrow ==
    ASSUME NEW less, NEW more, more \subseteq ViewChange, less \subseteq more,
           NEW v, Cardinality(Supporters(less, v)) >= quorum
    PROVE  Cardinality(Supporters(more, v)) >= quorum
<1>1. /\ Supporters(less, v) \subseteq Supporters(more, v)
      /\ Supporters(more, v) \subseteq Node
  BY DEF Supporters, ViewChange
<1>2. IsFiniteSet(Supporters(more, v))
  BY <1>1, CommitteeAssumption, FS_Subset
<1>3. Cardinality(Supporters(less, v)) <= Cardinality(Supporters(more, v))
  BY <1>1, <1>2, FS_Subset
<1>4. /\ Cardinality(Supporters(less, v)) \in Nat
      /\ Cardinality(Supporters(more, v)) \in Nat
      /\ quorum \in Nat
  BY <1>1, <1>2, CommitteeAssumption, FS_Subset, FS_CardinalityType
  DEF quorum, f
<1> QED BY <1>3, <1>4

\* recordViewChange moves a member only to a view with a quorum among the
\* votes it was given.
LEMMA RecordViewChangeBacked ==
    ASSUME NEW known, known \subseteq ViewChange,
           NEW state \in [view : View, recorded : SUBSET ViewChange],
           NEW vote \in known,
           state.recorded \subseteq known,
           state.view > 0 => Cardinality(Supporters(known, state.view)) >= quorum
    PROVE  LET next == recordViewChange(state, vote)
           IN  /\ next.recorded \subseteq known
               /\ next.view > 0 =>
                    Cardinality(Supporters(known, next.view)) >= quorum
<1> DEFINE recorded == state.recorded \cup {vote}
           next == recordViewChange(state, vote)
<1>1. CASE vote.toView <= state.view
  BY <1>1 DEF recordViewChange
<1>2. CASE /\ ~ (vote.toView <= state.view)
           /\ Cardinality(Supporters(recorded, vote.toView)) >= quorum
  <2>1. /\ next.view = vote.toView
        /\ next.recorded \subseteq known
    BY <1>2 DEF recordViewChange
  <2>2. Cardinality(Supporters(known, vote.toView)) >= quorum
    <3>1. recorded \subseteq known
      OBVIOUS
    <3> HIDE DEF recorded
    <3> QED BY <1>2, <3>1, SupportersGrow
  <2> QED BY <2>1, <2>2
<1>3. CASE /\ ~ (vote.toView <= state.view)
           /\ ~ (Cardinality(Supporters(recorded, vote.toView)) >= quorum)
  <2>1. next.view = state.view /\ next.recorded = recorded
    BY <1>3 DEF recordViewChange
  <2> QED BY <2>1
<1> QED BY <1>1, <1>2, <1>3

LEMMA ViewInvStep ==
    ASSUME ViewInv, TypeOK', [Next]_vars
    PROVE  ViewInv'
<1> USE DEF network
<1>0. /\ TypeOK
      /\ \A n \in Node :
           /\ ViewState(n) \in [view : View, recorded : SUBSET ViewChange]
           /\ ViewState(n).recorded \subseteq viewMsgs
           /\ ViewState(n).view = view[n]
           /\ view[n] > 0 => Cardinality(Supporters(viewMsgs, view[n])) >= quorum
  BY DEF ViewInv, TypeOK, ViewState, ViewBackedByQuorum
\* A member moves to a state backed by the view changes sent so far.
<1>1. ASSUME NEW n \in Node, NEW state,
             SetViewState(n, state),
             viewMsgs \subseteq viewMsgs',
             state.recorded \subseteq viewMsgs',
             state.view > 0 =>
               Cardinality(Supporters(viewMsgs', state.view)) >= quorum
      PROVE  ViewInv'
  <2>1. viewMsgs' \subseteq ViewChange
    BY DEF TypeOK
  <2>2. \A m \in Node : viewVotes'[m] \subseteq viewMsgs'
    BY <1>0, <1>1 DEF SetViewState, TypeOK, ViewInv
  <2>3. ASSUME NEW m \in Node, view'[m] > 0
        PROVE  Cardinality(Supporters(viewMsgs', view'[m])) >= quorum
    <3>1. CASE m = n
      BY <1>0, <1>1, <2>3, <3>1 DEF SetViewState, TypeOK
    <3>2. CASE m # n
      <4>1. view'[m] = view[m]
        BY <1>0, <1>1, <3>2 DEF SetViewState, TypeOK
      <4> QED BY <1>0, <1>1, <2>1, <2>3, <4>1, SupportersGrow
    <3> QED BY <3>1, <3>2
  <2>4. ViewBackedByQuorum'
    BY <2>3 DEF ViewBackedByQuorum, Supporters, quorum, f
  <2> QED BY <2>2, <2>4 DEF ViewInv
<1>2. ASSUME NEW n \in Node, RequestViewChange(n) PROVE ViewInv'
  <2>1. PICK v \in View :
           /\ SetViewState(n, recordViewChange(ViewState(n),
                                               [toView |-> v, voter |-> n]))
           /\ viewMsgs' = viewMsgs \cup {[toView |-> v, voter |-> n]}
    BY <1>2 DEF RequestViewChange
  <2>2. PICK known, vote :
           /\ known = viewMsgs' /\ vote = [toView |-> v, voter |-> n]
    OBVIOUS
  <2>3. /\ known \subseteq ViewChange /\ vote \in known
        /\ ViewState(n).recorded \subseteq known
        /\ viewMsgs \subseteq known
    BY <1>0, <2>1, <2>2 DEF TypeOK
  <2>4. ViewState(n).view > 0 =>
          Cardinality(Supporters(known, ViewState(n).view)) >= quorum
    BY <1>0, <2>3, SupportersGrow
  <2>5. PICK state : state = recordViewChange(ViewState(n), vote)
    OBVIOUS
  <2>6. /\ state.recorded \subseteq known
        /\ state.view > 0 => Cardinality(Supporters(known, state.view)) >= quorum
    BY <1>0, <2>3, <2>4, <2>5, RecordViewChangeBacked
  <2> QED BY <1>1, <2>1, <2>2, <2>3, <2>5, <2>6
<1>3. ASSUME NEW vote \in viewMsgs, NEW n \in Node, HandleViewChange(n, vote)
      PROVE  ViewInv'
  <2>1. PICK own, first, second, known :
           /\ own = [toView |-> vote.toView, voter |-> n]
           /\ first = recordViewChange(ViewState(n), vote)
           /\ second = recordViewChange(first, own)
           /\ known = viewMsgs'
    OBVIOUS
  <2>2. \/ SetViewState(n, first) /\ known = viewMsgs
        \/ SetViewState(n, second) /\ known = viewMsgs \cup {own}
    BY <1>3, <2>1 DEF HandleViewChange
  <2>3. /\ viewMsgs \subseteq known /\ known \subseteq ViewChange
        /\ vote \in ViewChange /\ viewMsgs \subseteq ViewChange
    BY <1>0, <2>1, <2>2 DEF TypeOK
  <2>4. /\ first \in [view : View, recorded : SUBSET ViewChange]
        /\ first.recorded \subseteq viewMsgs
        /\ first.view > 0 =>
             Cardinality(Supporters(viewMsgs, first.view)) >= quorum
    <3>1. first \in [view : View, recorded : SUBSET ViewChange]
      BY <1>0, <2>1, <2>3, RecordViewChangeType
    <3>2. LET next == recordViewChange(ViewState(n), vote)
          IN  /\ next.recorded \subseteq viewMsgs
              /\ next.view > 0 =>
                   Cardinality(Supporters(viewMsgs, next.view)) >= quorum
      BY <1>0, <2>3, RecordViewChangeBacked
    <3> QED BY <2>1, <3>1, <3>2
  <2>5. CASE SetViewState(n, first) /\ known = viewMsgs
    BY <1>1, <2>1, <2>4, <2>5
  <2>6. CASE SetViewState(n, second) /\ known = viewMsgs \cup {own}
    <3>1. first.view > 0 =>
            Cardinality(Supporters(known, first.view)) >= quorum
      BY <2>3, <2>4, SupportersGrow
    <3>2. own \in known /\ first.recorded \subseteq known
      BY <2>4, <2>6
    <3>3. /\ second.recorded \subseteq known
          /\ second.view > 0 =>
               Cardinality(Supporters(known, second.view)) >= quorum
      BY <2>1, <2>3, <2>4, <3>1, <3>2, RecordViewChangeBacked
    <3> QED BY <1>1, <2>1, <2>3, <2>6, <3>3
  <2> QED BY <2>2, <2>5, <2>6
<1>4. ASSUME NEW n \in Node, NEW m \in Node, Restore(n, m) PROVE ViewInv'
  <2>1. /\ view' = [view EXCEPT ![n] = view[m]]
        /\ UNCHANGED <<viewVotes, viewMsgs>>
    BY <1>4 DEF Restore
  <2> QED BY <1>0, <2>1 DEF ViewInv, TypeOK, ViewBackedByQuorum
<1>5. ASSUME NEW n \in Node, Crash(n) PROVE ViewInv'
  <2>1. /\ view' = [view EXCEPT ![n] = 0]
        /\ viewVotes' = [viewVotes EXCEPT ![n] = {}]
        /\ viewMsgs' = viewMsgs
    BY <1>5 DEF Crash
  <2> QED BY <1>0, <2>1 DEF ViewInv, TypeOK, ViewBackedByQuorum
<1>6. ASSUME NEW n \in Node,
             \/ Propose(n) \/ Start(n) \/ Stop(n)
             \/ \E p \in validating[n] : FinishPropose(n, p) \/ CastVote(n, p)
             \/ \E p \in pending[n] : RoundTimeout(n, p)
             \/ \E c \in applying[n] : BroadcastCommit(n, c) \/ ApplyThrows(n, c)
             \/ \E msg \in proposalMsgs : HandleProposal(msg.to, msg)
             \/ \E msg \in commitMsgs : ReceiveCommit(msg.to, msg)
             \/ \E vote \in voteMsgs : ReceiveVote(leader(vote.proposal.view), vote)
      PROVE  ViewInv'
  <2>1. UNCHANGED <<view, viewVotes, viewMsgs>>
    BY <1>6 DEF Propose, Start, Stop, FinishPropose, CastVote, RoundTimeout,
       BroadcastCommit, ApplyThrows, HandleProposal, ReceiveCommit, ReceiveVote
  <2> QED BY <2>1 DEF ViewInv, ViewBackedByQuorum
<1>7. CASE UNCHANGED vars
  BY <1>7 DEF vars, ViewInv, ViewBackedByQuorum
<1>8. PICK n \in Node : TRUE
  BY LeaderInNode
<1> QED BY <1>2, <1>3, <1>4, <1>5, <1>6, <1>7, <1>8 DEF Next

(* ViewBackedByQuorum: no member works in a view other than the first unless *)
(* a quorum of members asked for it, through crashes and restores.           *)
THEOREM ViewNeedsQuorum == Spec => []ViewBackedByQuorum
<1>1. Init => ViewInv
  <2>1. Init => TypeOK
    BY CommitteeAssumption DEF Init, TypeOK, View
  <2> QED BY <2>1 DEF Init, ViewInv, ViewBackedByQuorum
<1>2. ViewInv /\ TypeOK' /\ [Next]_vars => ViewInv'
  BY ViewInvStep
<1>3. ViewInv => ViewBackedByQuorum
  BY DEF ViewInv
<1> QED BY <1>1, <1>2, <1>3, TypeCorrect, PTL DEF Spec

=============================================================================
