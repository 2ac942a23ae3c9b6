---------------------- MODULE RemoteRelationshipProofs ----------------------
(* The two sides of a relationship stay in step, for every number of nodes and *)
(* proposals, every bound of the revisions and all faults.                     *)
EXTENDS RemoteRelationship, TLAPS

\* What #relationships holds of a proposal, and the frames and calls of it.
Side == {Nobody} \cup [exists : {TRUE}, turn : Node, revision : Nat, pending : Nat]

Entry == Proposal \X Nat

Offer == [id : Proposal, round : {1, 2}]

Frame == [to : Node, id : Proposal, revision : Nat]

TypeOK ==
    /\ faults \in SUBSET AllFaults
    /\ alive \in SUBSET Node /\ started \in SUBSET Node /\ registered \in SUBSET Node
    /\ known \in [Node -> SUBSET Node]
    /\ adverts \in SUBSET [from : Node, to : Node]
    /\ used \in SUBSET Proposal
    /\ relation \in [Node -> [Proposal -> Side]]
    /\ negotiating \in [Node -> SUBSET Proposal]
    /\ syncing \in [Node -> SUBSET Entry]
    /\ orphans \in [Node -> SUBSET Entry]
    /\ proposals \in SUBSET Offer
    /\ deciding \in [Node -> SUBSET Offer]
    /\ decisions \in SUBSET [id : Proposal, round : {1, 2}, action : Action]
    /\ boundaries \in SUBSET Frame
    /\ acks \in SUBSET Frame

-----------------------------------------------------------------------------
(* The inductive invariant. *)

\* A proposal is in one place at a time: not made, on its way, being decided, or
\* decided and on its way back; and then nowhere.
Offered(r) == \E m \in proposals : m.id = r

Deciding(r) == \E n \in Node : \E m \in deciding[n] : m.id = r

Decided(r) == \E m \in decisions : m.id = r

OnePlace(r) ==
    /\ r \notin used => ~ Offered(r) /\ ~ Deciding(r) /\ ~ Decided(r)
    /\ Offered(r) => ~ Deciding(r) /\ ~ Decided(r)
    /\ Deciding(r) => ~ Decided(r)
    /\ \A m, o \in proposals : m.id = r /\ o.id = r => m = o
    /\ \A n, k \in Node : \A m \in deciding[n] : \A o \in deciding[k] :
         m.id = r /\ o.id = r => m = o /\ n = Recipient[r]
    /\ \A m, o \in decisions : m.id = r /\ o.id = r => m = o

Undecided(r) == r \notin used \/ Offered(r) \/ Deciding(r)

\* Until its decision is handled a relationship is not synchronised: the
\* proposer does not have it, the recipient has it as it was installed.
NotBefore(r) ==
    Undecided(r) \/ Decided(r) =>
        /\ ~ relation[Proposer[r]][r].exists
        /\ relation[Recipient[r]][r].exists =>
             /\ ~ Undecided(r)
             /\ relation[Recipient[r]][r].revision = 0
             /\ relation[Recipient[r]][r].turn = Proposer[r]
        /\ \A n \in Node : \A e \in syncing[n] : e[1] # r
        /\ \A m \in boundaries \cup acks : m.id # r

\* Only the two parties have a relationship, and frames are for them.
Parties(r) ==
    /\ \A n \in Node : relation[n][r].exists => n \in {Proposer[r], Recipient[r]}
    /\ \A m \in boundaries \cup acks : m.id = r => m.to \in {Proposer[r], Recipient[r]}

\* A side that awaits an acknowledgement has the turn.
OwnTurn(r) ==
    \A n \in Node : \A e \in syncing[n] : e[1] = r /\ relation[n][r].exists =>
        relation[n][r].turn = n /\ e[2] = relation[n][r].revision + 1

\* A boundary was sent by a side that has come at least to the revision before,
\* and an acknowledgement by one that has come to its revision.
Behind(r) ==
    /\ \A m \in boundaries : m.id = r /\ relation[Remote(m.to, r)][r].exists =>
         m.revision <= relation[Remote(m.to, r)][r].revision + 1
    /\ \A m \in acks : m.id = r /\ relation[Remote(m.to, r)][r].exists =>
         m.revision <= relation[Remote(m.to, r)][r].revision

\* One side is a revision ahead of the other: both think it is their turn.
Ahead(r, n, m) ==
    /\ relation[n][r].revision = relation[m][r].revision + 1
    /\ relation[n][r].turn = n
    /\ relation[m][r].turn = m

Level(r, n, m) ==
    /\ relation[n][r].revision = relation[m][r].revision
    /\ relation[n][r].turn = relation[m][r].turn

Alternating(r) ==
    Both(r) => \/ Level(r, Proposer[r], Recipient[r])
               \/ Ahead(r, Proposer[r], Recipient[r])
               \/ Ahead(r, Recipient[r], Proposer[r])

RelationInv(r) ==
    /\ OnePlace(r) /\ NotBefore(r) /\ Parties(r)
    /\ OwnTurn(r) /\ Behind(r) /\ Alternating(r)

StepInv == TypeOK /\ \A r \in Proposal : RelationInv(r)

-----------------------------------------------------------------------------
(* Types. *)

(* No relationship, and a relationship as it is installed. *)
LEMMA Installed ==
    /\ Nobody \in Side /\ ~ Nobody.exists
    /\ \A r \in Proposal :
         /\ Fresh(r) \in Side /\ Fresh(r).exists
         /\ Fresh(r).turn = Proposer[r] /\ Fresh(r).revision = 0
<1>1. Nobody \in Side
  BY DEF Side
<1>2. Nobody.exists = FALSE
  BY DEF Nobody
<1>3. \A r \in Proposal :
         /\ Fresh(r) \in Side /\ Fresh(r).exists
         /\ Fresh(r).turn = Proposer[r] /\ Fresh(r).revision = 0
  BY RelationshipAssumption DEF Fresh, Side
<1> QED BY <1>1, <1>2, <1>3

(* A side that exists has its fields. *)
LEMMA SideFields ==
    ASSUME NEW s \in Side, s.exists
    PROVE  /\ s \in [exists : {TRUE}, turn : Node, revision : Nat, pending : Nat]
           /\ s.turn \in Node /\ s.revision \in Nat /\ s.pending \in Nat
<1>1. s # Nobody
  BY Installed
<1> QED BY <1>1 DEF Side

(* What synchronize and a timer change of it. *)
LEMMA PendingSet ==
    ASSUME NEW s \in Side, s.exists, NEW x \in Nat
    PROVE  LET t == [s EXCEPT !.pending = x]
           IN  t \in Side /\ t.exists /\ t.turn = s.turn /\ t.revision = s.revision
BY SideFields DEF Side

(* What a boundary changes of it. *)
LEMMA TurnTaken ==
    ASSUME NEW s \in Side, s.exists, NEW x \in Nat, NEW n \in Node
    PROVE  LET t == [s EXCEPT !.revision = x, !.turn = n]
           IN  t \in Side /\ t.exists /\ t.turn = n /\ t.revision = x
BY SideFields DEF Side

(* What an acknowledgement changes of it. *)
LEMMA TurnPassed ==
    ASSUME NEW s \in Side, s.exists, NEW x \in Nat, NEW n \in Node
    PROVE  LET t == [s EXCEPT !.pending = 0, !.revision = x, !.turn = n]
           IN  t \in Side /\ t.exists /\ t.turn = n /\ t.revision = x
BY SideFields DEF Side

(* Remote names the other party, and of the other party the first one. *)
LEMMA RemoteParty ==
    ASSUME NEW r \in Proposal
    PROVE  /\ Proposer[r] \in Node /\ Recipient[r] \in Node /\ Proposer[r] # Recipient[r]
           /\ Remote(Proposer[r], r) = Recipient[r]
           /\ Remote(Recipient[r], r) = Proposer[r]
           /\ \A n : Remote(n, r) \in {Proposer[r], Recipient[r]}
           /\ \A n : Remote(n, r) \in Node
BY RelationshipAssumption DEF Remote

(* One side of one relationship replaced. *)
LEMMA SideReplaced ==
    ASSUME NEW n \in Node, NEW r \in Proposal, NEW s \in Side,
           relation \in [Node -> [Proposal -> Side]],
           relation' = [relation EXCEPT ![n][r] = s]
    PROVE  /\ relation' \in [Node -> [Proposal -> Side]]
           /\ \A k \in Node, q \in Proposal :
                relation'[k][q] = IF k = n /\ q = r THEN s ELSE relation[k][q]
OBVIOUS

(* One member of one node's set added or removed. *)
LEMMA EntryChanged ==
    ASSUME NEW S, NEW f \in [Node -> SUBSET S], NEW n \in Node, NEW e, NEW g,
           \/ g = f
           \/ e \in S /\ g = [f EXCEPT ![n] = @ \cup {e}]
           \/ g = [f EXCEPT ![n] = @ \ {e}]
    PROVE  g \in [Node -> SUBSET S]
OBVIOUS

(* The steps of discovery, of timers and of the life of a node, *)
QuietAt(n) ==
    \/ Announce(n) \/ Expire(n)
    \/ \E r \in negotiating[n] : NegotiationTimeout(n, r)
    \/ \E entry \in syncing[n] : SyncTimeout(n, entry)
    \/ Stop(n) \/ Start(n) \/ Unregister(n) \/ Register(n)

(* and of the network. *)
QuietElsewhere ==
    \/ \E a \in adverts : HandleAdvertisement(a)
    \/ Lose
    \/ UNCHANGED vars

(* They keep the types. *)
LEMMA TypeQuiet ==
    ASSUME TypeOK, NEW n \in Node, QuietAt(n)
    PROVE  TypeOK'
<1> USE DEF TypeOK, discovery, network
<1>1. CASE Announce(n)
<2>1. adverts' \in SUBSET [from : Node, to : Node]
  BY <1>1 DEF Announce
<2> QED BY <1>1, <2>1 DEF Announce
<1>2. CASE Expire(n)
  BY <1>2 DEF Expire
<1>3. ASSUME Die(n) PROVE TypeOK'
<2>1. relation' \in [Node -> [Proposal -> Side]]
  BY <1>3, Installed DEF Die
<2> QED BY <1>3, <2>1 DEF Die, Forget
<1>4. ASSUME NEW r \in negotiating[n], NegotiationTimeout(n, r) PROVE TypeOK'
  BY <1>3, <1>4 DEF NegotiationTimeout
<1>5. ASSUME NEW entry \in syncing[n], SyncTimeout(n, entry) PROVE TypeOK'
<2>1. CASE entry \in orphans[n]
  BY <1>3, <1>5, <2>1 DEF SyncTimeout
<2>2. CASE entry \notin orphans[n]
<3>1. syncing' \in [Node -> SUBSET Entry]
  BY <1>5, <2>2 DEF SyncTimeout
<3>2. entry[1] \in Proposal
  BY <1>5 DEF Entry
<3>3. relation' \in [Node -> [Proposal -> Side]]
<4> DEFINE r == entry[1]
           s == relation[n][r]
<4>1. CASE ~ s.exists
  BY <1>5, <2>2, <4>1 DEF SyncTimeout
<4>2. CASE s.exists
<5>0. s \in Side
  BY <3>2
<5>1. [s EXCEPT !.pending = 0] \in Side
  BY <5>0, <4>2, PendingSet
<5>2. relation' = [relation EXCEPT ![n][r] = [s EXCEPT !.pending = 0]]
  BY <1>5, <2>2, <4>2 DEF SyncTimeout
<5> QED BY <3>2, <5>0, <5>1, <5>2, SideReplaced
<4> QED BY <4>1, <4>2
<3> QED BY <1>5, <2>2, <3>1, <3>3 DEF SyncTimeout
<2> QED BY <2>1, <2>2
<1>6. CASE Stop(n)
  BY <1>3, <1>6 DEF Stop, Forget
<1>7. CASE Start(n)
  BY <1>7 DEF Start
<1>8. CASE Unregister(n)
<2>1. relation' \in [Node -> [Proposal -> Side]]
  BY <1>8, Installed DEF Unregister
<2> QED BY <1>8, <2>1 DEF Unregister
<1>9. CASE Register(n)
  BY <1>9 DEF Register
<1> QED BY <1>1, <1>2, <1>4, <1>5, <1>6, <1>7, <1>8, <1>9 DEF QuietAt

(* A step that concerns one proposal leaves alone what the others are about. *)
LEMMA TypeQuietElsewhere ==
    ASSUME TypeOK, QuietElsewhere
    PROVE  TypeOK'
<1> USE DEF TypeOK, discovery, network
<1>1. ASSUME NEW a \in adverts, HandleAdvertisement(a) PROVE TypeOK'
<2>1. a.from \in Node /\ a.to \in Node
  OBVIOUS
<2> QED BY <1>1, <2>1 DEF HandleAdvertisement
<1>2. CASE Lose
  BY <1>2 DEF Lose
<1>3. CASE UNCHANGED vars
  BY <1>3 DEF vars
<1> QED BY <1>1, <1>2, <1>3 DEF QuietElsewhere

(* So do the steps of a negotiation. *)
LEMMA TypeNegotiation ==
    ASSUME TypeOK,
           \/ \E n \in Node, r \in Proposal : Negotiate(n, r)
           \/ \E m \in proposals : HandleProposal(m)
           \/ \E n \in Node : \E m \in deciding[n] : Decide(n, m)
           \/ \E m \in decisions : HandleDecision(m)
    PROVE  TypeOK'
<1> USE DEF TypeOK, discovery, network
<1>1. ASSUME NEW n \in Node, NEW r \in Proposal, NEW round \in {1, 2},
             RequestDecision(n, r, round)
      PROVE  /\ used' \in SUBSET Proposal /\ proposals' \in SUBSET Offer
             /\ orphans' \in [Node -> SUBSET Entry]
<2>1. [id |-> r, round |-> round] \in Offer
  BY DEF Offer
<2>2. <<r, 0>> \in Entry
  BY DEF Entry
<2>3. used' \in SUBSET Proposal
  BY <1>1 DEF RequestDecision
<2>4. proposals' \in SUBSET Offer
  BY <1>1, <2>1 DEF RequestDecision
<2>5. orphans' \in [Node -> SUBSET Entry]
<3>1. orphans' = orphans \/ orphans' = [orphans EXCEPT ![n] = @ \cup {<<r, 0>>}]
  BY <1>1 DEF RequestDecision
<3> QED BY <2>2, <3>1, EntryChanged
<2> QED BY <2>3, <2>4, <2>5
<1>2. ASSUME NEW n \in Node, NEW r \in Proposal, Negotiate(n, r) PROVE TypeOK'
<2>1. RequestDecision(n, r, 1)
  BY <1>2 DEF Negotiate
<2>2. used' \in SUBSET Proposal /\ proposals' \in SUBSET Offer
      /\ orphans' \in [Node -> SUBSET Entry]
  BY <1>1, <2>1
<2> QED BY <1>2, <2>2 DEF Negotiate
<1>3. ASSUME NEW m \in proposals, HandleProposal(m) PROVE TypeOK'
<2>1. m \in Offer /\ Recipient[m.id] \in Node
  BY RelationshipAssumption DEF Offer
<2>2. deciding' \in [Node -> SUBSET Offer]
  BY <1>3, <2>1 DEF HandleProposal
<2> QED BY <1>3, <2>2 DEF HandleProposal
<1>4. ASSUME NEW n \in Node, NEW m \in deciding[n], Decide(n, m) PROVE TypeOK'
<2>1. m \in Offer /\ m.id \in Proposal
  BY DEF Offer
<2>2. PICK action \in Action :
         /\ relation' = IF action = "accept"
                        THEN [relation EXCEPT ![n][m.id] = Fresh(m.id)]
                        ELSE relation
         /\ decisions' = decisions \cup
                {[id |-> m.id, round |-> m.round, action |-> action]}
  BY <1>4 DEF Decide
<2>3. relation' \in [Node -> [Proposal -> Side]]
  BY <2>1, <2>2, Installed
<2>4. [id |-> m.id, round |-> m.round, action |-> action]
        \in [id : Proposal, round : {1, 2}, action : Action]
  BY <2>1 DEF Offer
<2>5. decisions' \in SUBSET [id : Proposal, round : {1, 2}, action : Action]
  BY <2>2, <2>4
<2> QED BY <1>4, <2>3, <2>5 DEF Decide
<1>5. ASSUME NEW m \in decisions, HandleDecision(m) PROVE TypeOK'
<2>1. m.id \in Proposal /\ Proposer[m.id] \in Node
  BY RelationshipAssumption
<2> DEFINE n == Proposer[m.id]
<2>2. decisions' \in SUBSET [id : Proposal, round : {1, 2}, action : Action]
  BY <1>5 DEF HandleDecision
<2>3. relation' \in [Node -> [Proposal -> Side]]
<3>1. \/ relation' = [relation EXCEPT ![n][m.id] = Fresh(m.id)]
      \/ relation' = relation
  BY <1>5 DEF HandleDecision
<3>2. CASE relation' = [relation EXCEPT ![n][m.id] = Fresh(m.id)]
  BY <2>1, <3>2, Installed, SideReplaced
<3> QED BY <3>1, <3>2
<2>4. negotiating' \in [Node -> SUBSET Proposal]
  BY <1>5, <2>1 DEF HandleDecision
<2>5. /\ used' \in SUBSET Proposal /\ proposals' \in SUBSET Offer
      /\ orphans' \in [Node -> SUBSET Entry]
<3>1. ASSUME NEW r \in Proposal, RequestDecision(n, r, 2)
      PROVE  /\ used' \in SUBSET Proposal /\ proposals' \in SUBSET Offer
             /\ orphans' \in [Node -> SUBSET Entry]
  BY <1>1, <2>1, <3>1
<3>2. \/ UNCHANGED <<used, proposals, orphans>>
      \/ \E r \in Proposal : RequestDecision(n, r, 2)
  BY <1>5 DEF HandleDecision
<3>3. CASE UNCHANGED <<used, proposals, orphans>>
  BY <3>3
<3> QED BY <3>1, <3>2, <3>3
<2> QED BY <1>5, <2>2, <2>3, <2>4, <2>5 DEF HandleDecision
<1> QED BY <1>2, <1>3, <1>4, <1>5

(* And the steps of a synchronisation. *)
LEMMA TypeSynchronisation ==
    ASSUME TypeOK,
           \/ \E n \in Node, r \in Proposal : Synchronize(n, r)
           \/ \E m \in boundaries : HandleBoundary(m)
           \/ \E m \in acks : HandleAck(m)
    PROVE  TypeOK'
<1> USE DEF TypeOK, discovery, network
<1>1. ASSUME NEW n \in Node, NEW r \in Proposal, Synchronize(n, r) PROVE TypeOK'
<2> DEFINE s == relation[n][r]
           x == s.revision + 1
<2>1. s \in Side /\ s.exists
  BY <1>1 DEF Synchronize
<2>2. x \in Nat
<3>1. s.revision \in Nat
  BY <2>1, SideFields
<3> QED BY <3>1
<2>3. relation' = [relation EXCEPT ![n][r] = [s EXCEPT !.pending = x]]
  BY <1>1 DEF Synchronize
<2>4. relation' \in [Node -> [Proposal -> Side]]
<3>1. [s EXCEPT !.pending = x] \in Side
  BY <2>1, <2>2, PendingSet
<3> QED BY <2>3, <3>1, SideReplaced
<2>5. syncing' \in [Node -> SUBSET Entry] /\ orphans' \in [Node -> SUBSET Entry]
<3>1. <<r, x>> \in Entry
  BY <2>2 DEF Entry
<3>2. /\ syncing' = [syncing EXCEPT ![n] = @ \cup {<<r, x>>}]
      /\ orphans' = orphans \/ orphans' = [orphans EXCEPT ![n] = @ \cup {<<r, x>>}]
  BY <1>1 DEF Synchronize
<3> QED BY <3>1, <3>2, EntryChanged
<2>6. boundaries' \in SUBSET Frame
<3>1. [to |-> Remote(n, r), id |-> r, revision |-> x] \in Frame
  BY <2>2, RemoteParty DEF Frame
<3> QED BY <1>1, <3>1 DEF Synchronize
<2> QED BY <1>1, <2>4, <2>5, <2>6 DEF Synchronize
<1>2. ASSUME NEW m \in boundaries, HandleBoundary(m) PROVE TypeOK'
<2>1. m \in Frame /\ m.to \in Node /\ m.id \in Proposal /\ m.revision \in Nat
  BY DEF Frame
<2>2. CASE Accepts(m.to, m)
<3> DEFINE s == relation[m.to][m.id]
<3>1. s \in Side /\ s.exists
  BY <2>1, <2>2 DEF Accepts
<3>2. [s EXCEPT !.revision = m.revision, !.turn = m.to] \in Side
  BY <2>1, <3>1, TurnTaken
<3>3. relation' = [relation EXCEPT ![m.to][m.id] =
                    [s EXCEPT !.revision = m.revision, !.turn = m.to]]
  BY <1>2, <2>1, <2>2 DEF HandleBoundary
<3>4. relation' \in [Node -> [Proposal -> Side]]
  BY <2>1, <3>2, <3>3, SideReplaced
<3>5. [m EXCEPT !.to = Remote(m.to, m.id)] \in Frame
  BY <2>1, RemoteParty DEF Frame
<3>6. acks' \in SUBSET Frame
  BY <1>2, <2>2, <3>5 DEF HandleBoundary
<3> QED BY <1>2, <3>4, <3>6 DEF HandleBoundary
<2>3. CASE ~ Accepts(m.to, m)
  BY <1>2, <2>3 DEF HandleBoundary
<2> QED BY <2>2, <2>3
<1>3. ASSUME NEW m \in acks, HandleAck(m) PROVE TypeOK'
<2>1. m \in Frame /\ m.to \in Node /\ m.id \in Proposal /\ m.revision \in Nat
  BY DEF Frame
<2>2. CASE Expects(m.to, m)
<3> DEFINE s == relation[m.to][m.id]
           p == Remote(m.to, m.id)
<3>1. s \in Side /\ s.exists /\ p \in Node
  BY <2>1, <2>2, RemoteParty DEF Expects
<3>2. [s EXCEPT !.pending = 0, !.revision = m.revision, !.turn = p] \in Side
  BY <2>1, <3>1, TurnPassed
<3>3. relation' = [relation EXCEPT ![m.to][m.id] =
                    [s EXCEPT !.pending = 0, !.revision = m.revision, !.turn = p]]
  BY <1>3, <2>1, <2>2 DEF HandleAck
<3>4. relation' \in [Node -> [Proposal -> Side]]
  BY <2>1, <3>2, <3>3, SideReplaced
<3>5. /\ syncing' = [syncing EXCEPT ![m.to] = @ \ {<<m.id, m.revision>>}]
      /\ orphans' = [orphans EXCEPT ![m.to] = @ \ {<<m.id, m.revision>>}]
  BY <1>3, <2>2 DEF HandleAck
<3>6. syncing' \in [Node -> SUBSET Entry] /\ orphans' \in [Node -> SUBSET Entry]
  BY <2>1, <3>5, EntryChanged
<3> QED BY <1>3, <2>2, <3>4, <3>6 DEF HandleAck
<2>3. CASE ~ Expects(m.to, m)
  BY <1>3, <2>3 DEF HandleAck
<2> QED BY <2>2, <2>3
<1> QED BY <1>1, <1>2, <1>3

-----------------------------------------------------------------------------
(* What most steps do to most relationships: frames and calls of it go, and a *)
(* side is forgotten or keeps its revision and its turn.                       *)
Shrinks(r) ==
    /\ r \in used' <=> r \in used
    /\ \A m \in proposals' : m.id = r => m \in proposals
    /\ \A n \in Node : \A m \in deciding'[n] : m.id = r => m \in deciding[n]
    /\ \A m \in decisions' : m.id = r => m \in decisions
    /\ \A m \in boundaries' : m.id = r => m \in boundaries
    /\ \A m \in acks' : m.id = r => m \in acks
    /\ \A n \in Node : \A e \in syncing'[n] : e[1] = r => e \in syncing[n]
    /\ \A n \in Node : relation'[n][r].exists =>
         /\ relation[n][r].exists
         /\ relation'[n][r].turn = relation[n][r].turn
         /\ relation'[n][r].revision = relation[n][r].revision

(* Such a step keeps the invariant of the relationship. *)
LEMMA ShrinkKeeps ==
    ASSUME NEW r \in Proposal, RelationInv(r), Shrinks(r)
    PROVE  RelationInv(r)'
<1>1. OnePlace(r)'
  BY DEF RelationInv, OnePlace, Shrinks, Offered, Deciding, Decided
<1>2. Undecided(r)' \/ Decided(r)' => Undecided(r) \/ Decided(r)
  BY DEF Undecided, Shrinks, Offered, Deciding, Decided
<1>3. Undecided(r)' => Undecided(r)
  BY DEF Undecided, Shrinks, Offered, Deciding, Decided
<1>4. NotBefore(r)'
<2> SUFFICES ASSUME Undecided(r)' \/ Decided(r)'
             PROVE  /\ ~ relation'[Proposer[r]][r].exists
                    /\ relation'[Recipient[r]][r].exists =>
                         /\ ~ Undecided(r)'
                         /\ relation'[Recipient[r]][r].revision = 0
                         /\ relation'[Recipient[r]][r].turn = Proposer[r]
                    /\ \A n \in Node : \A e \in syncing'[n] : e[1] # r
                    /\ \A m \in boundaries' \cup acks' : m.id # r
  BY DEF NotBefore
<2>1. /\ ~ relation[Proposer[r]][r].exists
      /\ relation[Recipient[r]][r].exists =>
           /\ ~ Undecided(r)
           /\ relation[Recipient[r]][r].revision = 0
           /\ relation[Recipient[r]][r].turn = Proposer[r]
      /\ \A n \in Node : \A e \in syncing[n] : e[1] # r
      /\ \A m \in boundaries \cup acks : m.id # r
  BY <1>2 DEF RelationInv, NotBefore
<2> QED BY <1>3, <2>1, RemoteParty DEF Shrinks
<1>5. Parties(r)'
  BY DEF RelationInv, Parties, Shrinks
<1>6. OwnTurn(r)'
  BY DEF RelationInv, OwnTurn, Shrinks
<1>7. Behind(r)'
  BY RemoteParty DEF RelationInv, Behind, Shrinks
<1>8. Alternating(r)'
  BY RemoteParty DEF RelationInv, Alternating, Shrinks, Both, Level, Ahead
<1> QED BY <1>1, <1>4, <1>5, <1>6, <1>7, <1>8 DEF RelationInv

(* The steps of discovery, of timers and of the life of a node do only that. *)
LEMMA QuietShrinks ==
    ASSUME TypeOK, NEW n \in Node, NEW r \in Proposal, QuietAt(n)
    PROVE  Shrinks(r)
<1>1. CASE UNCHANGED <<used, relation, syncing, deciding, network>>
  BY <1>1 DEF Shrinks, network
<1>2. ASSUME Die(n) PROVE Shrinks(r)
<2>1. /\ \A k \in Node : deciding'[k] \subseteq deciding[k]
      /\ \A k \in Node : syncing'[k] \subseteq syncing[k]
  BY <1>2 DEF Die, Forget, TypeOK
<2>2. \A k \in Node : relation'[k][r].exists => relation'[k][r] = relation[k][r]
  BY <1>2, Installed DEF Die, TypeOK
<2>3. UNCHANGED <<used, proposals, decisions, boundaries, acks>>
  BY <1>2 DEF Die, network
<2> QED BY <2>1, <2>2, <2>3 DEF Shrinks
<1>3. ASSUME NEW entry \in syncing[n], SyncTimeout(n, entry), entry \notin orphans[n]
      PROVE  Shrinks(r)
<2> DEFINE q == entry[1]
           s == relation[n][q]
<2>1. /\ UNCHANGED <<used, deciding, proposals, decisions, boundaries, acks>>
      /\ \A k \in Node : syncing'[k] \subseteq syncing[k]
  BY <1>3 DEF SyncTimeout, network, TypeOK
<2>2. q \in Proposal
  BY <1>3 DEF TypeOK, Entry
<2>3. CASE ~ s.exists
  BY <1>3, <2>1, <2>3 DEF SyncTimeout, Shrinks
<2>4. CASE s.exists
<3>1. s \in Side
  BY <2>2 DEF TypeOK
<3> DEFINE t == [s EXCEPT !.pending = 0]
<3>2. t \in Side /\ t.exists /\ t.turn = s.turn /\ t.revision = s.revision
  BY <2>4, <3>1, PendingSet
<3>3. relation' = [relation EXCEPT ![n][q] = t]
  BY <1>3, <2>4 DEF SyncTimeout
<3> HIDE DEF t
<3>4. \A k \in Node : relation'[k][r] = IF k = n /\ r = q THEN t ELSE relation[k][r]
  BY <2>2, <3>2, <3>3, SideReplaced DEF TypeOK
<3>5. \A k \in Node : relation'[k][r].exists =>
         /\ relation[k][r].exists
         /\ relation'[k][r].turn = relation[k][r].turn
         /\ relation'[k][r].revision = relation[k][r].revision
  BY <2>4, <3>2, <3>4
<3> QED BY <2>1, <3>5 DEF Shrinks
<2> QED BY <2>3, <2>4
<1>4. ASSUME NEW entry \in syncing[n], SyncTimeout(n, entry) PROVE Shrinks(r)
  BY <1>2, <1>3, <1>4 DEF SyncTimeout
<1>5. ASSUME NEW q \in negotiating[n], NegotiationTimeout(n, q) PROVE Shrinks(r)
  BY <1>1, <1>2, <1>5 DEF NegotiationTimeout
<1>6. CASE Stop(n)
<2>1. CASE Die(n)
  BY <1>2, <2>1
<2>2. CASE Forget(n) /\ UNCHANGED <<used, relation, deciding, network>>
<3>1. \A k \in Node : syncing'[k] \subseteq syncing[k]
  BY <2>2 DEF Forget, TypeOK
<3> QED BY <2>2, <3>1 DEF Shrinks, network
<2> QED BY <1>6, <2>1, <2>2 DEF Stop
<1>7. CASE Unregister(n)
<2>1. \A k \in Node : relation'[k][r].exists => relation'[k][r] = relation[k][r]
  BY <1>7, Installed DEF Unregister, TypeOK
<2>2. UNCHANGED <<used, syncing, deciding, proposals, decisions, boundaries, acks>>
  BY <1>7 DEF Unregister, network
<2> QED BY <2>1, <2>2 DEF Shrinks
<1>8. CASE Announce(n) \/ Expire(n) \/ Start(n) \/ Register(n)
  BY <1>1, <1>8 DEF Announce, Expire, Start, Register
<1> QED BY <1>4, <1>5, <1>6, <1>7, <1>8 DEF QuietAt

(* Fewer frames and fewer entries keep what is said of a proposal. *)
LEMMA QuietElsewhereShrinks ==
    ASSUME NEW r \in Proposal, QuietElsewhere
    PROVE  Shrinks(r)
<1>1. CASE UNCHANGED <<used, relation, syncing, deciding, network>>
  BY <1>1 DEF Shrinks, network
<1>2. CASE Lose
<2>1. UNCHANGED <<used, relation, syncing, deciding>>
  BY <1>2 DEF Lose
<2>2. /\ proposals' \subseteq proposals /\ decisions' \subseteq decisions
      /\ boundaries' \subseteq boundaries /\ acks' \subseteq acks
  BY <1>2 DEF Lose, network
<2> QED BY <2>1, <2>2 DEF Shrinks
<1>3. ASSUME NEW a \in adverts, HandleAdvertisement(a) PROVE Shrinks(r)
  BY <1>1, <1>3 DEF HandleAdvertisement
<1>4. CASE UNCHANGED vars
  BY <1>1, <1>4 DEF vars, network
<1> QED BY <1>2, <1>3, <1>4 DEF QuietElsewhere

-----------------------------------------------------------------------------
(* A proposal that is made keeps the invariant of every relationship. *)
LEMMA ProposedKeeps ==
    ASSUME TypeOK, \A r \in Proposal : RelationInv(r),
           NEW n \in Node, NEW q \in Proposal, q \notin used, NEW round \in {1, 2},
           RequestDecision(n, q, round), decisions' \subseteq decisions,
           UNCHANGED <<relation, syncing, deciding, boundaries, acks>>
    PROVE  \A r \in Proposal : RelationInv(r)'
<1> DEFINE o == [id |-> q, round |-> round]
<1>1. used' = used \cup {q} /\ (proposals' = proposals \/ proposals' = proposals \cup {o})
  BY DEF RequestDecision
<1>2. o.id = q
  OBVIOUS
<1> HIDE DEF o
<1>3. ASSUME NEW r \in Proposal, r # q PROVE RelationInv(r)'
<2>1. Shrinks(r)
  BY <1>1, <1>2, <1>3 DEF Shrinks
<2> QED BY <2>1, ShrinkKeeps
<1>4. RelationInv(q) /\ ~ Offered(q) /\ ~ Deciding(q) /\ ~ Decided(q)
  BY DEF RelationInv, OnePlace
<1>5. OnePlace(q)'
  BY <1>1, <1>2, <1>4 DEF OnePlace, Offered, Deciding, Decided
<1>6. NotBefore(q)'
<2>1. Undecided(q)
  BY DEF Undecided
<2>2. /\ ~ relation[Proposer[q]][q].exists /\ ~ relation[Recipient[q]][q].exists
      /\ \A k \in Node : \A e \in syncing[k] : e[1] # q
      /\ \A m \in boundaries \cup acks : m.id # q
  BY <1>4, <2>1 DEF RelationInv, NotBefore
<2> QED BY <2>2 DEF NotBefore
<1>7. Parties(q)' /\ OwnTurn(q)' /\ Behind(q)' /\ Alternating(q)'
  BY <1>4 DEF RelationInv, Parties, OwnTurn, Behind, Alternating, Both, Level, Ahead
<1> QED BY <1>3, <1>5, <1>6, <1>7 DEF RelationInv

(* negotiate makes a new proposal. *)
LEMMA NegotiateKeeps ==
    ASSUME StepInv, NEW n \in Node, NEW q \in Proposal, Negotiate(n, q)
    PROVE  \A r \in Proposal : RelationInv(r)'
BY ProposedKeeps DEF StepInv, Negotiate

(* A proposal that arrives is decided upon by its recipient. *)
LEMMA HandleProposalKeeps ==
    ASSUME StepInv, NEW m \in proposals, HandleProposal(m)
    PROVE  \A r \in Proposal : RelationInv(r)'
<1> DEFINE q == m.id
           n == Recipient[q]
<1>1. TypeOK /\ q \in Proposal /\ n \in Node /\ m \in Offer
  BY RelationshipAssumption DEF StepInv, TypeOK, Offer
<1>2. /\ UNCHANGED <<used, relation, syncing, decisions, boundaries, acks>>
      /\ proposals' = proposals \ {m}
  BY DEF HandleProposal
<1>3. \A k \in Node :
        \/ deciding'[k] = deciding[k]
        \/ k = n /\ deciding'[k] = deciding[k] \cup {m}
  BY <1>1 DEF HandleProposal, TypeOK
<1>4. ASSUME NEW r \in Proposal, r # q PROVE RelationInv(r)'
<2>1. Shrinks(r)
  BY <1>2, <1>3, <1>4 DEF Shrinks
<2> QED BY <2>1, ShrinkKeeps DEF StepInv
<1>5. RelationInv(q) /\ Offered(q) /\ q \in used /\ ~ Deciding(q) /\ ~ Decided(q)
  BY <1>1 DEF StepInv, RelationInv, OnePlace, Offered
<1> HIDE DEF q, n
<1>6. m.id = q /\ n = Recipient[q]
  BY DEF q, n
<1>7. OnePlace(q)'
<2>1. ~ Offered(q)'
  BY <1>2, <1>5, <1>6 DEF RelationInv, OnePlace, Offered
<2>2. ~ Decided(q)' /\ q \in used'
  BY <1>2, <1>5 DEF Decided
<2>3. \A k \in Node : \A o \in deciding'[k] : o.id = q => o = m /\ k = n
  BY <1>3, <1>5 DEF Deciding
<2> QED BY <1>2, <1>6, <2>1, <2>2, <2>3 DEF OnePlace, Offered, Decided
<1>8. NotBefore(q)'
<2>1. Undecided(q)
  BY <1>5 DEF Undecided
<2>2. /\ ~ relation[Proposer[q]][q].exists /\ ~ relation[Recipient[q]][q].exists
      /\ \A k \in Node : \A e \in syncing[k] : e[1] # q
      /\ \A o \in boundaries \cup acks : o.id # q
  BY <1>5, <2>1 DEF RelationInv, NotBefore
<2> QED BY <1>2, <2>2 DEF NotBefore
<1>9. Parties(q)' /\ OwnTurn(q)' /\ Behind(q)' /\ Alternating(q)'
  BY <1>2, <1>5 DEF RelationInv, Parties, OwnTurn, Behind, Alternating, Both, Level, Ahead
<1> QED BY <1>4, <1>7, <1>8, <1>9 DEF RelationInv

(* The recipient installs what it has decided to accept before the proposer can *)
(* know of it.                                                                  *)
LEMMA DecideKeeps ==
    ASSUME StepInv, NEW n \in Node, NEW m \in deciding[n], Decide(n, m)
    PROVE  \A r \in Proposal : RelationInv(r)'
<1> DEFINE q == m.id
<1>1. TypeOK /\ q \in Proposal /\ m \in Offer
  BY DEF StepInv, TypeOK, Offer
<1>2. RelationInv(q) /\ Deciding(q)
  BY <1>1 DEF StepInv, Deciding
<1>3. /\ ~ Offered(q) /\ ~ Decided(q) /\ q \in used /\ n = Recipient[q]
      /\ \A k \in Node : \A o \in deciding[k] : o.id = q => o = m /\ k = n
  BY <1>2 DEF RelationInv, OnePlace
<1>4. PICK action \in Action :
         /\ relation' = IF action = "accept"
                        THEN [relation EXCEPT ![n][q] = Fresh(q)]
                        ELSE relation
         /\ decisions' = decisions \cup
                {[id |-> q, round |-> m.round, action |-> action]}
  BY DEF Decide
<1> DEFINE d == [id |-> q, round |-> m.round, action |-> action]
<1>5. d.id = q /\ decisions' = decisions \cup {d}
  BY <1>4
<1>6. UNCHANGED <<used, syncing, proposals, boundaries, acks>>
  BY DEF Decide
<1>7. \A k \in Node : deciding'[k] = IF k = n THEN deciding[k] \ {m} ELSE deciding[k]
  BY <1>1 DEF Decide, TypeOK
<1>8. \A k \in Node, r \in Proposal :
        \/ relation'[k][r] = relation[k][r]
        \/ k = n /\ r = q /\ relation'[k][r] = Fresh(q)
<2>1. CASE relation' = [relation EXCEPT ![n][q] = Fresh(q)]
  BY <1>1, <2>1, Installed, SideReplaced DEF TypeOK
<2> QED BY <1>4, <2>1
<1> HIDE DEF q, d
<1>9. ASSUME NEW r \in Proposal, r # q PROVE RelationInv(r)'
<2>1. Shrinks(r)
  BY <1>5, <1>6, <1>7, <1>8, <1>9 DEF Shrinks
<2> QED BY <2>1, ShrinkKeeps DEF StepInv
<1>10. ~ Offered(q)' /\ ~ Deciding(q)' /\ q \in used'
  BY <1>3, <1>6, <1>7 DEF Offered, Deciding
<1>11. OnePlace(q)'
<2>1. \A o \in decisions' : o.id = q => o = d
  BY <1>3, <1>5 DEF Decided
<2> QED BY <1>10, <2>1 DEF OnePlace, Offered, Deciding
<1>12. /\ ~ relation[Proposer[q]][q].exists /\ ~ relation[Recipient[q]][q].exists
       /\ \A k \in Node : \A e \in syncing[k] : e[1] # q
       /\ \A o \in boundaries \cup acks : o.id # q
  BY <1>2 DEF RelationInv, NotBefore, Undecided
<1>13. /\ ~ relation'[Proposer[q]][q].exists
       /\ relation'[Recipient[q]][q].exists => relation'[Recipient[q]][q] = Fresh(q)
  BY <1>1, <1>3, <1>8, <1>12, RemoteParty
<1>14. NotBefore(q)'
<2>1. ~ Undecided(q)'
  BY <1>10 DEF Undecided
<2> QED BY <1>1, <1>6, <1>12, <1>13, <2>1, Installed DEF NotBefore
<1>15. Parties(q)'
  BY <1>1, <1>2, <1>3, <1>6, <1>8 DEF RelationInv, Parties
<1>16. OwnTurn(q)' /\ Behind(q)' /\ Alternating(q)'
  BY <1>6, <1>12, <1>13 DEF OwnTurn, Behind, Alternating, Both
<1> QED BY <1>9, <1>11, <1>14, <1>15, <1>16 DEF RelationInv

(* The proposer installs it level with the recipient, and nothing of it is on *)
(* its way yet.                                                               *)
LEMMA HandleDecisionKeeps ==
    ASSUME StepInv, NEW m \in decisions, HandleDecision(m)
    PROVE  \A r \in Proposal : RelationInv(r)'
<1> DEFINE q == m.id
           n == Proposer[q]
<1>1. TypeOK /\ q \in Proposal /\ n \in Node /\ \A r \in Proposal : RelationInv(r)
  BY RelationshipAssumption DEF StepInv, TypeOK
<1>2. /\ UNCHANGED <<syncing, deciding, boundaries, acks>>
      /\ decisions' = decisions \ {m}
  BY DEF HandleDecision
<1>3. ASSUME UNCHANGED <<used, relation, proposals>>
      PROVE  \A r \in Proposal : RelationInv(r)'
<2>1. \A r \in Proposal : Shrinks(r)
  BY <1>2, <1>3 DEF Shrinks
<2> QED BY <1>1, <2>1, ShrinkKeeps
<1>4. ASSUME NEW r \in Proposal \ used, RequestDecision(n, r, 2), UNCHANGED relation
      PROVE  \A s \in Proposal : RelationInv(s)'
  BY <1>1, <1>2, <1>4, ProposedKeeps
<1>5. ASSUME relation' = [relation EXCEPT ![n][q] = Fresh(q)], UNCHANGED <<used, proposals>>
      PROVE  \A r \in Proposal : RelationInv(r)'
<2>1. \A k \in Node, r \in Proposal :
        relation'[k][r] = IF k = n /\ r = q THEN Fresh(q) ELSE relation[k][r]
  BY <1>1, <1>5, Installed, SideReplaced DEF TypeOK
<2>2. RelationInv(q) /\ Decided(q)
  BY <1>1 DEF Decided
<2>3. /\ ~ Offered(q) /\ ~ Deciding(q) /\ q \in used
      /\ \A o \in decisions : o.id = q => o = m
  BY <2>2 DEF RelationInv, OnePlace
<2> HIDE DEF q
<2>4. ASSUME NEW r \in Proposal, r # q PROVE RelationInv(r)'
<3>1. Shrinks(r)
  BY <1>1, <1>2, <1>5, <2>1, <2>4 DEF Shrinks
<3> QED BY <1>1, <3>1, ShrinkKeeps
<2>5. ~ Offered(q)' /\ ~ Deciding(q)' /\ ~ Decided(q)' /\ q \in used'
  BY <1>2, <1>5, <2>3 DEF Offered, Deciding, Decided
<2>6. OnePlace(q)' /\ NotBefore(q)'
  BY <2>5 DEF OnePlace, NotBefore, Undecided, Offered, Deciding, Decided
<2>7. /\ relation[Recipient[q]][q].exists =>
           /\ relation[Recipient[q]][q].revision = 0
           /\ relation[Recipient[q]][q].turn = Proposer[q]
      /\ \A k \in Node : \A e \in syncing[k] : e[1] # q
      /\ \A o \in boundaries \cup acks : o.id # q
  BY <2>2 DEF RelationInv, NotBefore
<2>8. Parties(q)'
  BY <1>1, <1>2, <2>1, <2>2 DEF RelationInv, Parties
<2>9. OwnTurn(q)' /\ Behind(q)'
  BY <1>2, <2>7 DEF OwnTurn, Behind
<2>10. Alternating(q)'
<3>1. relation'[Proposer[q]][q] = Fresh(q)
      /\ relation'[Recipient[q]][q] = relation[Recipient[q]][q]
  BY <1>1, <2>1, RemoteParty
<3> QED BY <1>1, <2>7, <3>1, Installed DEF Alternating, Both, Level
<2> QED BY <2>4, <2>6, <2>8, <2>9, <2>10 DEF RelationInv
<1> QED BY <1>3, <1>4, <1>5 DEF HandleDecision

-----------------------------------------------------------------------------
(* A synchronisation changes one side of one relationship, which is settled. *)
LEMMA SettledKeeps ==
    ASSUME TypeOK, NEW q \in Proposal, RelationInv(q),
           ~ Undecided(q), ~ Decided(q),
           UNCHANGED <<used, proposals, deciding, decisions>>
    PROVE  OnePlace(q)' /\ NotBefore(q)'
<1>1. ~ Undecided(q)' /\ ~ Decided(q)'
  BY DEF Undecided, Offered, Deciding, Decided
<1>2. NotBefore(q)'
  BY <1>1 DEF NotBefore
<1>3. OnePlace(q)'
  BY DEF RelationInv, OnePlace, Offered, Deciding, Decided
<1> QED BY <1>2, <1>3

(* synchronize sends a boundary and awaits its acknowledgement. *)
LEMMA SynchronizeKeeps ==
    ASSUME StepInv, NEW n \in Node, NEW q \in Proposal, Synchronize(n, q)
    PROVE  \A r \in Proposal : RelationInv(r)'
<1> DEFINE s == relation[n][q]
           x == s.revision + 1
           t == [s EXCEPT !.pending = x]
           p == Remote(n, q)
           b == [to |-> p, id |-> q, revision |-> x]
<1>1. TypeOK /\ RelationInv(q) /\ s \in Side /\ s.exists /\ s.turn = n
  BY DEF StepInv, TypeOK, Synchronize
<1>2. s.revision \in Nat /\ x \in Nat
<2>1. s.revision \in Nat
  BY <1>1, SideFields
<2> QED BY <2>1
<1>3. t \in Side /\ t.exists /\ t.turn = s.turn /\ t.revision = s.revision
  BY <1>1, <1>2, PendingSet
<1>4. relation' = [relation EXCEPT ![n][q] = t]
  BY DEF Synchronize
<1>5. UNCHANGED <<used, proposals, deciding, decisions, acks>>
  BY DEF Synchronize
<1>6. boundaries' = boundaries \/ boundaries' = boundaries \cup {b}
  BY DEF Synchronize
<1>7. \A k \in Node :
        syncing'[k] = IF k = n THEN syncing[k] \cup {<<q, x>>} ELSE syncing[k]
  BY <1>1 DEF Synchronize, TypeOK
<1>8. b.to = p /\ b.id = q /\ b.revision = x
  OBVIOUS
<1> HIDE DEF t, b
<1>9. \A k \in Node, r \in Proposal :
        relation'[k][r] = IF k = n /\ r = q THEN t ELSE relation[k][r]
  BY <1>1, <1>3, <1>4, SideReplaced DEF TypeOK
<1>10. ASSUME NEW r \in Proposal, r # q PROVE RelationInv(r)'
<2>1. \A k \in Node : \A e \in syncing'[k] : e[1] = r => e \in syncing[k]
<3>1. <<q, x>>[1] = q
  OBVIOUS
<3> DEFINE e0 == <<q, x>>
<3>2. \A k \in Node : syncing'[k] = syncing[k] \/ syncing'[k] = syncing[k] \cup {e0}
  BY <1>7
<3> HIDE DEF e0
<3>3. e0[1] = q
  BY <3>1 DEF e0
<3> QED BY <1>10, <3>2, <3>3
<2>2. \A m \in boundaries' : m.id = r => m \in boundaries
  BY <1>6, <1>8, <1>10
<2>3. Shrinks(r)
  BY <1>5, <1>9, <1>10, <2>1, <2>2 DEF Shrinks
<2> QED BY <2>3, ShrinkKeeps DEF StepInv
<1>11. n \in {Proposer[q], Recipient[q]}
  BY <1>1 DEF RelationInv, Parties
<1>12. Remote(p, q) = n /\ p \in {Proposer[q], Recipient[q]}
  BY <1>11, RemoteParty
<1>13. ~ Undecided(q) /\ ~ Decided(q)
  BY <1>1, <1>11, RemoteParty DEF RelationInv, NotBefore
<1>14. OnePlace(q)' /\ NotBefore(q)'
  BY <1>1, <1>5, <1>13, SettledKeeps
<1>15. \A k \in Node :
         /\ relation'[k][q].exists <=> relation[k][q].exists
         /\ relation'[k][q].turn = relation[k][q].turn
         /\ relation'[k][q].revision = relation[k][q].revision
  BY <1>1, <1>3, <1>9
<1> HIDE DEF s, x, p
<1>16. Parties(q)'
  BY <1>1, <1>5, <1>6, <1>8, <1>12, <1>15 DEF RelationInv, Parties
<1>17. OwnTurn(q)'
<2>1. ASSUME NEW k \in Node, NEW e \in syncing'[k], e[1] = q, relation'[k][q].exists
      PROVE  relation'[k][q].turn = k /\ e[2] = relation'[k][q].revision + 1
<3>1. CASE e \in syncing[k]
  BY <1>1, <1>15, <2>1, <3>1 DEF RelationInv, OwnTurn
<3>2. CASE k = n /\ e = <<q, x>>
  BY <1>1, <1>15, <3>2 DEF s, x
<3> QED BY <1>7, <2>1, <3>1, <3>2
<2> QED BY <2>1 DEF OwnTurn
<1>18. Behind(q)'
<2>1. ASSUME NEW m \in boundaries', m.id = q, relation'[Remote(m.to, q)][q].exists
      PROVE  m.revision <= relation'[Remote(m.to, q)][q].revision + 1
<3>1. CASE m \in boundaries
  BY <1>1, <1>15, <2>1, <3>1, RemoteParty DEF RelationInv, Behind
<3>2. CASE m = b
  BY <1>2, <1>8, <1>12, <1>15, <3>2 DEF s, x
<3> QED BY <1>6, <3>1, <3>2
<2>2. \A m \in acks' : m.id = q /\ relation'[Remote(m.to, q)][q].exists =>
         m.revision <= relation'[Remote(m.to, q)][q].revision
  BY <1>1, <1>5, <1>15, RemoteParty DEF RelationInv, Behind
<2> QED BY <2>1, <2>2 DEF Behind
<1>19. Alternating(q)'
  BY <1>1, <1>15, RemoteParty DEF RelationInv, Alternating, Both, Level, Ahead
<1> QED BY <1>10, <1>14, <1>16, <1>17, <1>18, <1>19 DEF RelationInv

(* Only the side behind or level takes a boundary, and comes a revision ahead. *)
LEMMA HandleBoundaryKeeps ==
    ASSUME StepInv, NEW m \in boundaries, HandleBoundary(m)
    PROVE  \A r \in Proposal : RelationInv(r)'
<1> DEFINE q == m.id
           n == m.to
           p == Remote(n, q)
           s == relation[n][q]
           t == [s EXCEPT !.revision = m.revision, !.turn = n]
           a == [m EXCEPT !.to = p]
<1>1. /\ TypeOK /\ q \in Proposal /\ n \in Node /\ m.revision \in Nat /\ m \in Frame
      /\ s \in Side /\ RelationInv(q)
  BY DEF StepInv, TypeOK, Frame
<1>2. /\ UNCHANGED <<used, proposals, deciding, decisions, syncing>>
      /\ boundaries' = boundaries \ {m}
  BY DEF HandleBoundary
<1>3. CASE ~ Accepts(n, m)
<2>1. UNCHANGED <<relation, acks>>
  BY <1>3 DEF HandleBoundary
<2>2. \A r \in Proposal : Shrinks(r)
  BY <1>2, <2>1 DEF Shrinks
<2> QED BY <2>2, ShrinkKeeps DEF StepInv
<1>4. CASE Accepts(n, m)
<2>1. s.exists /\ s.turn = p /\ m.revision = s.revision + 1
  BY <1>4 DEF Accepts
<2>2. s.revision \in Nat
  BY <1>1, <2>1, SideFields
<2>3. t \in Side /\ t.exists /\ t.turn = n /\ t.revision = m.revision
<3> HIDE DEF s, n
<3>1. s \in Side /\ s.exists /\ n \in Node /\ m.revision \in Nat
  BY <1>1, <2>1
<3>2. s \in [exists : {TRUE}, turn : Node, revision : Nat, pending : Nat]
  BY <3>1, SideFields
<3> QED BY <3>1, <3>2 DEF Side
<2>4. relation' = [relation EXCEPT ![n][q] = t] /\ acks' = acks \cup {a}
  BY <1>4 DEF HandleBoundary
<2>5. a.to = p /\ a.id = q /\ a.revision = m.revision
  BY <1>1 DEF Frame
<2> HIDE DEF t, a
<2>6. \A k \in Node, r \in Proposal :
        relation'[k][r] = IF k = n /\ r = q THEN t ELSE relation[k][r]
  BY <1>1, <2>3, <2>4, SideReplaced DEF TypeOK
<2>7. ASSUME NEW r \in Proposal, r # q PROVE RelationInv(r)'
<3>1. Shrinks(r)
  BY <1>2, <2>4, <2>5, <2>6, <2>7 DEF Shrinks
<3> QED BY <3>1, ShrinkKeeps DEF StepInv
<2>8. n \in {Proposer[q], Recipient[q]}
  BY <1>1 DEF RelationInv, Parties
<2>9. Remote(p, q) = n /\ p \in {Proposer[q], Recipient[q]} /\ p # n /\ p \in Node
  BY <1>1, <2>8, RemoteParty
<2>10. ~ Undecided(q) /\ ~ Decided(q)
  BY <1>1 DEF RelationInv, NotBefore
<2>11. OnePlace(q)' /\ NotBefore(q)'
  BY <1>1, <1>2, <2>10, SettledKeeps
<2>12. Parties(q)'
  BY <1>1, <1>2, <2>1, <2>3, <2>4, <2>5, <2>6, <2>9 DEF RelationInv, Parties
<2>13. \A e \in syncing[n] : e[1] # q
  BY <1>1, <2>1, <2>9 DEF RelationInv, OwnTurn
<2>14. OwnTurn(q)'
  BY <1>1, <1>2, <2>6, <2>13 DEF RelationInv, OwnTurn
<2>15. /\ relation'[n][q].exists /\ relation'[n][q].turn = n
       /\ relation'[n][q].revision = s.revision + 1
       /\ relation'[p][q] = relation[p][q]
  BY <1>1, <2>1, <2>3, <2>6, <2>9
<2>16. Behind(q)'
<3>1. ASSUME NEW o \in boundaries, o.id = q, relation'[Remote(o.to, q)][q].exists
      PROVE  o.revision <= relation'[Remote(o.to, q)][q].revision + 1
<4>1. Remote(o.to, q) = n \/ Remote(o.to, q) = p
  BY <1>1, <2>8, <2>9, RemoteParty DEF p
<4>2. o.revision \in Nat
  BY <1>1 DEF TypeOK, Frame
<4>3. CASE Remote(o.to, q) = n
<5>1. o.revision <= s.revision + 1
  BY <1>1, <2>1, <3>1, <4>3 DEF RelationInv, Behind
<5> QED BY <2>2, <2>15, <4>2, <4>3, <5>1
<4>4. CASE Remote(o.to, q) = p
  BY <1>1, <2>15, <3>1, <4>4 DEF RelationInv, Behind
<4> QED BY <4>1, <4>3, <4>4
<3>2. ASSUME NEW o \in acks', o.id = q, relation'[Remote(o.to, q)][q].exists
      PROVE  o.revision <= relation'[Remote(o.to, q)][q].revision
<4>1. Remote(o.to, q) = n \/ Remote(o.to, q) = p
  BY <1>1, <2>8, <2>9, RemoteParty DEF p
<4>2. CASE o = a
  BY <1>1, <2>1, <2>2, <2>5, <2>9, <2>15, <4>2
<4>3. CASE o \in acks /\ Remote(o.to, q) = n
<5>1. o.revision <= s.revision
  BY <1>1, <2>1, <3>2, <4>3 DEF RelationInv, Behind
<5>2. o.revision \in Nat
  BY <1>1, <4>3 DEF TypeOK, Frame
<5> QED BY <2>2, <2>15, <4>3, <5>1, <5>2
<4>4. CASE o \in acks /\ Remote(o.to, q) = p
  BY <1>1, <2>15, <3>2, <4>4 DEF RelationInv, Behind
<4> QED BY <2>4, <4>1, <4>2, <4>3, <4>4
<3> QED BY <1>2, <3>1, <3>2 DEF Behind
<2>17. Alternating(q)'
<3> SUFFICES ASSUME relation[p][q].exists
             PROVE  Ahead(q, n, p)' \/ Level(q, n, p)'
  BY <2>8, <2>9, <2>15, RemoteParty DEF Alternating, Both, Level, p
<3>0. relation[p][q] \in Side
  BY <1>1, <2>9 DEF TypeOK
<3>1. relation[p][q] \in Side /\ relation[p][q].revision \in Nat
  BY <3>0, SideFields
<3>2. m.revision <= relation[p][q].revision + 1
  BY <1>1 DEF RelationInv, Behind
<3>3. Level(q, n, p) \/ Ahead(q, n, p) \/ Ahead(q, p, n)
  BY <1>1, <2>1, <2>8, <2>9, RemoteParty DEF RelationInv, Alternating, Both, Level
<3>4. relation[p][q].revision = s.revision /\ relation[p][q].turn = p
  BY <2>1, <2>2, <2>9, <3>1, <3>2, <3>3 DEF Level, Ahead
<3> QED BY <2>15, <3>4 DEF Ahead
<2> QED BY <2>7, <2>11, <2>12, <2>14, <2>16, <2>17 DEF RelationInv
<1> QED BY <1>3, <1>4

(* Only the side behind takes an acknowledgement, and comes level. *)
LEMMA HandleAckKeeps ==
    ASSUME StepInv, NEW m \in acks, HandleAck(m)
    PROVE  \A r \in Proposal : RelationInv(r)'
<1> DEFINE q == m.id
           n == m.to
           p == Remote(n, q)
           s == relation[n][q]
           t == [s EXCEPT !.pending = 0, !.revision = m.revision, !.turn = p]
<1>1. /\ TypeOK /\ q \in Proposal /\ n \in Node /\ m.revision \in Nat /\ m \in Frame
      /\ s \in Side /\ RelationInv(q) /\ p \in Node
  BY RemoteParty DEF StepInv, TypeOK, Frame
<1>2. /\ UNCHANGED <<used, proposals, deciding, decisions, boundaries>>
      /\ acks' = acks \ {m}
  BY DEF HandleAck
<1>3. CASE ~ Expects(n, m)
<2>1. UNCHANGED <<relation, syncing>>
  BY <1>3 DEF HandleAck
<2>2. \A r \in Proposal : Shrinks(r)
  BY <1>2, <2>1 DEF Shrinks
<2> QED BY <2>2, ShrinkKeeps DEF StepInv
<1>4. CASE Expects(n, m)
<2>1. s.exists /\ <<q, m.revision>> \in syncing[n]
  BY <1>4 DEF Expects
<2>2. s.revision \in Nat
  BY <1>1, <2>1, SideFields
<2>3. \A e \in syncing[n] : e[1] = q => s.turn = n /\ e[2] = s.revision + 1
  BY <1>1, <2>1 DEF RelationInv, OwnTurn
<2>4. s.turn = n /\ m.revision = s.revision + 1
  BY <2>1, <2>3
<2>5. t \in Side /\ t.exists /\ t.turn = p /\ t.revision = m.revision
<3> HIDE DEF s, p
<3>1. s \in Side /\ s.exists /\ p \in Node /\ m.revision \in Nat
  BY <1>1, <2>1
<3>2. s \in [exists : {TRUE}, turn : Node, revision : Nat, pending : Nat]
  BY <3>1, SideFields
<3> QED BY <3>1, <3>2 DEF Side
<2>6. /\ relation' = [relation EXCEPT ![n][q] = t]
      /\ syncing' = [syncing EXCEPT ![n] = @ \ {<<q, m.revision>>}]
  BY <1>4 DEF HandleAck
<2> HIDE DEF t
<2>7. \A k \in Node, r \in Proposal :
        relation'[k][r] = IF k = n /\ r = q THEN t ELSE relation[k][r]
  BY <1>1, <2>5, <2>6, SideReplaced DEF TypeOK
<2>8. \A k \in Node :
        syncing'[k] = IF k = n THEN syncing[k] \ {<<q, m.revision>>} ELSE syncing[k]
  BY <1>1, <2>6 DEF TypeOK
<2>9. ASSUME NEW r \in Proposal, r # q PROVE RelationInv(r)'
<3>1. Shrinks(r)
  BY <1>2, <2>7, <2>8, <2>9 DEF Shrinks
<3> QED BY <3>1, ShrinkKeeps DEF StepInv
<2>10. n \in {Proposer[q], Recipient[q]}
  BY <1>1 DEF RelationInv, Parties
<2>11. Remote(p, q) = n /\ p \in {Proposer[q], Recipient[q]} /\ p # n
  BY <1>1, <2>10, RemoteParty
<2>12. ~ Undecided(q) /\ ~ Decided(q)
  BY <1>1 DEF RelationInv, NotBefore
<2>13. OnePlace(q)' /\ NotBefore(q)'
  BY <1>1, <1>2, <2>12, SettledKeeps
<2>14. Parties(q)'
  BY <1>1, <1>2, <2>1, <2>7 DEF RelationInv, Parties
<2>15. \A e \in syncing'[n] : e[1] # q
<3>1. \A e \in syncing[n] : e = <<e[1], e[2]>>
  BY <1>1 DEF TypeOK, Entry
<3>2. \A e \in syncing[n] : e[1] = q => e = <<q, m.revision>>
  BY <2>3, <2>4, <3>1
<3>3. syncing'[n] = syncing[n] \ {<<q, m.revision>>}
  BY <1>1, <2>8
<3> QED BY <3>2, <3>3
<2>16. OwnTurn(q)'
<3>1. ASSUME NEW k \in Node, NEW e \in syncing'[k], e[1] = q, relation'[k][q].exists
      PROVE  relation'[k][q].turn = k /\ e[2] = relation'[k][q].revision + 1
<4>1. k # n
  BY <2>15, <3>1
<4>2. syncing'[k] = syncing[k] /\ relation'[k][q] = relation[k][q]
<5> HIDE DEF n, q, p
<5>1. q \in Proposal
  BY <1>1
<5> QED BY <2>7, <2>8, <4>1, <5>1
<4> QED BY <1>1, <3>1, <4>2 DEF RelationInv, OwnTurn
<3> QED BY <3>1 DEF OwnTurn
<2>17. /\ relation'[n][q].exists /\ relation'[n][q].turn = p
       /\ relation'[n][q].revision = s.revision + 1
       /\ relation'[p][q] = relation[p][q]
  BY <1>1, <2>4, <2>5, <2>7, <2>11
<2>18. Behind(q)'
<3>1. ASSUME NEW o \in boundaries, o.id = q, relation'[Remote(o.to, q)][q].exists
      PROVE  o.revision <= relation'[Remote(o.to, q)][q].revision + 1
<4>1. Remote(o.to, q) = n \/ Remote(o.to, q) = p
  BY <1>1, <2>10, <2>11, RemoteParty DEF p
<4>2. o.revision \in Nat
  BY <1>1 DEF TypeOK, Frame
<4>3. CASE Remote(o.to, q) = n
<5>1. o.revision <= s.revision + 1
  BY <1>1, <2>1, <3>1, <4>3 DEF RelationInv, Behind
<5> QED BY <2>2, <2>17, <4>2, <4>3, <5>1
<4>4. CASE Remote(o.to, q) = p
  BY <1>1, <2>17, <3>1, <4>4 DEF RelationInv, Behind
<4> QED BY <4>1, <4>3, <4>4
<3>2. ASSUME NEW o \in acks, o.id = q, relation'[Remote(o.to, q)][q].exists
      PROVE  o.revision <= relation'[Remote(o.to, q)][q].revision
<4>1. Remote(o.to, q) = n \/ Remote(o.to, q) = p
  BY <1>1, <2>10, <2>11, RemoteParty DEF p
<4>2. o.revision \in Nat
  BY <1>1 DEF TypeOK, Frame
<4>3. CASE Remote(o.to, q) = n
<5>1. o.revision <= s.revision
  BY <1>1, <2>1, <3>2, <4>3 DEF RelationInv, Behind
<5> QED BY <2>2, <2>17, <4>2, <4>3, <5>1
<4>4. CASE Remote(o.to, q) = p
  BY <1>1, <2>17, <3>2, <4>4 DEF RelationInv, Behind
<4> QED BY <4>1, <4>3, <4>4
<3> QED BY <1>2, <3>1, <3>2 DEF Behind
<2>19. Alternating(q)'
<3> SUFFICES ASSUME relation[p][q].exists
             PROVE  Ahead(q, n, p)' \/ Level(q, n, p)'
  BY <2>10, <2>11, <2>17, RemoteParty DEF Alternating, Both, Level, p
<3>0. relation[p][q] \in Side
  BY <1>1 DEF TypeOK
<3>1. relation[p][q] \in Side /\ relation[p][q].revision \in Nat
  BY <3>0, SideFields
<3>2. m.revision <= relation[p][q].revision
  BY <1>1 DEF RelationInv, Behind
<3>3. Level(q, n, p) \/ Ahead(q, n, p) \/ Ahead(q, p, n)
  BY <1>1, <2>1, <2>10, <2>11, RemoteParty DEF RelationInv, Alternating, Both, Level
<3>4. relation[p][q].revision = s.revision + 1 /\ relation[p][q].turn = p
  BY <2>2, <2>4, <2>11, <3>1, <3>2, <3>3 DEF Level, Ahead
<3> QED BY <2>17, <3>4 DEF Level
<2> QED BY <2>9, <2>13, <2>14, <2>16, <2>18, <2>19 DEF RelationInv
<1> QED BY <1>3, <1>4

-----------------------------------------------------------------------------
(* start begins with nothing pending. *)
LEMMA StartInv ==
    ASSUME Init
    PROVE  StepInv
<1>1. TypeOK
<2>1. faults \in SUBSET AllFaults /\ used \in SUBSET Proposal
  BY RelationshipAssumption DEF Init
<2>2. relation \in [Node -> [Proposal -> Side]]
  BY Installed DEF Init
<2>3. known \in [Node -> SUBSET Node]
  BY DEF Init
<2> QED BY <2>1, <2>2, <2>3 DEF Init, TypeOK
<1>2. ASSUME NEW r \in Proposal PROVE RelationInv(r)
<2>1. /\ ~ Offered(r) /\ ~ Deciding(r) /\ ~ Decided(r)
      /\ \A n \in Node : ~ relation[n][r].exists
  BY Installed DEF Init, Offered, Deciding, Decided
<2>2. OnePlace(r)
  BY <2>1 DEF Init, OnePlace
<2>3. NotBefore(r)
  BY <2>1, RemoteParty DEF Init, NotBefore
<2>4. Parties(r) /\ OwnTurn(r) /\ Behind(r) /\ Alternating(r)
  BY <2>1, RemoteParty DEF Init, Parties, OwnTurn, Behind, Alternating, Both
<2> QED BY <2>2, <2>3, <2>4 DEF RelationInv
<1> QED BY <1>1, <1>2 DEF StepInv

(* Every step keeps the invariant. *)
LEMMA StepKeeps ==
    ASSUME StepInv, [Next]_vars
    PROVE  StepInv'
<1>1. ASSUME NEW n \in Node, QuietAt(n) PROVE StepInv'
  BY <1>1, TypeQuiet, QuietShrinks, ShrinkKeeps DEF StepInv
<1>9. CASE QuietElsewhere
  BY <1>9, TypeQuietElsewhere, QuietElsewhereShrinks, ShrinkKeeps DEF StepInv
<1>2. ASSUME NEW n \in Node, NEW r \in Proposal, Negotiate(n, r) PROVE StepInv'
  BY <1>2, TypeNegotiation, NegotiateKeeps DEF StepInv
<1>3. ASSUME NEW n \in Node, NEW r \in Proposal, Synchronize(n, r) PROVE StepInv'
  BY <1>3, TypeSynchronisation, SynchronizeKeeps DEF StepInv
<1>4. ASSUME NEW n \in Node, NEW m \in deciding[n], Decide(n, m) PROVE StepInv'
  BY <1>4, TypeNegotiation, DecideKeeps DEF StepInv
<1>5. ASSUME NEW m \in proposals, HandleProposal(m) PROVE StepInv'
  BY <1>5, TypeNegotiation, HandleProposalKeeps DEF StepInv
<1>6. ASSUME NEW m \in decisions, HandleDecision(m) PROVE StepInv'
  BY <1>6, TypeNegotiation, HandleDecisionKeeps DEF StepInv
<1>7. ASSUME NEW m \in boundaries, HandleBoundary(m) PROVE StepInv'
  BY <1>7, TypeSynchronisation, HandleBoundaryKeeps DEF StepInv
<1>8. ASSUME NEW m \in acks, HandleAck(m) PROVE StepInv'
  BY <1>8, TypeSynchronisation, HandleAckKeeps DEF StepInv
<1> QED BY <1>1, <1>2, <1>3, <1>4, <1>5, <1>6, <1>7, <1>8, <1>9
         DEF Next, Tick, QuietAt, QuietElsewhere

(* The invariant holds in every state that is reached. *)
THEOREM RelationshipInvariant == Spec => []StepInv
<1>1. Init => StepInv
  BY StartInv
<1>2. StepInv /\ [Next]_vars => StepInv'
  BY StepKeeps
<1> QED BY <1>1, <1>2, PTL DEF Spec

(* Whatever is lost, late or repeated, and whichever timers fire when: the two *)
(* sides of a relationship are never more than one revision apart, and at the  *)
(* same revision agree whose turn it is (handleBoundary, handleAck).           *)
THEOREM SidesStayInStep == Spec => []SidesInStep
<1>1. ASSUME StepInv PROVE SidesInStep
<2> SUFFICES ASSUME NEW r \in Proposal, Both(r)
             PROVE  LET p == relation[Proposer[r]][r]
                        q == relation[Recipient[r]][r]
                    IN  /\ p.revision <= q.revision + 1
                        /\ q.revision <= p.revision + 1
                        /\ p.revision = q.revision => p.turn = q.turn
  BY DEF SidesInStep
<2> DEFINE p == relation[Proposer[r]][r]
           q == relation[Recipient[r]][r]
<2>1. p \in Side /\ p.exists /\ q \in Side /\ q.exists
  BY <1>1, RemoteParty DEF StepInv, TypeOK, Both
<2>2. \/ p.revision = q.revision /\ p.turn = q.turn
      \/ p.revision = q.revision + 1
      \/ q.revision = p.revision + 1
  BY <1>1 DEF StepInv, RelationInv, Alternating, Level, Ahead
<2> HIDE DEF p, q
<2>3. p.revision \in Nat /\ q.revision \in Nat
  BY <2>1, SideFields
<2>4. /\ p.revision <= q.revision + 1 /\ q.revision <= p.revision + 1
      /\ p.revision = q.revision => p.turn = q.turn
  BY <2>2, <2>3
<2> QED BY <2>4 DEF p, q
<1>2. StepInv => SidesInStep
  BY <1>1
<1> QED BY <1>2, RelationshipInvariant, PTL
=============================================================================
