------------------------- MODULE RemoteRelationship -------------------------
(***************************************************************************)
(* Relationships between agents of different nodes: the negotiation and    *)
(* the alternating boundary synchronisation of                             *)
(* src/v2/distributed-discovery.ts.                                        *)
(*                                                                         *)
(* A relationship is named by the proposal it came from.  Frames travel    *)
(* over a connection of their own each, so they may overtake one another;  *)
(* one that is not sent or not accepted is lost.  Every node has one       *)
(* agent.  Terms, scores and boundaries are payload and are left out, and  *)
(* of an advertisement all but whose it is; the counts of useful exchanges *)
(* and of failures are left out too, the first because it moves with the   *)
(* revision.                                                               *)
(***************************************************************************)
EXTENDS Naturals, FiniteSets

CONSTANTS
    Node,           \* the nodes
    Proposal,       \* proposal ids; randomUUID never returns one twice
    Proposer,       \* the node that makes each proposal
    Recipient,      \* the node it is made to
    Action,         \* what a decision may say: "accept", "reject", "counter"
    MaxRevision,    \* bound: nobody synchronises beyond it
    Scenarios       \* the faults that may happen together, the proposals
                    \* whose negotiation has come to nothing before, and
                    \* whether the nodes have heard of one another

\* With "patience" a timer fires only when its frames have come to their end,
\* with "timeout" at any moment.
AllFaults == {"lost", "timeout", "patience", "stop", "unregister", "sendFails",
              "expire"}

ASSUME RelationshipAssumption ==
    /\ Proposer \in [Proposal -> Node]
    /\ Recipient \in [Proposal -> Node]
    /\ \A r \in Proposal : Proposer[r] # Recipient[r]
    /\ Action \subseteq {"accept", "reject", "counter"}
    /\ MaxRevision \in Nat
    /\ Scenarios \subseteq [faults : SUBSET AllFaults, used : SUBSET Proposal,
                              met : BOOLEAN]

VARIABLES
    faults,         \* what may go wrong in this behaviour, chosen at first
    alive,          \* the nodes whose process runs
    started,        \* the nodes whose handler is subscribed
    registered,     \* the nodes whose agent is in #localAgents
    known,          \* #remoteAdvertisements: the nodes whose agent each has
    adverts,        \* discovery.advertise in flight
    used,           \* the proposal ids given out
    relation,       \* #relationships of every node
    negotiating,    \* #pendingNegotiations: the proposals without a decision
    syncing,        \* #pendingSync: relationship and revision without an ack
    orphans,        \* those of both whose caller has gone, and awaits nothing
    proposals,      \* relationship.propose in flight
    deciding,       \* proposals inside the recipient's decide
    decisions,      \* relationship.decision in flight
    boundaries,     \* relationship.boundary in flight
    acks            \* relationship.ack in flight

network == <<proposals, decisions, boundaries, acks>>

discovery == <<known, adverts>>

vars == <<faults, alive, started, registered, discovery, used, relation,
          negotiating, syncing, orphans, proposals, deciding, decisions,
          boundaries, acks>>

Nobody == [exists |-> FALSE]

\* installRelationship: the proposer has the first turn.
Fresh(r) == [exists |-> TRUE, turn |-> Proposer[r], revision |-> 0, pending |-> 0]

Remote(n, r) == IF n = Proposer[r] THEN Recipient[r] ELSE Proposer[r]

Init ==
    /\ alive = Node
    /\ started = Node
    /\ registered = Node
    /\ \E scenario \in Scenarios :
         /\ faults = scenario.faults
         /\ used = scenario.used
         /\ known = [n \in Node |-> IF scenario.met THEN Node \ {n} ELSE {}]
    /\ adverts = {}
    /\ relation = [n \in Node |-> [r \in Proposal |-> Nobody]]
    /\ negotiating = [n \in Node |-> {}]
    /\ syncing = [n \in Node |-> {}]
    /\ orphans = [n \in Node |-> {}]
    /\ proposals = {}
    /\ deciding = [n \in Node |-> {}]
    /\ decisions = {}
    /\ boundaries = {}
    /\ acks = {}

-----------------------------------------------------------------------------
(* Discovery *)

\* announceAll, to all the others; an advertisement that would refresh one its
\* receiver holds changes nothing here, one that cannot be sent is lost.
Announce(n) ==
    LET strangers == {m \in Node \ {n} : n \notin known[m]}
        sent == [from : {n}, to : strangers]
    IN  /\ n \in alive \cap registered
        /\ ~ sent \subseteq adverts
        /\ adverts' = adverts \cup sent
        /\ UNCHANGED <<faults, alive, started, registered, known, used,
                       relation, negotiating, syncing, orphans, deciding,
                       network>>

\* discovery.advertise: taken over, unless its time is up.
HandleAdvertisement(a) ==
    /\ a \in adverts
    /\ a.to \in started
    /\ adverts' = adverts \ {a}
    /\ \/ known' = [known EXCEPT ![a.to] = @ \cup {a.from}]
       \/ "expire" \in faults /\ UNCHANGED known
    /\ UNCHANGED <<faults, alive, started, registered, used, relation,
                   negotiating, syncing, orphans, deciding, network>>

\* expire: what is not refreshed is dropped.
Expire(n) ==
    /\ "expire" \in faults
    /\ n \in alive
    /\ \E m \in known[n] : known' = [known EXCEPT ![n] = @ \ {m}]
    /\ UNCHANGED <<faults, alive, started, registered, adverts, used, relation,
                   negotiating, syncing, orphans, deciding, network>>

\* The nodes a node keeps a relationship with.
Related(n) == {Remote(n, r) : r \in {q \in Proposal : relation[n][q].exists}}

\* candidates: whom a node knows of and has no relationship with.
Candidates(n) == known[n] \ Related(n)

-----------------------------------------------------------------------------
(* Negotiation *)

\* requestDecision: the pending entry, then the frame.  A send that throws
\* leaves the entry and its timer, and nobody to await the outcome.
RequestDecision(n, r, round) ==
    /\ used' = used \cup {r}
    /\ \/ /\ proposals' = proposals \cup {[id |-> r, round |-> round]}
          /\ UNCHANGED orphans
       \/ /\ "sendFails" \in faults
          /\ orphans' = [orphans EXCEPT ![n] = @ \cup {<<r, 0>>}]
          /\ UNCHANGED proposals

\* discoverAndConnect: negotiate, for one of the candidates.
Negotiate(n, r) ==
    /\ n \in alive \cap registered
    /\ r \notin used
    /\ n = Proposer[r]
    /\ Recipient[r] \in Candidates(n)
    /\ negotiating' = [negotiating EXCEPT ![n] = @ \cup {r}]
    /\ RequestDecision(n, r, 1)
    /\ UNCHANGED <<faults, alive, started, registered, discovery, relation,
                   syncing, deciding, decisions, boundaries, acks>>

\* handleProposal, up to the await of decide; one from a stranger is ignored.
HandleProposal(m) ==
    LET n == Recipient[m.id]
    IN  /\ m \in proposals
        /\ n \in started
        /\ proposals' = proposals \ {m}
        /\ deciding' = IF n \in registered /\ Proposer[m.id] \in known[n]
                       THEN [deciding EXCEPT ![n] = @ \cup {m}] ELSE deciding
        /\ UNCHANGED <<faults, alive, started, registered, discovery, used,
                       relation, negotiating, syncing, orphans, decisions,
                       boundaries, acks>>

\* Fault: the recipient keeps the turn to itself.
DecideAndBegin(n, m) ==
    /\ m \in deciding[n]
    /\ deciding' = [deciding EXCEPT ![n] = @ \ {m}]
    /\ \E action \in Action :
         /\ relation' = IF action = "accept"
                        THEN [relation EXCEPT ![n][m.id] =
                                [Fresh(m.id) EXCEPT !.turn = n]]
                        ELSE relation
         /\ decisions' = decisions \cup
                {[id |-> m.id, round |-> m.round, action |-> action]}
    /\ UNCHANGED <<faults, alive, started, registered, discovery, used,
                   negotiating, syncing, orphans, proposals, boundaries, acks>>

\* handleProposal, after the await: an accepted relationship is installed
\* before the decision is sent.
Decide(n, m) ==
    /\ m \in deciding[n]
    /\ deciding' = [deciding EXCEPT ![n] = @ \ {m}]
    /\ \E action \in Action :
         /\ relation' = IF action = "accept"
                        THEN [relation EXCEPT ![n][m.id] = Fresh(m.id)]
                        ELSE relation
         /\ decisions' = decisions \cup
                {[id |-> m.id, round |-> m.round, action |-> action]}
    /\ UNCHANGED <<faults, alive, started, registered, discovery, used,
                   negotiating, syncing, orphans, proposals, boundaries, acks>>

\* Fault: the pending entry of the second round is missed.
AwaitedInFirstRound(n, m) == m.id \in negotiating[n] /\ m.round = 1

\* Whether negotiate still waits for a decision.
Awaited(n, m) == m.id \in negotiating[n]

\* relationship.decision, and what negotiate does with it: install, give up,
\* or, after a first counter-offer, propose its terms under a new id.
HandleDecision(m) ==
    LET n == Proposer[m.id]
        awaited == Awaited(n, m)
        others == [negotiating EXCEPT ![n] = @ \ {m.id}]
    IN  /\ m \in decisions
        /\ n \in started
        /\ decisions' = decisions \ {m}
        /\ \/ /\ awaited /\ m.action = "accept"
              /\ relation' = [relation EXCEPT ![n][m.id] = Fresh(m.id)]
              /\ negotiating' = others
              /\ UNCHANGED <<used, proposals, orphans>>
           \/ /\ awaited /\ m.action = "counter" /\ m.round = 1
              /\ \E r \in Proposal \ used :
                   /\ Proposer[r] = n
                   /\ Recipient[r] = Recipient[m.id]
                   /\ negotiating' = [others EXCEPT ![n] = @ \cup {r}]
                   /\ RequestDecision(n, r, 2)
              /\ UNCHANGED relation
           \/ /\ \/ ~ awaited
                 \/ m.action = "reject"
                 \/ m.action = "counter" /\ m.round = 2
              /\ negotiating' = others
              /\ UNCHANGED <<used, relation, proposals, orphans>>
        /\ UNCHANGED <<faults, alive, started, registered, discovery, syncing,
                       deciding, boundaries, acks>>

-----------------------------------------------------------------------------
(* Synchronisation *)

\* synchronize, on the own turn: the pending revision and the frame.
Synchronize(n, r) ==
    LET old == relation[n][r]
        next == old.revision + 1
    IN  /\ n \in alive \cap registered
        /\ old.exists
        /\ old.turn = n
        /\ old.pending = 0
        /\ next <= MaxRevision
        /\ relation' = [relation EXCEPT ![n][r].pending = next]
        /\ syncing' = [syncing EXCEPT ![n] = @ \cup {<<r, next>>}]
        /\ \/ /\ boundaries' = boundaries \cup
                    {[to |-> Remote(n, r), id |-> r, revision |-> next]}
              /\ UNCHANGED orphans
           \/ /\ "sendFails" \in faults
              /\ orphans' = [orphans EXCEPT ![n] = @ \cup {<<r, next>>}]
              /\ UNCHANGED boundaries
        /\ UNCHANGED <<faults, alive, started, registered, discovery, used,
                       negotiating, proposals, deciding, decisions, acks>>

\* Fault: the turn is compared with the receiver instead of the sender.
AcceptsOnOwnTurn(n, m) ==
    /\ relation[n][m.id].exists
    /\ m.revision = relation[n][m.id].revision + 1
    /\ relation[n][m.id].turn = n

\* What handleBoundary asks of a boundary; another one counts as a failure.
Accepts(n, m) ==
    /\ relation[n][m.id].exists
    /\ m.revision = relation[n][m.id].revision + 1
    /\ relation[n][m.id].turn = Remote(n, m.id)

\* handleBoundary: the receiver takes the turn, and acknowledges.
HandleBoundary(m) ==
    LET n == m.to
    IN  /\ m \in boundaries
        /\ n \in started
        /\ boundaries' = boundaries \ {m}
        /\ IF Accepts(n, m)
           THEN /\ relation' = [relation EXCEPT ![n][m.id] =
                                  [@ EXCEPT !.revision = m.revision, !.turn = n]]
                /\ acks' = acks \cup {[m EXCEPT !.to = Remote(n, m.id)]}
           ELSE UNCHANGED <<relation, acks>>
        /\ UNCHANGED <<faults, alive, started, registered, discovery, used,
                       negotiating, syncing, orphans, proposals, deciding,
                       decisions>>

\* The pending entry an acknowledgement is for.
Expects(n, m) == relation[n][m.id].exists /\ <<m.id, m.revision>> \in syncing[n]

\* handleAck: the turn passes to the other side.
HandleAck(m) ==
    LET n == m.to
    IN  /\ m \in acks
        /\ n \in started
        /\ acks' = acks \ {m}
        /\ IF Expects(n, m)
           THEN /\ relation' = [relation EXCEPT ![n][m.id] =
                     [@ EXCEPT !.pending = 0, !.revision = m.revision,
                               !.turn = Remote(n, m.id)]]
                /\ syncing' = [syncing EXCEPT ![n] = @ \ {<<m.id, m.revision>>}]
                /\ orphans' = [orphans EXCEPT ![n] = @ \ {<<m.id, m.revision>>}]
           ELSE UNCHANGED <<relation, syncing, orphans>>
        /\ UNCHANGED <<faults, alive, started, registered, discovery, used,
                       negotiating, proposals, deciding, decisions,
                       boundaries>>

-----------------------------------------------------------------------------
(* Timers, losses and the life of a node *)

Forget(n) ==
    /\ negotiating' = [negotiating EXCEPT ![n] = {}]
    /\ syncing' = [syncing EXCEPT ![n] = {}]
    /\ orphans' = [orphans EXCEPT ![n] = {}]

\* A promise that nobody awaits is rejected: an unhandled rejection, which
\* ends a Node.js process.
Die(n) ==
    /\ alive' = alive \ {n}
    /\ started' = started \ {n}
    /\ relation' = [relation EXCEPT ![n] = [r \in Proposal |-> Nobody]]
    /\ deciding' = [deciding EXCEPT ![n] = {}]
    /\ known' = [known EXCEPT ![n] = {}]
    /\ Forget(n)
    /\ UNCHANGED <<faults, registered, adverts, used, network>>

\* Whether a timer can fire while frames of its call may be under way.
MayFire(underWay) ==
    \/ "timeout" \in faults
    \/ "patience" \in faults /\ ~ underWay

NegotiationTimeout(n, r) ==
    /\ r \in negotiating[n]
    /\ MayFire(\E m \in proposals \cup deciding[Remote(n, r)] \cup decisions : m.id = r)
    /\ IF <<r, 0>> \in orphans[n] THEN Die(n)
       ELSE /\ negotiating' = [negotiating EXCEPT ![n] = @ \ {r}]
            /\ UNCHANGED <<faults, alive, started, registered, discovery, used,
                           relation, syncing, orphans, deciding, network>>

SyncTimeout(n, entry) ==
    /\ entry \in syncing[n]
    /\ MayFire(\E m \in boundaries \cup acks : <<m.id, m.revision>> = entry)
    /\ IF entry \in orphans[n] THEN Die(n)
       ELSE /\ syncing' = [syncing EXCEPT ![n] = @ \ {entry}]
            /\ relation' = IF relation[n][entry[1]].exists
                           THEN [relation EXCEPT ![n][entry[1]].pending = 0]
                           ELSE relation
            /\ UNCHANGED <<faults, alive, started, registered, discovery, used,
                           negotiating, orphans, deciding, network>>

Lose ==
    /\ "lost" \in faults
    /\ \/ /\ \E a \in adverts : adverts' = adverts \ {a}
          /\ UNCHANGED network
       \/ /\ \E m \in proposals : proposals' = proposals \ {m}
          /\ UNCHANGED <<adverts, decisions, boundaries, acks>>
       \/ /\ \E m \in decisions : decisions' = decisions \ {m}
          /\ UNCHANGED <<adverts, proposals, boundaries, acks>>
       \/ /\ \E m \in boundaries : boundaries' = boundaries \ {m}
          /\ UNCHANGED <<adverts, proposals, decisions, acks>>
       \/ /\ \E m \in acks : acks' = acks \ {m}
          /\ UNCHANGED <<adverts, proposals, decisions, boundaries>>
    /\ UNCHANGED <<faults, alive, started, registered, known, used, relation,
                   negotiating, syncing, orphans, deciding>>

\* stop rejects what is pending and forgets it; relationships stay.
Stop(n) ==
    /\ "stop" \in faults
    /\ n \in started
    /\ IF orphans[n] # {} THEN Die(n)
       ELSE /\ started' = started \ {n}
            /\ Forget(n)
            /\ UNCHANGED <<faults, alive, registered, discovery, used,
                           relation, deciding, network>>

Start(n) ==
    /\ n \in alive \ started
    /\ started' = started \cup {n}
    /\ UNCHANGED <<faults, alive, registered, discovery, used, relation,
                   negotiating, syncing, orphans, deciding, network>>

\* unregisterAgent: the relationships of the agent go, their calls stay, and
\* one that is being decided is installed all the same.
Unregister(n) ==
    /\ "unregister" \in faults
    /\ n \in alive \cap registered
    /\ registered' = registered \ {n}
    /\ relation' = [relation EXCEPT ![n] = [r \in Proposal |-> Nobody]]
    /\ UNCHANGED <<faults, alive, started, discovery, used, negotiating,
                   syncing, orphans, deciding, network>>

Register(n) ==
    /\ n \in alive \ registered
    /\ registered' = registered \cup {n}
    /\ UNCHANGED <<faults, alive, started, discovery, used, relation,
                   negotiating, syncing, orphans, deciding, network>>

-----------------------------------------------------------------------------

\* tick, and the calls an operator may make without it: each part at any moment.
Tick(n) ==
    \/ Announce(n)
    \/ Expire(n)
    \/ \E r \in Proposal : Negotiate(n, r) \/ Synchronize(n, r)

Next ==
    \/ \E n \in Node :
         \/ Tick(n)
         \/ \E m \in deciding[n] : Decide(n, m)
         \/ \E r \in negotiating[n] : NegotiationTimeout(n, r)
         \/ \E entry \in syncing[n] : SyncTimeout(n, entry)
         \/ Stop(n) \/ Start(n) \/ Unregister(n) \/ Register(n)
    \/ \E a \in adverts : HandleAdvertisement(a)
    \/ \E m \in proposals : HandleProposal(m)
    \/ \E m \in decisions : HandleDecision(m)
    \/ \E m \in boundaries : HandleBoundary(m)
    \/ \E m \in acks : HandleAck(m)
    \/ Lose

Spec == Init /\ [][Next]_vars

\* Frames that are sent arrive, decisions are made, timers fire, and the tick
\* of a node synchronises what has its turn again and again.
Fairness ==
    /\ WF_vars(\E m \in proposals : HandleProposal(m))
    /\ WF_vars(\E m \in decisions : HandleDecision(m))
    /\ WF_vars(\E m \in boundaries : HandleBoundary(m))
    /\ WF_vars(\E m \in acks : HandleAck(m))
    /\ \A n \in Node :
         /\ WF_vars(\E m \in deciding[n] : Decide(n, m))
         /\ WF_vars(\E entry \in syncing[n] : SyncTimeout(n, entry))
         /\ \A r \in Proposal : WF_vars(Synchronize(n, r))

FairSpec == Spec /\ Fairness

-----------------------------------------------------------------------------
(* Properties *)

Both(r) == relation[Proposer[r]][r].exists /\ relation[Recipient[r]][r].exists

\* Whatever is lost, late or repeated, the two sides of a relationship are
\* never more than one revision apart, and sides that have reached the same
\* revision agree on whose turn it is.
SidesInStep ==
    \A r \in Proposal : Both(r) =>
        LET p == relation[Proposer[r]][r]
            q == relation[Recipient[r]][r]
        IN  /\ p.revision <= q.revision + 1
            /\ q.revision <= p.revision + 1
            /\ p.revision = q.revision => p.turn = q.turn

\* Both sides have synchronised as often as the bound lets them.
AtTheBound(r) ==
    /\ Both(r)
    /\ \A n \in {Proposer[r], Recipient[r]} : relation[n][r].revision = MaxRevision

\* No frame is lost, and no timer fires before its frames have come to their end.
Patient == faults \subseteq {"patience"}

\* With patience, relationships that exist on both sides keep alternating
\* boundaries: each side gets its turn, takes it and passes it on.
AlternationContinues ==
    \A r \in Proposal : Patient /\ Both(r) ~> AtTheBound(r)

\* With patience, a relationship that the recipient has installed appears at the
\* proposer, after counter-offers too.
RelationshipsMirrored ==
    \A r \in Proposal :
        Patient /\ relation[Recipient[r]][r].exists
            ~> relation[Proposer[r]][r].exists

\* What docs/AUTONOMOUS_MESH.md says of relationships, which the code does not
\* keep when a timer fires before the answer it waits for.
Alternates == \A r \in Proposal : Both(r) ~> AtTheBound(r)

\* What a comment in distributed-discovery.ts says: a negotiation that fails
\* does not keep the node from the others.  The code does not keep this when a
\* frame cannot be sent: the node's process ends.
FailureIsContained == alive = Node
=============================================================================
