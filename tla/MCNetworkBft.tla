---------------------------- MODULE MCNetworkBft ----------------------------
(* Four members, the smallest committee the constructor accepts (f = 1). *)
EXTENDS NetworkBft, TLC

CONSTANTS n1, n2, n3, n4    \* the members, in the order of their ids
CONSTANTS x, y              \* commands

OrderOfFour == (0 :> n1) @@ (1 :> n2) @@ (2 :> n3) @@ (3 :> n4)

\* With MaxView = 0 only the first member leads; the others are alike.
ReplicaSymmetry == Permutations({n2, n3, n4}) \cup Permutations(Command)

\* With MaxView = 1 the first two lead.
TwoViewSymmetry == Permutations({n3, n4}) \cup Permutations(Command)

\* The behaviours in which the first leader proposes once, and nobody asks for
\* a view change before it has applied its command.
OneCommitThenViewChange ==
    /\ \A p, q \in proposed : p.view = q.view => p = q
    /\ viewMsgs # {} => applied[n1] # {}

\* The behaviours in which commands follow one another within the first view,
\* and those in which views change beside one command, with a member down.  In
\* the former all members may run, so that a commit is no longer awaited by the
\* round that follows and may be overtaken.
CommandsOrViews ==
    viewMsgs # {} => Cardinality(proposed) <= 1 /\ Cardinality(running) = quorum
=============================================================================
