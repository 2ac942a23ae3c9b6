------------------------ MODULE MCRemoteRelationship ------------------------
(* Two nodes and up to three proposals. *)
EXTENDS RemoteRelationship, TLC

CONSTANTS left, right   \* the nodes
CONSTANTS r1, r2, r3    \* proposals

\* Two by the left node, so that a counter-offer has an id to be made under,
\* and one the other way.
ProposedByBoth == (r1 :> left) @@ (r2 :> left) @@ (r3 :> right)

MadeToBoth == (r1 :> right) @@ (r2 :> right) @@ (r3 :> left)

\* Between nodes that have met: two proposals with losses and timers that fire
\* at any moment, one with everything else that may go wrong, and all three in a
\* network that is slow but answers.  Between strangers: one, with
\* advertisements that are lost or expire.
LossyBrokenOrPatient ==
    {[faults |-> {"lost", "timeout"}, used |-> {r3}, met |-> TRUE],
     [faults |-> AllFaults \ {"expire"}, used |-> {r2, r3}, met |-> TRUE],
     [faults |-> {"patience"}, used |-> {}, met |-> TRUE],
     [faults |-> {"lost", "expire", "timeout"}, used |-> {r2, r3}, met |-> FALSE]}

\* One proposal, and timers that fire at any moment.
Impatient == {[faults |-> {"timeout"}, used |-> {r2, r3}, met |-> TRUE]}
=============================================================================
