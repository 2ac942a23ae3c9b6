SPECIFICATION FairSpec
CONSTANTS
    left = left  right = right  r1 = r1  r2 = r2  r3 = r3
    Node = {left, right}
    Proposal = {r1, r2, r3}
    Proposer <- ProposedByBoth
    Recipient <- MadeToBoth
    Action = {"accept", "reject", "counter"}
    MaxRevision = 3
    Scenarios <- LossyBrokenOrPatient
INVARIANTS SidesInStep
PROPERTIES AlternationContinues RelationshipsMirrored
CHECK_DEADLOCK FALSE
