SPECIFICATION Spec
CONSTANTS
    n1 = n1  n2 = n2  n3 = n3  n4 = n4
    x = x  y = y
    Node = {n1, n2, n3, n4}
    Order <- OrderOfFour
    Command = {x, y}
    MaxView = 0
    Down = {{}}
    FaultModels = {{"reject", "timeout", "applyThrows"}, {"stop"}, {"restore", "timeout"}, {"crash"}}
SYMMETRY ReplicaSymmetry
INVARIANTS TypeOK OncePerSequence SameViewAgreement ProposerFirst AppliedByQuorum
CHECK_DEADLOCK FALSE
