SPECIFICATION Spec
CONSTANTS
    n1 = n1  n2 = n2  n3 = n3  n4 = n4
    x = x  y = y
    Node = {n1, n2, n3, n4}
    Order <- OrderOfFour
    Command = {x, y}
    MaxView = 1
    Down = {{}}
    FaultModels = {{}}
SYMMETRY TwoViewSymmetry
INVARIANTS Agreement
CONSTRAINT OneCommitThenViewChange
CHECK_DEADLOCK FALSE
