SPECIFICATION FairSpec
CONSTANTS
    n1 = n1  n2 = n2  n3 = n3  n4 = n4
    x = x  y = y
    Node = {n1, n2, n3, n4}
    Order <- OrderOfFour
    Command = {x, y}
    MaxView = 1
    Down = {{}, {n4}}
    FaultModels = {{}}
INVARIANTS ViewBackedByQuorum
PROPERTIES ProposalCommits ViewReachesRunning
CONSTRAINT CommandsOrViews
CHECK_DEADLOCK FALSE
