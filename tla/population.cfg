SPECIFICATION FairSpec
CONSTANTS
    Universes = 3
    Worker = {"w1", "w2"}
    Commands = 2
    Ticks = 2
    Scenarios <- MCScenarios
INVARIANTS AbortReachesChildren SettledIsQuiet
PROPERTIES PopulationSettles EventuallyPublished
CHECK_DEADLOCK FALSE
