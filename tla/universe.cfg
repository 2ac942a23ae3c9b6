SPECIFICATION UniverseSpec
CONSTANTS
    Agents = 2
    Ticks = 4
    Tasks = 3
    PPM = 2
    InitialResources <- MCInitial
    TreasuryResources <- MCTreasury
    Costs <- MCCosts
    AcceptedTaskReward <- MCReward
    TasksPerTick = 1
    DeadlineTicks = 2
    MaxBacklog = 2
    MetricEvery = 2
    Publications <- MCPublications
    Inputs <- MCInputs
    MaxPlanSteps = 2
    MaxInterfaceFields = 2
    MaxTestVectors = 1
    MaxConcatLength = 2
    MaxSafeInteger = 3
    Scenarios <- MCScenarios
    AgentsPerTick = 1
    CheckpointEvery = 2
    Restarts = 1
INVARIANTS ResourcesConserved PauseIsResumable RefusedForKnownReason EngineNeverThrows
CHECK_DEADLOCK FALSE

