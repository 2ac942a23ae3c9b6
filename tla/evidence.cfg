SPECIFICATION FairSpec
CONSTANTS
    Runner = {"r1", "r2"}
    Attester = {"attester"}
    Answer = {1, 2}
    Unexpected = 0
    Ticks = 2
    MetricEvery = 2
    CheckpointEvery = 1
    Scenarios <- MCScenarios
INVARIANTS ReturnedIsPublished RefusedOnlyAfterHarm
PROPERTIES ImplementsEvidenceRecord EventuallyAttested
