SPECIFICATION Spec
CONSTANTS
    c1 = c1  c2 = c2  c3 = c3
    None = None
    Torn = Torn
    Command = {c1, c2, c3}
    Credits = {c1}
    Debits = {c2}
    CheckpointEvery = 2
    MaxRecords = 4
    FaultModels = {{"overdraft", "crash", "torn", "syncFails"}, {"overdraft", "crash", "torn", "shutdown"}, {"crash"}}
INVARIANTS RecoverySucceeds SnapshotAnchored RecoveryFaithful
PROPERTIES ImplementsCommandLog
CHECK_DEADLOCK FALSE
