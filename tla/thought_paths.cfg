SPECIFICATION FairSpec
CONSTANTS
    t1 = t1  t2 = t2
    Thought = {t1, t2}
    Reserve <- Reservations
    Usage <- AllUsages
    Funds <- ScarceAndAmple
    FaultModels = {{"providerThrows", "decisionThrows"}, {"storageFails"}}
INVARIANTS EndedIsSettled PaidAsAgreed
PROPERTIES AnsweredIsReleased
CHECK_DEADLOCK FALSE
