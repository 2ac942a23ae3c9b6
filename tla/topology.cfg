SPECIFICATION FairSpec
CONSTANTS
    Agent = {1, 2, 3}
    ReviewEvery = 2
    MaxInteractions = 2
    Round = {1, 2}
    LinkId = {1, 2}
    MaxNew = 1
    MaxOffers = 2
    Scenarios <- MCScenarios
INVARIANTS Integrity NothingLeftNegotiating AgreementKept
PROPERTIES TurnComesRound
CHECK_DEADLOCK FALSE
