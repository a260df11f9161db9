SPECIFICATION SyncFairSpec
CONSTANTS
    Faults = TRUE
    LinkDrops = TRUE
    MaxAnswers = 3
INVARIANTS SyncTypeOK ExclusiveUnlessLoose FinishMeansStamped
PROPERTIES SetDateTimeReturns ImplementsWebInit
CHECK_DEADLOCK FALSE
