SPECIFICATION InputSpec
CONSTANTS
    Pins = {0, 1}
    QueueSize = 2
    SendSize = 2
    SendTime = 0
    MaxPulses = 3
    MaxTime = 2
    MaxReboots = 1
INVARIANTS TypeOK InSensedOrder SessionHasPulse OnlyFullBatches
PROPERTIES LostOnlyWhenFull BacklogIsDrained OncePerClosure HeldClosureIsCounted
CHECK_DEADLOCK FALSE
