SPECIFICATION Spec
CONSTANTS
    MinInterval = 1
    MaxContinuous = 2
    Day = 6
    NightEnd = 2
    NightRows = 3
    MinRows = 3
    RateRows = 3
    Recent = 2
    RecentRows = 3
    HistoryRows = 4
    RecentFloor = 1
    HistoryFloor = 3
    Multiplier = 3
    MaxRows = 6
    MaxNow = 8
INVARIANTS TypeOK
PROPERTIES FindsLongRuns AlertsStay EvenFlowIsNormal
CHECK_DEADLOCK FALSE
