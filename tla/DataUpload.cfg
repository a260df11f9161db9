SPECIFICATION FairSpec
CONSTANTS
    Pins = {0, 1}
    Devices = {1, 2}
    DevicePin <- MCDevicePin
    MaxIndicator = 1
    Faults = TRUE
    ConnectAttempts = 2
    MaxPulses = 2
    MaxStale = 1
    MaxTokens = 2
INVARIANTS TypeOK RecordedOnce BatchAtomic IndicatorAgrees SuccessMeansRecorded
PROPERTIES CallReturns
CHECK_DEADLOCK FALSE
