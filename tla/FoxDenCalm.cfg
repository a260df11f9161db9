SPECIFICATION SystemFairSpec
CONSTANTS
    Pins = {0}
    QueueSize = 3
    SendSize = 2
    SendTime = 0
    MaxTime = 1
    MaxReboots = 0
    MaxPulses = 5
    Devices = {1}
    DevicePin <- MCDevicePin
    MaxIndicator = 5
    Faults = FALSE
    LinkDrops = FALSE
    ConnectAttempts = 2
    MaxStale = 0
    MaxTokens = 2
INVARIANTS RecordedInOrder
PROPERTIES BacklogIsRecorded
CHECK_DEADLOCK FALSE
