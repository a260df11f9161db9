SPECIFICATION SystemSpec
CONSTANTS
    Pins = {0}
    QueueSize = 2
    SendSize = 2
    SendTime = 0
    MaxTime = 1
    MaxReboots = 1
    MaxPulses = 4
    Devices = {1}
    DevicePin <- MCDevicePin
    MaxIndicator = 4
    Faults = TRUE
    LinkDrops = TRUE
    ConnectAttempts = 2
    MaxStale = 1
    MaxTokens = 1
INVARIANTS OnePlace
PROPERTIES SessionEndsOffline KeepsPromise ImplementsUpload
CHECK_DEADLOCK FALSE
