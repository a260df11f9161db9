SPECIFICATION Spec
CONSTANTS
    Pins = {0, 1}
    Devices = {1, 2}
    DevicePin <- MCDevicePin
    MaxIndicator = 2
    Faults = FALSE
    ConnectAttempts = 2
    MaxPulses = 2
    MaxStale = 1
    MaxTokens = 2
INVARIANTS PinIdPerPin
CHECK_DEADLOCK FALSE
