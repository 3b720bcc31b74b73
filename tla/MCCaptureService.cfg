SPECIFICATION AnsweringSpec
CONSTANTS
    eth0 = eth0
    eth1 = eth1
    ghost = ghost
    NoDevice = NoDevice
    DeviceList <- MCDeviceList
    Configs <- MCConfigs
    MaxPendingWrites = 2
INVARIANTS
    TypeOK
    CaptureOnOpenDevices
    CleanRestart
PROPERTIES
    StoreUsedCorrectly
    StopEndsProcess
    FailureRetried
