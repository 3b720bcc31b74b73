SPECIFICATION FairSpec
CONSTANTS
    eth0 = eth0
    eth1 = eth1
    ghost = ghost
    NoDevice = NoDevice
    DeviceList <- MCDeviceList
    Configs <- OneRoute
    MaxPendingWrites = 1
PROPERTIES
    StopEndsProcess
