CONSTANTS
    d1 = d1
    d2 = d2
    d3 = d3
    d4 = d4
    w1 = w1
    w2 = w2
    DeviceList <- FourDevices
    Workers <- TwoWorkers
    Pools <- OneOrTwo
    Throttled = TRUE
    MaxFailures = 2
    MaxGap = 2
    MaxErrors = 1
    Flaky <- OneDevice
    Removable <- OneDevice
SPECIFICATION Spec
INVARIANTS
    StatusIsLatest
PROPERTIES
    ShutdownEnds
    RecoveryIsShown
CHECK_DEADLOCK FALSE
