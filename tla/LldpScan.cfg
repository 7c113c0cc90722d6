CONSTANTS
    d1 = d1
    d2 = d2
    switch = switch
    phone = phone
    Nothing = Nothing
    DeviceList <- TwoDevices
    Keys <- ThreeKeys
    Neighbors <- MCNeighbors
    Named <- Switch
    Described <- Phone
    Known <- Switch
    Cap = 2
    Initially <- MCInitially
    Movable <- MCMovable
    MaxScans = 2
    MaxReplugs = 1
    MaxErrors = 1
    MaxStops = 1
SPECIFICATION Spec
INVARIANTS
    LinksWereThere
    StableNeighborsAreLinked
    PageShowsWholeScan
PROPERTIES
    TopologyHeals
CHECK_DEADLOCK FALSE
