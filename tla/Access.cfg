CONSTANTS
    s1 = s1
    s2 = s2
    h1 = h1
    h2 = h2
    ip1 = ip1
    u1 = u1
    Servers <- TwoServers
    Handlers <- TwoHandlers
    Addresses <- OneAddress
    Users <- OneUser
    Keys <- AllKeys
    MaxFails <- Limits
    Window = 1
    Lockout = 3
    SessionTTL = 2
    FailClosed = TRUE
    MaxTime = 4
    MaxRequests = 4
    MaxFaults = 1
SYMMETRY Alike
SPECIFICATION Spec
INVARIANTS
    LockoutHolds
    NoOverrun
    LocksEnd
    LogoutSticks
CHECK_DEADLOCK FALSE
