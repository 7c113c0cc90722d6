CONSTANTS
    d1 = d1
    oncall = oncall
    r1 = r1
    r2 = r2
    w1 = w1
    w2 = w2
    NoDevice = NoDevice
    NoAssignee = NoAssignee
    NoEvent = NoEvent
    NoOwner = NoAssignee
    Devices <- MCDevices
    Classes <- MCClasses
    Assignees <- MCAssignees
    EnvAssignee <- NoDefaults
    Policies <- MCPolicies
    LinkLoss = "link_loss"
    Window = 1
    MaxIncidents = 1
    MaxAudit = 3
    MaxTime = 1
    Requests <- TwoRequests
    Workers <- TwoWorkers
    QueueSize = 1
    MaxRetries = 1
    BulkIds <- MCBulkIds
    InboundMappings <- MCMappings
    InboundProvider = "generic"
    InboundRequests <- MCInboundRequests
    MaxRequests = 2
    MaxOthers = 1
    MaxRestarts = 1
SPECIFICATION EventsSpec
INVARIANTS
    EventsDoNotLag
    NoSilentLoss
PROPERTIES
    EventsAreHandled
CHECK_DEADLOCK FALSE
