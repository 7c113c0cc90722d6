CONSTANTS
    d1 = d1
    d2 = d2
    oncall = oncall
    failed_timeout = failed_timeout
    failed_auth = failed_auth
    NoDevice = NoDevice
    NoAssignee = NoAssignee
    Devices <- MCDevices
    Classes <- BothClasses
    Assignees <- MCAssignees
    EnvAssignee <- NoDefaults
    Policies <- MCPolicies
    LinkLoss = "link_loss"
    Window = 1
    MaxIncidents = 2
    MaxAudit = 1
    MaxTime = 3
    MaxEvents = 4
    Outage <- PollClass
    Failures <- MCFailures
SPECIFICATION PollSpec
SYMMETRY AnyFailure
INVARIANTS
    EventsAlternate
    
CHECK_DEADLOCK FALSE
