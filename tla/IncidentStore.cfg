CONSTANTS
    d1 = d1
    oncall = oncall
    manager = manager
    NoDevice = NoDevice
    NoAssignee = NoAssignee
    Devices <- MCDevices
    Classes <- MixedClasses
    Assignees <- MCAssignees
    EnvAssignee <- MCEnvAssignee
    Policies <- MCPolicies
    LinkLoss = "link_loss"
    Window = 1
    MaxIncidents = 1
    MaxAudit = 5
    MaxTime = 3
SPECIFICATION Spec
INVARIANTS
    AuditChain
    StampsMatchAudit
PROPERTIES
    HistoryPreserved
    ImplementsLifecycle
CHECK_DEADLOCK FALSE
