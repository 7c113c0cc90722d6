CONSTANTS
    d1 = d1
    l2 = l2
    l3 = l3
    manager = manager
    NoDevice = NoDevice
    NoAssignee = NoAssignee
    Devices <- MCDevices
    Classes <- MCClasses
    Assignees <- MCAssignees
    EnvAssignee <- NoDefaults
    Policies <- ExamplePolicies
    LinkLoss = "link_loss"
    Window = 1
    MaxIncidents = 1
    MaxAudit = 12
    MaxTime = 4
    Settings <- Example
    MaxOps = 2
    MaxErrors = 1
SPECIFICATION EscalationSpec
INVARIANTS
    HandoversBounded
PROPERTIES
    StageTwoTakesOver
CHECK_DEADLOCK FALSE
