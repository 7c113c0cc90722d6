CONSTANTS
    a1 = a1
    a2 = a2
    r1 = r1
    w1 = w1
    Nobody = Nobody
    Alarms <- TwoAlarms
    Recoveries <- OneRecovery
    Writers <- OneWriter
    Window = 1
    MaxTime = 3
SPECIFICATION Spec
INVARIANTS
    RecoveryIsComplete
PROPERTIES
    NoTwins
    EveryoneFinishes
CHECK_DEADLOCK FALSE
