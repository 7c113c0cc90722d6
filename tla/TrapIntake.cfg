CONSTANTS
    Oids <- LinkOids
    Configured <- LinkRules
    Rules <- OtherRules
    MaxPackets = 3
    MaxChanges = 1
    MaxFaults = 1
SPECIFICATION Spec
INVARIANTS
    TrapsBackIncidents
    RecoveryClearsEarlier
CHECK_DEADLOCK FALSE
