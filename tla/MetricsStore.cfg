CONSTANTS
    j1 = j1
    j2 = j2
    Legacy <- MCLegacy
    Jobs <- TwoJobs
    BatchSize = 2
    Retain = 2
    First <- September
    MaxMonth <- LastMonth
    MaxId = 5
SPECIFICATION Spec
INVARIANTS
    IdsUnique
    DropLosesNothing
PROPERTIES
    PruneIsExact
CHECK_DEADLOCK FALSE
