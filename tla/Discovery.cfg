CONSTANTS
    Servers = {s1}
    Handlers = {h1, h2}
    IPs <- TwoHosts
    Fields = {"community", "auth_pass"}
    Values = {v2}
    Initial = v1
    Blank = blank
    Known <- OneKnown
    MaxRequests = 2
    MaxRotations = 2
    Workers = {w1, w2}
    First = 0
    Last = 3
SPECIFICATION Spec
INVARIANTS
    EditsStick
    RotationIsWhole
    ScanIsComplete
PROPERTY ScanEnds
CHECK_DEADLOCK FALSE
