\* Two packages approved one after the other; no service failure at all.
CONSTANTS
    Packages = {p1, p2}
    Legacy = {old}
    None = None
    Other = Other
    LeftOver = {}
    MaxFaults = 0
    Invocations = {i1, i2}
    MaxAttempts = 3
SPECIFICATION FairSpec
CHECK_DEADLOCK FALSE
PROPERTIES
    ApprovedIsAccepted
