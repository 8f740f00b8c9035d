\* One package, two duplicate events, foreign resources and failures possible.
CONSTANTS
    Packages = {p1}
    Legacy = {old}
    None = None
    Other = Other
    LeftOver = {Other}
    MaxFaults = 2
    Invocations = {i1, i2}
    MaxAttempts = 2
SPECIFICATION FairSpec
CHECK_DEADLOCK FALSE
PROPERTIES
    ApprovedIsServed
    EventsSettle
