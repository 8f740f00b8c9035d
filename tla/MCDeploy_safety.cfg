\* Two packages, three events, every leftover, one service failure.
CONSTANTS
    Packages = {p1, p2}
    Legacy = {old}
    None = None
    Other = Other
    LeftOver = {Other}
    MaxFaults = 2
    Invocations = {i1, i2}
    MaxAttempts = 2
SPECIFICATION Spec
SYMMETRY Symmetry
CHECK_DEADLOCK FALSE
INVARIANTS
    TypeOK
    DeployedMatchesPackage
    SuccessMeansAccepted
PROPERTIES
    RevokedNeverDeployed
    ImplementsRelease
