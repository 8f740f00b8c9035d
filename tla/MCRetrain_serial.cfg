\* Invocations do not overlap and only drift starts runs.
CONSTANTS
    Invocations = {i1, i2}
    Cooldown = 2
    Limit = 2
    MaxAttempts = 2
    Serial = TRUE
    Manual = FALSE
    MaxTime = 6
    MaxEvents = 4
    MaxExecutions = 4
    MaxFaults = 1
SPECIFICATION Spec
SYMMETRY Symmetry
CHECK_DEADLOCK FALSE
INVARIANTS
    NoConcurrentRuns
    CooldownKept
    StalledLoopStops
