\* Invocations overlap, operators start runs, and a retry may fail too.
CONSTANTS
    Invocations = {i1, i2}
    Cooldown = 1
    Limit = 1
    MaxAttempts = 2
    Serial = FALSE
    Manual = TRUE
    MaxTime = 2
    MaxEvents = 2
    MaxExecutions = 3
    MaxFaults = 2
SPECIFICATION Spec
SYMMETRY Symmetry
CHECK_DEADLOCK FALSE
INVARIANT OneRunPerEvent
