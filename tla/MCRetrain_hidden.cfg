\* One invocation at a time, but an operator's run hides a longer drift run.
CONSTANTS
    Invocations = {i1}
    Cooldown = 1
    Limit = 1
    MaxAttempts = 1
    Serial = TRUE
    Manual = TRUE
    MaxTime = 3
    MaxEvents = 2
    MaxExecutions = 3
    MaxFaults = 0
SPECIFICATION Spec
CHECK_DEADLOCK FALSE
INVARIANT NoConcurrentRuns
