\* Both environments on the bus, one violation.
CONSTANTS
    Stages = {"dev", "prod"}
    MaxEvents = 1
SPECIFICATION BusSpec
CHECK_DEADLOCK FALSE
INVARIANT OneExecutionPerViolation
