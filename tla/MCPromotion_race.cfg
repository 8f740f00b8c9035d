\* Two executions overlap in dev.
CONSTANTS
    Data = {d1, d2}
    MaxAuc = 2
    MaxRuns = 2
    AutoApprove = TRUE
    Operators = FALSE
    SerialRuns = FALSE
SPECIFICATION PromotionSpec
CHECK_DEADLOCK FALSE
PROPERTY NoSilentRegression
