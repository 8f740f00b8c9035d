\* Two requests over three hours, two runs, redeployments throughout; and
\* three executions that overlap while people approve and reject.
CONSTANTS
    Packages = {p1, p2}
    None = None
    Other = Other
    Requests = {r1, r2}
    Records = {a, b}
    Unreadable = Unreadable
    Invocations = {i1, i2}
    WindowHours = 1
    MinRecords = 2
    MinDistinctRecords = 2
    MaxAttempts = 2
    MaxHour = 2
    MaxFaults = 1
    Data = {d1, d2}
    MaxAuc = 1
    MaxRuns = 3
    AutoApprove = FALSE
    Operators = TRUE
    SerialRuns = FALSE
SPECIFICATION MCSpec
SYMMETRY Symmetry
CHECK_DEADLOCK FALSE
INVARIANTS
    WindowIsWhole
    WindowsDisjoint
    BlamesServingModel
    BeatsRecentChampion
    BaselineMatchesModel
