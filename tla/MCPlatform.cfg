\* The website: two visitors of whom each may be refused, three submissions and
\* a restart; more reports than a page lists; one address typed in two ways.
\* The loop: one change of the world, a failure.  The account: both
\* environments, a changed flag, a teardown.  The bus: two events.
CONSTANTS
    Visitors = {v1, v2}
    Records = {r1, bad}
    Invalid = {bad}
    Nothing = Nothing
    Limit = 2
    Window = 2
    MaxMoment = 2
    MaxSubmits = 3
    MaxRestarts = 1
    Ttl = 2
    PageSize = 2
    MaxReports = 3
    MaxClock = 5
    s1 = s1
    s2 = s2
    Signups = {s1, s2}
    Spelling <- MCSpelling
    Normal <- MCNormal
    MaxSeconds = 3
    MaxEpoch = 1
    MaxAuc = 2
    NoProgressLimit = 1
    MaxViolations = 2
    MaxTroubles = 1
    Environments = {"dev", "prod"}
    Owner = "dev"
    MaxEdits = 1
    MaxTeardowns = 1
    Stages = {"dev", "prod"}
    MaxEvents = 2
SPECIFICATION MCSpec
CHECK_DEADLOCK FALSE
INVARIANTS
    PlatformTypeOK
    ShowsLastSubmission
    ServedIsFresh
    OneJoiningTime
    RejectedForCause
    BlockLostToOther
    AlertsArrive
    OwnAlertsOnly
    NothingDenied
    ModelsFromUploads
PROPERTIES
    LimiterExact
    EverySubmissionAnswered
    CorrectedOrTold
    DeploymentsEnd
