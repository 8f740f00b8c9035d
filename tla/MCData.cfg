\* Uploads of one key: overlapping invocations, failures and dead letters.
\* Records that differ from a plain one in two columns.  Five to seventeen
\* records to split, where each split is dealt more rows than were reserved for
\* it; up to four rows outside the majority class.  Windows as large as the
\* sample, with a category the vocabulary lacks.  Three executions in dev, one
\* after the other, while the curated data may change.
CONSTANTS
    ReceiveLimit = 2
    Uploads <- MCUploads
    MaxUploads = 2
    MaxMessages = 3
    MaxFaults = 2
    BadLabels = {"Maybe"}
    Lossy = {}
    Counts = {5, 6, 7, 8, 11, 17}
    MaxOdd = 3
    Numbers = {0, 1, 2}
    Infinite = {2}
    Known = {"a"}
    Unknown = {"z"}
    Bins = 3
    MaxSample = 4
    MaxWindow = 3
    Data = {d1, d2}
    MaxAuc = 2
    MaxRuns = 3
    AutoApprove = TRUE
    Operators = FALSE
    SerialRuns = TRUE
SPECIFICATION MCSpec
CHECK_DEADLOCK FALSE
INVARIANTS
    DataTypeOK
    SettledOnNewest
    DeadForCause
    AcceptedIsEncoded
    TrainsAsServed
    SoundSplits
    SoundBaseline
PROPERTIES
    ObjectsAreMirrors
    DataPathEnds
    ChampionImproves
