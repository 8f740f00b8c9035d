\* The committed configuration, deployed, torn down, cleaned up and deployed.
CONSTANTS
    Environments = {"dev", "prod"}
    Owner = "dev"
    MaxEdits = 0
    MaxTeardowns = 1
SPECIFICATION AccountSpec
CHECK_DEADLOCK FALSE
INVARIANT OnlyTwoNamesBlock
