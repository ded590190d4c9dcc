SPECIFICATION FairSpec
CONSTANTS
    MaxIssues = 3
    MaxMessages = 1
    MaxFaults = 1
    Hasty = TRUE
CHECK_DEADLOCK FALSE
INVARIANT BuiltAsApproved
