SPECIFICATION FairSpec
CONSTANTS
    MaxIssues = 3
    MaxMessages = 1
    MaxFaults = 1
    Hasty = FALSE
CHECK_DEADLOCK FALSE
INVARIANT OpenIsAnswerable
