\* A retry gives up commits nobody tried to push
SPECIFICATION TreesSpec
CONSTANTS
  MaxRows = 3
  MaxCommits = 1
  SetupFails = TRUE
  Patient = TRUE
CHECK_DEADLOCK FALSE
INVARIANT RetryKeepsWork
