\* A failed setup leaves a worktree no row records
SPECIFICATION TreesSpec
CONSTANTS
  MaxRows = 2
  MaxCommits = 2
  SetupFails = TRUE
  Patient = TRUE
CHECK_DEADLOCK FALSE
INVARIANT NothingForgotten
