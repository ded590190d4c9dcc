\* The worktrees of one task
SPECIFICATION TreesFairSpec
CONSTANTS
  MaxRows = 2
  MaxCommits = 2
  SetupFails = TRUE
  Patient = TRUE
CHECK_DEADLOCK FALSE
INVARIANTS
  TreesFit
  SweepKeepsWork
PROPERTIES
  LeftoversGo
