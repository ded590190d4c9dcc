\* Two workers poll the row of one task
SPECIFICATION FairSpec
CONSTANTS
  Pollers = {w1, w2}
  Steady = {w1}
  MaxPulls = 2
  MaxHeads = 2
  MaxCiRounds = 1
  MaxRetries = 1
  MaxChecks = 1
  SameHead = FALSE
  Early = FALSE
CHECK_DEADLOCK FALSE
INVARIANTS
  RowFits
PROPERTIES
  VerdictOfHead
  WaitEnds
