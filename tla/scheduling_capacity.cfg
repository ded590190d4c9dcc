\* Two tasks of one repository, two worker processes on one host
SPECIFICATION Spec
CONSTANTS
  Tasks = {a, b}
  Requests = {r1, r2}
  Workers = {w1, w2}
  None = None
  MaxConcurrent = 1
  MaxUserMoves = 1
  MaxCrashes = 1
CHECK_DEADLOCK FALSE
INVARIANT OnlyTurnsExceed

