SPECIFICATION MCSpec
CONSTANTS
  Tasks = {t1}
  Workers = {w1, w2}
  Execs = {1}
  MaxCommands = 1
  MaxConcurrent = 1
  MaxInfraRetries = 0
  MaxProtocolRetries = 0
  MaxReviewRounds = 1
  MaxCiRounds = 0
  MaxIssues = 1
  NoTask = NoTask
  NoWorker = NoWorker
  NoExec = NoExec
  Crashes = 0
  Freezes = 1
  Expiries = 0
  Aborts = 0
  Refusals = 0
  TurnErrors = 0
  Stales = 1
  Cancels = 0
  HumanRetries = 0
  Together = 9
  Findings = 0
SYMMETRY Symmetry
CHECK_DEADLOCK FALSE
INVARIANTS
  SessionKeepsToken
