SPECIFICATION MCFairSpec
CONSTANTS
  Tasks = {t1}
  Workers = {w1, w2}
  Execs = {1, 2, 3}
  MaxCommands = 1
  MaxConcurrent = 1
  MaxInfraRetries = 1
  MaxProtocolRetries = 0
  MaxReviewRounds = 0
  MaxCiRounds = 0
  MaxIssues = 0
  NoTask = NoTask
  NoWorker = NoWorker
  NoExec = NoExec
  Crashes = 1
  Freezes = 0
  Expiries = 2
  Aborts = 1
  Refusals = 0
  TurnErrors = 1
  Stales = 0
  Cancels = 0
  HumanRetries = 0
  Together = 3
  Findings = 0
CHECK_DEADLOCK FALSE
INVARIANTS
  RetriedOnce
PROPERTIES
  SweptOnlyExpired
  FailureRecovers
