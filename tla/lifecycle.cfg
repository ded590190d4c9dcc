SPECIFICATION MCSpec
CONSTANTS
  Tasks = {t1}
  Workers = {w1, w2}
  Execs = {1, 2}
  MaxCommands = 1
  MaxConcurrent = 1
  MaxInfraRetries = 0
  MaxProtocolRetries = 1
  MaxReviewRounds = 1
  MaxCiRounds = 1
  MaxIssues = 1
  NoTask = NoTask
  NoWorker = NoWorker
  NoExec = NoExec
  Crashes = 0
  Freezes = 1
  Expiries = 0
  Aborts = 0
  Refusals = 1
  TurnErrors = 0
  Stales = 1
  Cancels = 1
  HumanRetries = 1
  Together = 2
  Findings = 1
SYMMETRY Symmetry
CHECK_DEADLOCK FALSE
INVARIANTS
  TypeOK
  LeaseCoversOwner
  OneOwner
  HolderActsAlone
  ReviewGate
  WorkGoesOn
PROPERTIES
  HandsOver
