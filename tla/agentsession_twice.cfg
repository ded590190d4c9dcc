\* Violated: a later turn of an execution in a session it took over
SPECIFICATION Spec
CONSTANTS
  Roles = {"implementation"}
  Runtimes = {"claude"}
  Habits = {{"talks"}, {"delegates"}, {"spends"}}
  NModels = 1
  MaxBudget = 1
  MaxTurns = 3
  MaxSaid = 0
  MaxWork = 1
  MaxAhead = 1
  MaxFaults = 0
CHECK_DEADLOCK FALSE
INVARIANTS BilledOnceEver
