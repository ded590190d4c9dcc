\* The turns of one execution and of its retry
SPECIFICATION FairSpec
CONSTANTS
  Roles = {"spec", "implementation"}
  Runtimes = {"claude", "codex"}
  Habits = {{"talks"}, {"delegates"}, {"spends"}}
  NModels = 2
  MaxBudget = 1
  MaxTurns = 2
  MaxSaid = 2
  MaxWork = 1
  MaxAhead = 1
  MaxFaults = 1
CHECK_DEADLOCK FALSE
INVARIANTS
  Billing
  TurnIsKept
PROPERTIES
  EveryTurnEnds
