\* The agent container of an execution of either role
SPECIFICATION FairBoxesSpec
CONSTANTS
  Execs = {e}
  MaxTrees = 3
  MaxEnsures = 3
  MaxCrashes = 1
CHECK_DEADLOCK FALSE
INVARIANTS
  BoxesFit
PROPERTIES
  EndedGoes
