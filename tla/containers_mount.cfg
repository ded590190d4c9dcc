\* 9.9, Removal, after an eviction whose container removal did not happen: violated
SPECIFICATION BoxesSpec
CONSTANTS
  Execs = {e}
  MaxTrees = 2
  MaxEnsures = 2
  MaxCrashes = 1
CHECK_DEADLOCK FALSE
INVARIANTS MountIsCurrent
