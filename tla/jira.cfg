SPECIFICATION LiveSpec
CONSTANTS
    Pollers = {p1}
    None = None
    MaxChanges = 3
    MaxFailures = 1
CHECK_DEADLOCK FALSE
INVARIANTS
  EndedRunsNothing
PROPERTIES
  StaysCancelled
  OneSignal
  OutIsToldOnce
