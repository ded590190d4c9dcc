SPECIFICATION WritebackLiveSpec
CONSTANTS
    Workers = {w1}
    Tasks = {t1, t2}
    Kinds = {"needs_human"}
    Unset = Unset
    MaxEvents = 3
    Batch = 2
    MaxAttempts = 2
    MaxRestarts = 1
CHECK_DEADLOCK FALSE
INVARIANTS
  HandledOnce
PROPERTIES
  NeverStalled
