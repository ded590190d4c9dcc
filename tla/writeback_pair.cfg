SPECIFICATION WritebackSpec
CONSTANTS
    Workers = {w1, w2}
    Tasks = {t1}
    Kinds = {"needs_human"}
    Unset = Unset
    MaxEvents = 2
    Batch = 2
    MaxAttempts = 2
    MaxRestarts = 0
INVARIANTS
    OneComment
CHECK_DEADLOCK FALSE
