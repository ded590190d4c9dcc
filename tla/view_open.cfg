SPECIFICATION ViewSpec
CONSTANTS
    Clients = {c1}
    None = None
    MaxEvents = 2
    PageLimit = 2
    Cap = 2
    HighWater = 1
    Large = {}
    MaxFaults = 0
    ViewPage = 1
INVARIANTS
    OpenLosesNothing
CHECK_DEADLOCK FALSE
