SPECIFICATION Spec
CONSTANTS
    Clients = {c1}
    None = None
    MaxEvents = 3
    PageLimit = 2
    Cap = 2
    HighWater = 1
    Large = {2}
    MaxFaults = 1
PROPERTIES
    ResumesFromAnchor
CHECK_DEADLOCK FALSE
