SPECIFICATION ViewLiveSpec
CONSTANTS
    Clients = {c1}
    None = None
    MaxEvents = 3
    PageLimit = 1
    Cap = 1
    HighWater = 1
    Large = {2}
    MaxFaults = 1
    ViewPage = 1
CHECK_DEADLOCK FALSE
INVARIANTS
  MemoryFits
  NothingMissing
PROPERTIES
  ImplementsFeed
  CatchesUp
