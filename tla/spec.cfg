SPECIFICATION FairSpec
CONSTANTS
    Workers = {w1}
    Peer = TRUE
    MaxSessions = 2
    MaxVersions = 2
    MaxCommands = 2
    MaxFaults = 1
    None = None
    Lost = Lost
CHECK_DEADLOCK FALSE
INVARIANTS
  SessionFits
  RevisionsFit
PROPERTIES
  SentBackIsServed
