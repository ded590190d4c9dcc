SPECIFICATION LiveSpec
CONSTANTS
    Pollers = {p1}
    None = None
    MaxChanges = 3
    MaxFailures = 0
PROPERTIES
    SignalsAgain
CHECK_DEADLOCK FALSE
