SPECIFICATION Spec
CONSTANTS
    ReserveEntries = 2
    MaxMessageSize = 5
    Capacities = {5, 6}
    Lengths = {0, 3, 7}
    Priorities = {1, 3}
    ErrorPriority = 1
    MaxCalls = 6
    MaxClears = 2
INVARIANTS
    CutIsLonger
CHECK_DEADLOCK FALSE
