SPECIFICATION HandoffSpec
CONSTANTS
    ReserveEntries = 2
    MaxMessageSize = 5
    Capacities = {5}
    Lengths = {3}
    Priorities = {0, 1}
    ErrorPriority = 1
    MaxCalls = 4
    MaxClears = 1
    MaxReplays = 1
INVARIANTS
    HandoverComplete
PROPERTIES
    ReplayUndisturbed
CHECK_DEADLOCK FALSE
