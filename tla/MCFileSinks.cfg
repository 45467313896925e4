SPECIFICATION Spec
CONSTANTS
    Appenders = {a1, a2}
    Files = {log, std}
    Fds = {3, 4}
    Stdout = std
    Stderr = std
    Priorities = {2, 3}
    MaxLines = 2
    MaxOpens = 2
    MaxShorts = 1
    MaxCrashes = 1
SYMMETRY Symmetry
INVARIANTS
    TypeOK
    WholeLines
    OwnFile
    Durable
CHECK_DEADLOCK FALSE
