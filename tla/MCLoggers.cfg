SPECIFICATION Spec
CONSTANTS
    Backends = {b1, b2}
    Loggers = {l1, l2, l3}
    Threads = {t1, t2}
    Names = {in, out}
    Arguments <- MCArguments
    Exceptions = {"bad_alloc", "other"}
    MaxNew = 4
    MaxFiles = 1
    MaxLogs = 2
    MaxSets = 1
SYMMETRY Symmetry
INVARIANTS
    TypeOK
    OwnersKeepAlive
    FilesBalance
    PrefixNests
CHECK_DEADLOCK FALSE
