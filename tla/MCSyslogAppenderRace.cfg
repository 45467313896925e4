SPECIFICATION Spec
CONSTANTS
    Appenders = {a1, a2, a3}
    NoAppender = NoAppender
    Priorities = {0, 3}
    MaxObjects = 5
SYMMETRY Symmetry
INVARIANTS
    DestroysItself
CHECK_DEADLOCK FALSE
