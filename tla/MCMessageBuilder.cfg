SPECIFICATION Spec
CONSTANTS
    MaxMessageSize = 4
    Builders = {b1, b2}
    Lengths = {0, 1, 2, 3, 5}
    MaxPieces = 4
    MaxMoves = 1
SYMMETRY BuilderSymmetry
INVARIANTS
    TypeOK
    Terminated
    PrefixDelivered
    CutIsMarked
    LoggedOnce
    NothingStale
CHECK_DEADLOCK FALSE
