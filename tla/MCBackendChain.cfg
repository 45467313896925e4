SPECIFICATION ChainSpec
CONSTANTS
    Threads = {t1, t2}
    Backends <- ChainBackends
    Sinks = {1, 3}
    Forwards = {2}
    Target <- ChainTarget
    Wiring <- ChainWiring
    Rank <- ChainRank
    Priorities = {0, 3, 5}
    BackendDefault = 3
    AppenderDefault = 5
    Disciplined = FALSE
    MaxCalls = 2
    MaxAdmin = 3
SYMMETRY ThreadSymmetry
INVARIANTS
    TypeOK
    MutualExclusion
    LockAccounting
    IteratorValid
    NothingSkipped
    OrderAgreement
    SinkExclusion
PROPERTIES
    StableWalk
CHECK_DEADLOCK FALSE
