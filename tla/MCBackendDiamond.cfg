SPECIFICATION FairWiredSpec
CONSTANTS
    Threads = {t1, t2}
    Backends <- DiamondBackends
    Sinks = {7}
    Forwards = {2, 4, 5}
    Target <- DiamondTarget
    Wiring <- DiamondWiring
    Rank <- DiamondRank
    Priorities = {3, 5}
    BackendDefault = 3
    AppenderDefault = 5
    Disciplined = TRUE
    MaxCalls = 2
    MaxAdmin = 2
INVARIANTS
    NoDeadlock
PROPERTIES
    EveryCallReturns
    StepsAreAtomic
CHECK_DEADLOCK FALSE
