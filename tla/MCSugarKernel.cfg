SPECIFICATION Spec
CONSTANTS
    idle = idle
    hi = hi
    lo1 = lo1
    lo2 = lo2
    Threads <- MCThreads
    Prio <- MCPrio
    Idle = idle
    Semas = {s1}
    Blocks = {b1, b2, b3}
    NULL = NULL
    Forever = Forever
    FifoCap = 3
    MaxCount = 1
    TimerCap = 3
    MaxTicks = 1
    Nested = FALSE
SYMMETRY MCSymmetry
INVARIANTS
    TypeOK
    AtMostOnePlace
    NoThreadLost
    CachesAreRight
    NoPriorityInversion
    NoWaiterWhileCount
    TokensConserved
    TimersMatchWaits
    NothingLeftOnFreed
PROPERTY
    WokenOnce
