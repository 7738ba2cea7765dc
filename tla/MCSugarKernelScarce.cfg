SPECIFICATION Spec
CONSTANTS
    idle = idle
    hi = hi
    lo1 = lo1
    lo2 = lo2
    Threads <- MCThreads
    Prio <- MCPrio
    Idle = idle
    Semas = {s1}
    Blocks = {b1, b2}
    NULL = NULL
    Forever = Forever
    FifoCap = 1
    MaxCount = 1
    TimerCap = 1
    MaxTicks = 1
    Nested = FALSE
SYMMETRY MCSymmetry
INVARIANTS
    AlwaysAThread
    AtMostOnePlace
    NoPriorityInversion
