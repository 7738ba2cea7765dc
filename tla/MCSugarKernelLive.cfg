SPECIFICATION FairSpec
CONSTANTS
    idle = idle
    hi = hi
    lo1 = lo1
    lo2 = lo2
    Threads <- MCPair
    Prio <- MCPairPrio
    Idle = idle
    Semas = {s1}
    Blocks = {b1, b2}
    NULL = NULL
    Forever = Forever
    FifoCap = 2
    MaxCount = 1
    TimerCap = 2
    MaxTicks = 2
    Nested = FALSE
PROPERTIES
    TimedWaitEnds
    SleepEnds
    MostUrgentRuns
