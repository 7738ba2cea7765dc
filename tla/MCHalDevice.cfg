SPECIFICATION FairSpec
CONSTANTS
    t1 = t1
    t2 = t2
    rx = rx
    Threads <- MCThreads
    Main = t1
    Ops <- MCOps
    Rx <- MCOps
    UserOf <- MCUserOf
    NULL = NULL
    Timeouts = {2}
    TickMod = 5
INVARIANTS
    TypeOK
    OneInDriver
    HonestUnlessEarly
    LeftTokenExplained
    NoTransferOutlivesCall
    BareComIsHonest
PROPERTIES
    LeftTimeIsRight
    CallsEnd
