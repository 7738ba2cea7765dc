SPECIFICATION Spec
CONSTANTS
    t1 = t1
    t2 = t2
    k0 = k0
    k1 = k1
    Threads <- MCThreads
    Keys <- MCKeys
    Hash <- MCHash
    v1 = v1
    v2 = v2
    Values <- MCValues
    NULL = NULL
    Absent = Absent
    Capacity = 1
    MaxCount = 2
SYMMETRY MCSymmetry
INVARIANTS
    TypeOK
    IsAMap
    EveryChainIsFiled
PROPERTIES
    LostStaysLost
