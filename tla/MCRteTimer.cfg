SPECIFICATION Spec
CONSTANTS
    Blocks = {b1, b2, b3}
    Users = {u}
    NULL = NULL
    Capacities = {2, 4}
    Configs <- MCConfigs
    SelfDelete = FALSE
SYMMETRY MCSymmetry
INVARIANTS
    TypeOK
    IndexIsPlace
    PollKeepsItsTimer
    NoOneForgotten
    IndexGoodUntilMoved
PROPERTIES
    CalledOncePerPoll
    PausedCalledOnce
