SPECIFICATION Spec
CONSTANTS
    v1 = v1
    v2 = v2
    Values <- MCPointers
    NULL = NULL
    DeepCopy = FALSE
    Expandables = {TRUE, FALSE}
    FreeCb = TRUE
    ElementSize = 1
    Capacities = {2}
    Factors = {1, 2}
    MaxCapacity = 8
    MaxLength = 4
INVARIANT
    TypeOK
PROPERTY
    IsASequence
