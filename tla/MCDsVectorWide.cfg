SPECIFICATION Spec
CONSTANTS
    v1 = v1
    v2 = v2
    Values <- MCCopies
    NULL = NULL
    DeepCopy = TRUE
    Expandables = {FALSE}
    FreeCb = FALSE
    ElementSize = 2
    Capacities = {4}
    Factors = {}
    MaxCapacity = 8
    MaxLength = 4
PROPERTY
    IsASequence
