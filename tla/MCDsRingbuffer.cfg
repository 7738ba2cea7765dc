SPECIFICATION Spec
CONSTANTS
    Payloads = {p1}
    Sizes <- MCSizes
    Spaces <- MCSpaces
    SizeBytes = 2
    CounterMod = 16
    Capacities = {7}
INVARIANTS
    CountersInStep
    SizeIsFound
PROPERTY
    IsAQueue
