SPECIFICATION Spec
CONSTANTS
    N = 3
    MaxInput = 5
    MaxOctets = 13
    MaxTorn = 1
INVARIANTS
    BufferExact
    NothingLeft
PROPERTIES
    Wraps
CHECK_DEADLOCK FALSE
