SPECIFICATION Spec
CONSTANTS
    Sources <- AnyFraming
    MinBuffered = 2
    MinFirstPartial = 2
    MaxCapacity = 3
    ReadChunk = 2
    MaxPackets = 1
    Cuts = TRUE
INVARIANT IncompleteBodiesAreSkipped
CHECK_DEADLOCK FALSE
