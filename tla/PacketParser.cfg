SPECIFICATION FairSpec
CONSTANTS
    Sources <- AnyFraming
    MinBuffered = 2
    MinFirstPartial = 2
    MaxCapacity = 3
    ReadChunk = 2
    MaxPackets = 2
    Cuts = TRUE
INVARIANTS
    TypeOK
    Framing
    BodyExact
    ErrorsAreHonest
    InOrder
PROPERTIES
    Termination
CHECK_DEADLOCK FALSE
