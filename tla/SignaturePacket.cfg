SPECIFICATION Spec
CONSTANTS
    Subpackets <- MCSubpackets
    RawSubpackets <- MCRawSubpackets
    RawValues <- MCRawValues
    Heads <- MCHeads
    Limit16 = 205
    MaxSubpackets = 2
INVARIANTS
    RoundTrip
    VerifiedIsReported
    GenuineVerifies
    ReaderSurvivesWriter
CHECK_DEADLOCK FALSE
