SPECIFICATION Spec
CONSTANTS
    Inputs <- AllInputs
    Modes = {"SignedPublicKeyParser", "SignedSecretKeyParser", "PubPrivIterator"}
    MaxTail = 2
    DropTags = {"Signature"}
INVARIANTS
    OwnPacketsOnly
    RingComplete
    RoundTrip
CHECK_DEADLOCK FALSE
