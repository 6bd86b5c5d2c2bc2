SPECIFICATION FairSpec
CONSTANTS
    Texts <- AllTexts
    ReadSizes = {2, 5, 9}
    BufSize = 8
    FooterLook = 10
    KeyLen = 5
    LineLen = 4
    MaxErrors = 1
    Lens = {0, 1, 3, 5, 9, 10}
    Headers = {0, 2}
    FailLens = {4, 9}
INVARIANTS
    DecodedExactly
    HonestOutcome
PROPERTIES
    NothingAfterError
    Termination
CHECK_DEADLOCK FALSE
