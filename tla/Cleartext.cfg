SPECIFICATION Spec
CONSTANTS
    Texts <- MCTexts
    Signers <- MCSigners
    Keys = {"A", "B", "C"}
    RestBuffer = 2
    Tails <- MCTails
    MaxEdits = 1
    MaxText = 3
    Windows = {0, 12}
INVARIANTS
    RoundTrip
    VerifiedIsVisible
CHECK_DEADLOCK FALSE
