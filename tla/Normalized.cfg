SPECIFICATION Spec
CONSTANTS
    Texts <- AllTexts
    LineBreaks = {"Crlf", "Lf", "Cr"}
    MaxLen = 6
INVARIANTS
    OneStyle
    Idempotent
CHECK_DEADLOCK FALSE
