SPECIFICATION Spec
CONSTANTS
    Params <- MCParams
    SubkeyNames <- MCSubkeyNames
    ThirdKey <- MCThirdKey
    Versions = {"V3", "V4"}
    MaxEdits = 3
INVARIANTS
    VerifiedIsGenuine
    SignedVerifies
    ResignKeeps
    FlagsAreHonest
