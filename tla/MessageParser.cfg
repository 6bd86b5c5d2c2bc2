SPECIFICATION Spec
CONSTANTS
    Streams <- AllStreams
    Messages <- BuiltMessages
    MaxLen = 4
    MaxLayers = 3
    Tags = {"LiteralData", "PublicKeyEncryptedSessionKey", "SymKeyEncryptedSessionKey",
            "SymEncryptedProtectedData", "Signature", "OnePassSignature", "Padding", "Other", "Err"}
INVARIANTS
    ExactlyTheGrammar
    NothingLost
    RoundTrip
CHECK_DEADLOCK FALSE
