SPECIFICATION Spec
CONSTANTS
    Certs <- MCCerts
    KeysOf <- MCKeysOf
    SignKeys <- MCSignKeys
    CryptKeys <- MCCryptKeys
    Passwords = {"pw1", "pw2"}
    Lock <- MCLock
    Literals <- Parsed
    Foreign <- Others
    Recipients <- MCRecipients
    MaxLayers = 3
INVARIANTS
    PlaintextIsOriginal
    VerifiedIsSigned
    IntactIsReadable
    IntactNeverPanics
PROPERTIES
    KeysOpen
CHECK_DEADLOCK FALSE
