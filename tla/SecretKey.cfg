CONSTANTS
    Keys <- MCKeys
    Versions = {3, 4, 5}
    Syms = {0, 2, 7, 9, 99}
    S2ks <- MCS2ks
    Passwords <- MCPasswords
    ExpBias = 0
    MaxDamage = 1
SPECIFICATION Spec
INVARIANTS
    RightPasswordUnlocks
    UnlockedIsGenuine
    RoundTrip
    PanicsAreKnown
CHECK_DEADLOCK FALSE
