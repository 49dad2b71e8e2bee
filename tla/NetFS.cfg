SPECIFICATION FairSpec
CONSTANTS
    Session = {s1, s2}
    Editions <- BothEditions
    PasswordLen = 2
INVARIANTS
    NetInv
    AlarmInside
    NoEarlyVerdict
    OwnConnection
PROPERTIES
    SessionEnds
CHECK_DEADLOCK FALSE
