SPECIFICATION FairSpec
CONSTANTS
    N = 4
    Chunks = 2
    Quorum = 2
    Value <- MCValue
    Secret <- MCSecret
    Answerers <- MCAnswerers
    Decoy <- MCDecoy
    MaxFaults = 2
INVARIANTS
    OneMessage
    InStep
    FlagAccepted
    SegmentsInUse
    LastOut
    RingInv
PROPERTIES
    PollSpec
    PollProgress
    Termination
CHECK_DEADLOCK FALSE
