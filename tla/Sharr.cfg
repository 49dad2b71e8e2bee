SPECIFICATION HistFairSpec
CONSTANTS
    Size = 2
    Word <- MCWord
    Value <- MCValue
CONSTRAINT FewStray
INVARIANTS
    SameRequest
    FileBounded
    Handshake
PROPERTIES
    ArraySpec
    Answering
    BothEnd
CHECK_DEADLOCK FALSE
