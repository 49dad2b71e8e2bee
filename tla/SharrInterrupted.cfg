SPECIFICATION HistSpec
CONSTANTS
    Size = 2
    Word <- MCWord
    Value <- MCValue
INVARIANTS
    ServerDone
CHECK_DEADLOCK FALSE
