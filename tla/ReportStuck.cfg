SPECIFICATION FairSpec
CONSTANTS
    Report = {r1, r2}
    Scores = {}
    Sites <- RingtoneSite
    Kinds <- PageKinds
    MaxFaults = 1
PROPERTIES
    CheckedSoon
CHECK_DEADLOCK FALSE
