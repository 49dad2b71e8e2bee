SPECIFICATION FairSpec
CONSTANTS
    Report = {r1, r2}
    Scores = {r1}
    Sites <- AllSites
    Kinds <- AllKinds
    MaxFaults = 3
INVARIANTS
    ReportInv
    OneBrowser
    AtMostOnce
    ScoreWhole
PROPERTIES
    TakenUp
CHECK_DEADLOCK FALSE
