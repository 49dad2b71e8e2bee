SPECIFICATION FairSpec
INVARIANTS
    Returns
    Operands
    Verdict
PROPERTIES
    Halts
CHECK_DEADLOCK FALSE
