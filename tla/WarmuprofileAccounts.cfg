SPECIFICATION Spec
CONSTANTS
    User <- MCUser
    Session = {s1, s2}
    Slot = {q1, q2}
    MaxRows = 3
INVARIANTS
    AccountInv
PROPERTIES
    DeletesWhatItFound
CHECK_DEADLOCK FALSE
