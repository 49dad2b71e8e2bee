SPECIFICATION Spec
CONSTANTS
    User <- MCUser
    Session = {s1, s2}
    Slot = {q1, q2}
    MaxRows = 3
PROPERTIES
    DeletesItself
CHECK_DEADLOCK FALSE
