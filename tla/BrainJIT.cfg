SPECIFICATION Spec
CONSTANTS
    Programs <- MCPrograms
    Cells = 3
    Tape = 2
    MaxCode = 106
INVARIANTS
    CodeInv
    Verdicts
    Paired
PROPERTIES
    InterpreterSpec
CHECK_DEADLOCK FALSE
