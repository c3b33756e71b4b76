SPECIFICATION Spec
CONSTANTS
    v = v
    w = w
    None = None
    Value = {v, w}
    Programs <- MCPrograms
INVARIANTS TypeOK NeverTooMuch SolvedWhenSwept SweptIsLeast LiveAfterIsNeeded
PROPERTIES Ends
CHECK_DEADLOCK FALSE
