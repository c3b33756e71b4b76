SPECIFICATION Spec
CONSTANTS
    A = A
    B = B
    a1 = a1
    a2 = a2
    b = b
    Effect = {A, B}
    Op = {a1, b}
    EffectOf <- MCEffectOf
    Builtin = {b}
    Spliced = {}
    Evid = {e1, e2, e3}
    StackMax = 3
    MaxId = 4
    MaxCalls = 5
    MaxPushes = 4
    Null = Null
SYMMETRY MCSymmetry
INVARIANT ClauseNotReentered
CHECK_DEADLOCK FALSE
