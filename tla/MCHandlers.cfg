SPECIFICATION Spec
CONSTANTS
    A = A
    B = B
    a1 = a1
    a2 = a2
    b = b
    Effect = {A, B}
    Op = {a1, a2, b}
    EffectOf <- MCEffectOf
    Builtin = {b}
    Spliced = {A}
    Evid = {e1, e2, e3}
    StackMax = 2
    MaxId = 2
    MaxCalls = 3
    MaxPushes = 4
    Null = Null
SYMMETRY MCSymmetry
INVARIANTS TypeOK FramesAreScopes NoStaleEvidence PerformReachesInnermost LostOnlyWhereUnanswered
CHECK_DEADLOCK FALSE
