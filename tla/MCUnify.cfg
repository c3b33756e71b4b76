SPECIFICATION UnifySpec
CONSTANTS
    Var = {v1, v2, v3}
    App = {c1, c2}
    Type = {IntTy, ListInt, PairInt}
    Name = {List, Pair}
    IntTy = IntTy
    ListInt = ListInt
    PairInt = PairInt
    List = List
    Pair = Pair
    Shape <- MCShape
    Size <- MCSize
    MaxRank = 1
    MaxCalls = 2
    Written <- MCWritten
    None = None
SYMMETRY MCSymmetry
INVARIANTS TypesAreFinite AcceptedHolds RefusedIsImpossible
CHECK_DEADLOCK FALSE
