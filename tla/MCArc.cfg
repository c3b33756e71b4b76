SPECIFICATION Spec
CONSTANTS
    Root = {r1, r2, r3}
    Heap = {o1, o2}
    Pooled = {Text, Box}
    PooledStr = {Text}
    PooledField <- MCPooledField
    MaxArgc = 2
    MaxCount = 3
    MaxAllocs = 4
    Unit = Unit
    Text = Text
    Box = Box
SYMMETRY MCSymmetry
INVARIANTS TypeOK CountIsOwners NoDanglingReference NoLeak StatsBalance
PROPERTIES ValuesStable RefinesIdealHeap DestroyAdvances
