SPECIFICATION Spec
CONSTANTS
    Value <- MCValue
    Programs <- MCNested
    Heaps <- MCHeaps
    MaxCells = 7
    Unit = Unit
INVARIANT NoUseAfterFree
