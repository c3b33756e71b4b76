SPECIFICATION Spec
CONSTANTS
    Value <- MCValue
    Programs <- MCPrograms
    Heaps <- MCHeaps
    MaxCells = 7
    Unit = Unit
INVARIANTS NoUseAfterFree CountsFollowLiveness UniqueIsSole
PROPERTIES TakesAreDead
