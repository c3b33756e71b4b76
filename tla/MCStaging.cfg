SPECIFICATION Spec
CONSTANTS
    Sources <- MCSources
    Inputs <- MCInputs
    WordBits = 4
    TargetBits = 4
    MaxCallDepth = 2
    NonThunkable = {2}
    CtOnlyEffects = {3}
    MaxSpecInlineExprs = 4
    MaxPerCallee = 2
    MaxSpecializations = 3
    MaxTypeDepth = 1
    MaxInstances = 4
    VarSpan = 100
    MaxEntryBytes = 160
    MaxPoolBytes = 170
    LargeBytes = 140
    MaxShrinkIters = 16
INVARIANTS LiveCallsExist FoldedIsRun BlocksAreFolded InstancesAreWanted PoolIsMaximal
     StagingKeepsMeaning
PROPERTIES Ends
CHECK_DEADLOCK FALSE
