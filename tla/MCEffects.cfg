SPECIFICATION Spec
CONSTANTS
    Programs <- MCPrograms
    Cfgs <- MCCfgs
    Inputs <- MCInputs
    InlineBudget = 200
    Thunkable = {1}
INVARIANTS LoweringIsValid OracleAgrees EvidenceAlive StackPlacement
PROPERTIES Refines Answers
CHECK_DEADLOCK FALSE
