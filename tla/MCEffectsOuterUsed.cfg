SPECIFICATION Spec
CONSTANTS
    Programs <- MCOuterUsed
    Cfgs <- MCOuterUsedCfgs
    Inputs <- MCInputs
    InlineBudget = 200
    Thunkable = {1}
PROPERTY Refines
CHECK_DEADLOCK FALSE
