SPECIFICATION Spec
CONSTANT Inputs <- MCInputs
INVARIANTS TypeOK LeavesTokens
PROPERTY Terminates
CHECK_DEADLOCK FALSE
