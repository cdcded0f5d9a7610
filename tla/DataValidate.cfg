SPECIFICATION Spec
CONSTANT Programs <- EveryFile
INVARIANTS TypeOK Verdicts PlainLayouts
PROPERTY Terminates
CHECK_DEADLOCK FALSE
