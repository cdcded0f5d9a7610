SPECIFICATION Spec
CONSTANTS
  Names = {"A", "B", "F", "G", "AB"}
  Width = 8
  MaxLevel = 4
  Inputs <- EveryInput
  Header <- MCHeader
INVARIANTS TypeOK OutputIsLiveText
PROPERTY Terminates
CHECK_DEADLOCK FALSE
