SPECIFICATION Spec
CONSTANTS
  W8 = 2
  W16 = 4
  W32 = 8
  W64 = 10
  Fraction = 2
  Format <- Formats
  Texts <- Leaves
  data <- OneData
INVARIANT AssertsHold

CHECK_DEADLOCK FALSE
