SPECIFICATION Spec
CONSTANTS
  Names = {A, B}
  Width = 4
  MaxLevel = 4
INVARIANTS TypeOK LevelsConsistent AssertsHold
PROPERTIES OverStaysOver ImplementsGroups
