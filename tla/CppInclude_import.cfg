SPECIFICATION Spec
CONSTANTS
  Names = {"F", "G"}
  Width = 8
  MaxLevel = 8
  MaxFrames = 8
  Dirs <- MCDirs
  FileSystems <- ImportTwice
  Main <- MainPath
PROPERTY ImportOnce
CHECK_DEADLOCK FALSE
