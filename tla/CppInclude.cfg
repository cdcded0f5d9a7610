SPECIFICATION Spec
CONSTANTS
  Names = {"F", "G"}
  Width = 12
  MaxLevel = 12
  MaxFrames = 8
  Dirs <- MCDirs
  FileSystems <- EveryFileSystem
  Main <- MainPath
INVARIANTS TypeOK NextIsElsewhere
PROPERTIES ImplementsCond FilesApart Completes
CHECK_DEADLOCK FALSE
