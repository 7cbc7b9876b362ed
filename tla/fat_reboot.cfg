SPECIFICATION Spec
CONSTANTS
  FatSize = 24
  SectorsPerCluster = 2
  EntriesPerSector = 3
  WordsPerEntry = 8
  RootCluster = 2
  Names = {dir1, file0}
  Dir1 = dir1
  File0 = file0
  DiskHints = {4}
  AnyPath = FALSE
  MaxDepth = 2
  MaxOps = 4
  MaxSessions = 3
PROPERTIES CreateIsCrashSafe DeleteDanglesOnlyItsVictim CreateIsDurable
CHECK_DEADLOCK FALSE
