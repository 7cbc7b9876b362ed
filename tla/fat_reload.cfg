SPECIFICATION Spec
CONSTANTS
  FatSize = 20
  SectorsPerCluster = 1
  EntriesPerSector = 5
  WordsPerEntry = 4
  RootCluster = 2
  Names = {dir1, file0}
  Dir1 = dir1
  File0 = file0
  DiskHints = {5}
  AnyPath = FALSE
  MaxDepth = 2
  MaxOps = 2
  MaxSessions = 2
PROPERTIES CreatedIsNobodys
CHECK_DEADLOCK FALSE
