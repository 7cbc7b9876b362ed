SPECIFICATION Spec
CONSTANTS
  FatSize = 21
  SectorsPerCluster = 2
  EntriesPerSector = 3
  WordsPerEntry = 7
  RootCluster = 2
  Names = {dir1, file0}
  Dir1 = dir1
  File0 = file0
  DiskHints = {2, 4, 19}
  AnyPath = TRUE
  MaxDepth = 2
  MaxOps = 4
  MaxSessions = 1
INVARIANTS TypeOK NoSharedClusters ReferencesAllocated ChainsEnd
PROPERTIES NewDirectoryIsEmpty CallsChangeOneName
CHECK_DEADLOCK FALSE
