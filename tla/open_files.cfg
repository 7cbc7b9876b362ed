SPECIFICATION Spec
CONSTANTS
  Proc = {p1, p2}
  InitProc = p1
  File = {f1, f2}
  OldFiles = {f1}
  BootHint = 2
  OPEN_FILE_TABLE_SIZE = 3
  CHANNEL_TABLE_SIZE = 2
  LastCluster = 3
  MaxOffset = 1
  Shares = FALSE
INVARIANTS TypeOK DescriptorsReachTheirFile StaleDescriptorsReachNoOtherFile
PROPERTIES OrphansComeFromExit ImplementsDescriptors
CHECK_DEADLOCK FALSE
