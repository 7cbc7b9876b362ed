SPECIFICATION Spec
CONSTANTS
  Proc = {p1, p2}
  InitProc = p1
  File = {f1, f2}
  OldFiles = {f1}
  BootHint = 4
  OPEN_FILE_TABLE_SIZE = 4
  CHANNEL_TABLE_SIZE = 4
  LastCluster = 4
  MaxOffset = 1
  Shares = TRUE
INVARIANTS SharedEntriesStayOpen
CHECK_DEADLOCK FALSE
