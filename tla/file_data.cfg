SPECIFICATION Spec
CONSTANTS
  File = {f1, f2}
  SectorsPerCluster = 2
  BytesPerSector = 2
  LastCluster = 5
  FileClusters = 2
  Sizes = {1, 3, 6}
  MaxSize = 6
  MaxWrites = 2
  MaxCreates = 1
  MaxResets = 1
INVARIANTS TypeOK ReadsReturnWhatWasWritten ChainsSound
PROPERTIES DamageIsOneSector
SYMMETRY Symmetry
CHECK_DEADLOCK FALSE
