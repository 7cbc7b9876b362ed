SPECIFICATION LinkedSpec
CONSTANTS
  t1 = t1
  t2 = t2
  t3 = t3
  m1 = m1
  m2 = m2
  Task = {t1, t2, t3}
  InitTask = t1
  Idle = idle
  SemId = {m1, m2}
  N_SEMAFORS = 2
  Quantum = 1
  MaxPid = 5
  MaxCount = 1
VIEW View
SYMMETRY Symmetry
INVARIANTS TypeOK OnePlace LinksMatch NoLostSignal WaitersMatch DestroyedIsReclaimable OwnersLive DirUsageCounts
