SPECIFICATION StatSpec
CONSTANTS
  Task = {t1, t2}
  InitTask = t1
  Idle = idle
  SemId = {m1}
  N_SEMAFORS = 1
  Quantum = 1
  MaxPid = 4
  MaxCount = 1
  MaxTime = 4
  MaxSpent = 2
VIEW View
INVARIANTS StatTypeOK StatsAreTrue
CHECK_DEADLOCK FALSE
