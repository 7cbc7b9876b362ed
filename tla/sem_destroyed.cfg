SPECIFICATION Spec
CONSTANTS
  t1 = t1
  t2 = t2
  t3 = t3
  m1 = m1
  m2 = m2
  Task = {t1, t2, t3}
  InitTask = t1
  Idle = idle
  SemId = {m1}
  N_SEMAFORS = 1
  Quantum = 1
  MaxPid = 4
  MaxCount = 1
SYMMETRY Symmetry
INVARIANTS MinusTwoMeansDestroyed
