SPECIFICATION Spec
CONSTANTS
  Threads = {t1, t2}
  Mutexes = {m1}
  NULL = NULL
  SetupAlone = TRUE
  MaxInits = 1
  UseAny = FALSE
INVARIANTS MutualExclusion
SYMMETRY MutexSymmetry
CHECK_DEADLOCK FALSE
