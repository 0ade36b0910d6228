SPECIFICATION Spec
CONSTANTS
  Threads = {t1, t2}
  Mutexes = {m1, m2, m3}
  NULL = NULL
  SetupAlone = TRUE
  MaxInits = 4
  UseAny = TRUE
INVARIANTS ExclusiveUnlessTorn ListTracksInitialised ListEnds
PROPERTIES DestroySparesHeld
SYMMETRY MutexSymmetry
CHECK_DEADLOCK FALSE
