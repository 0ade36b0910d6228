SPECIFICATION Spec
CONSTANTS
  MaxThreads = 4
  RunQueueSize = 3
  MaintCycles = 2
  Clients <- TwoJoiners
  NULL = NULL
  ExitArgs = {}
INVARIANTS LevelMatchesQueue NoNodeQueuedTwice NoThreadLost DeadNeverScheduled
PROPERTIES DeathWakesAllJoiners FifoWithinLevel
CHECK_DEADLOCK FALSE
