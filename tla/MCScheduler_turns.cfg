SPECIFICATION LiveSpec
CONSTANTS
  MaxThreads = 3
  RunQueueSize = 2
  MaintCycles = 2
  Clients <- TakingTurns
  NULL = NULL
  ExitArgs = {}
INVARIANTS WaitersOfTheLiving JoinWaitsForDeath NoNodeQueuedTwice
PROPERTIES JoinReturnsAfterDeath ReadyRuns
CHECK_DEADLOCK FALSE
