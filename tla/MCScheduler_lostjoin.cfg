SPECIFICATION Spec
CONSTANTS
  MaxThreads = 3
  RunQueueSize = 3
  MaintCycles = 2
  Clients <- AnyJoiners
  NULL = NULL
  ExitArgs = {v}
INVARIANTS WaitersOfTheLiving
CHECK_DEADLOCK FALSE
