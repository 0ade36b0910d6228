SPECIFICATION HeapSpec
CONSTANTS
  MaxThread = 3
  NFrames = 3
  NSlots = 1
  Careful = TRUE
  PageSize = 3
  BLOCK_SIZE = 1
  Sizes = {1, 5}
INVARIANTS
  OnePlace
  NoPageLost
  BytesFollowTable
  Isolation
  GatherHasRoom
  NoAlarmInside
  WordsKeepEntries
  ChainTilesPages
  WalkStaysInPlace
CHECK_DEADLOCK FALSE
