SPECIFICATION HeapSpec
CONSTANTS
  MaxThread = 3
  NFrames = 3
  NSlots = 1
  Careful = FALSE
  PageSize = 3
  BLOCK_SIZE = 1
  Sizes = {1, 5}
INVARIANT Isolation
CHECK_DEADLOCK FALSE
