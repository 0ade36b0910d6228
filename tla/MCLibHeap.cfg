SPECIFICATION Spec
CONSTANTS
  HeapSize = 32
  BLOCK_SIZE = 4
  Sizes = {0, 3, 4, 5, 8, 28}
INVARIANTS ChainTilesHeap NoFreeNeighbours FreedHeapIsRoot FreeUndoesAllocate WordsKeepHeaders
PROPERTIES ImplementsAllocator
