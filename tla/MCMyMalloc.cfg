SPECIFICATION Spec
CONSTANTS
  HeapSize = 32
  BLOCK_SIZE = 4
  Word = 64
  Sizes <- RequestSizes
PROPERTIES ImplementsLibHeap
