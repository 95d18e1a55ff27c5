\* Six frames, and four blocks of the heap.
SPECIFICATION MemorySpec
CONSTANTS
  MaxFrames = 6
  Word = 64
  Starts = {3, 8}
  Requests = {0, 1, 8, 9, 56}
  MaxBlocks = 4
INVARIANTS HintSound BlocksApart
PROPERTY ImplementsPool
