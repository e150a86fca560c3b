SPECIFICATION Spec
CONSTANTS
  Frames = {f1, f2, f3, f4, f5}
  NoFrame = NoFrame
  PAGE_SIZE = 8
  PTE_SIZE = 2
  PAGE_MAX_SIZE = 5
  Requests = {1, 100}
  HEAP_START = 448
  HeaderSize = 3
  Word = 512
  BootStacks <- Stacks
INVARIANT ChunksMapped
CHECK_DEADLOCK FALSE
