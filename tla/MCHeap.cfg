SPECIFICATION FairSpec
CONSTANTS
  Frames = {f1, f2, f3, f4, f5, f6}
  NoFrame = NoFrame
  PAGE_SIZE = 8
  PTE_SIZE = 2
  PAGE_MAX_SIZE = 6
  Requests = {1, 6, 14}
  HEAP_START = 504
  HeaderSize = 3
  Word = 576
  BootStacks <- Stacks
INVARIANTS
  TypeOK
  HeapTiled
  ChunksMapped
  FrameOwnership
  TlbCoherent
  Trimmed
PROPERTIES
  StopsOnlyWithoutFrames
  GivesApartBlocks
  CallsReturn
CHECK_DEADLOCK FALSE
