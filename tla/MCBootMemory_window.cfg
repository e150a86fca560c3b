SPECIFICATION Spec
CONSTANTS
  Word = 256
  PMM_PAGE_SIZE = 4
  PMM_MAX_SIZE = 32
  PTE_SIZE = 2
  PTE_COUNT = 4
  kern_end = 8
  Maps <- PCs
INVARIANTS
  FramesReachable
CHECK_DEADLOCK FALSE
