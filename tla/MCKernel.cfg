CONSTANTS
  idle = idle
  tty = tty
  nothread = nothread
  zero = zero
  key = key
  nobyte = nobyte
  Threads <- MCThreads
  Idle = idle
  Tty = tty
  NoThread = nothread
  Irqs <- MCIrqs
  Timer = 32
  Keyboard = 33
  Returning = {}
  QuietSwitch = TRUE
  N = 1
  Bytes <- MCBytes
  Zero = zero
  NoByte = nobyte
SPECIFICATION KernelFairSpec
INVARIANTS
  FlagFollowsSection
  HandlerFindsByte
PROPERTIES
  ImplementsScheduler
  ImplementsQueue
