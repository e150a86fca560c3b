CONSTANTS
  idle = idle
  tty = tty
  worker = worker
  none = none
  Threads <- MCThreads
  Idle = idle
  NoThread = none
  Irqs <- MCIrqs
  Timer = 32
  Returning = {}
  QuietSwitch = FALSE
SPECIFICATION FairSpec
INVARIANT ContextsIntact
