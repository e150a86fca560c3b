CONSTANTS
  idle = idle
  tty = tty
  worker = worker
  none = none
  Threads <- MCThreads
  Idle = idle
  NoThread = none
  Irqs <- MCIrqs
  Timer = 32
  Returning = {worker}
  QuietSwitch = TRUE
SPECIFICATION FairSpec
INVARIANTS
  TypeOK
  OneRing
  CurrentOwnsCpu
  ContextsIntact
  FlagFollowsLevel
  InterruptsAcked
PROPERTIES
  ServesInRoundOrder
CHECK_DEADLOCK FALSE
