SPECIFICATION Spec
CONSTANTS
  Callers = {c1, c2}
  Compositor = comp
  NoThread = none
  JniKinds = {"window", "terminate"}
  MaxPosts = 2
INVARIANTS
  TypeOK
  QueueAccessExclusive
  NoSelfDeadlock
  ReadNeverBlocks
  NoLostWakeup
  JoinedMeansRan
PROPERTIES
  ImplementsFifoWork
  PostedIsRun
  TerminateReturns
CHECK_DEADLOCK FALSE
