SPECIFICATION FairSpec
CONSTANTS
  Ops = {o1, o2}
  Closers = {c1, c2}
INVARIANTS
  TypeOK
  ActiveCounts
  DrainedIsEmpty
  NoLostWakeup
  NoLostShutdown
PROPERTIES
  GateSpec
  CloseReturns
  ShutdownCancels
