SPECIFICATION FairSpec
CONSTANTS
  Emitters = {e1}
  Controllers = {c1, c2}
  NULL = NULL
  QueueCapacity = 2
  FlushBatch = 3
  MaxLive = 1
  MaxCalls = 2
INVARIANTS LifecycleConsistent NoDanglingWalk
PROPERTIES FlushEnds ShutdownReturns EnqueReturns EventsFlushed
CHECK_DEADLOCK FALSE
