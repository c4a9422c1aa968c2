SPECIFICATION FairSpec
CONSTANTS
  Emitters = {e1, e2}
  Controllers = {c1}
  NULL = NULL
  QueueCapacity = 1
  FlushBatch = 2
  MaxLive = 2
  MaxCalls = 2
PROPERTIES
  ShutdownReturnsWhileAllLive
CHECK_DEADLOCK FALSE
