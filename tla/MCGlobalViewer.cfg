SPECIFICATION FairSpec
CONSTANTS
  Emitters = {e1}
  Controllers = {c1}
  NULL = NULL
  QueueCapacity = 2
  FlushBatch = 3
  MaxLive = 1
  MaxCalls = 3
PROPERTIES
  ShutdownAlwaysReturns
CHECK_DEADLOCK FALSE
