SPECIFICATION FairSinkSpec
CONSTANTS
  Clients = {c1, c2}
  ConnectionMax = 1
  BufferMax = 3
  FrameRead = 2
  Says = {"post", "expect", "upgrade", "data", "ping", "close"}
  MaxSend = 3
  NoSocket = NoSocket
  Addresses = {s1}
  NULL = NULL
  Failing = {"server"}
  MaxListens = 2
INVARIANTS MessageIntact SessionsMatchAlways
PROPERTIES PassEnds HungUpClosed UpgradeAnswered
CHECK_DEADLOCK FALSE
