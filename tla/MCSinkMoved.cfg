SPECIFICATION SinkSpec
CONSTANTS
  Clients = {c1, c2, c3}
  ConnectionMax = 2
  BufferMax = 3
  FrameRead = 1
  Says = {"upgrade"}
  MaxSend = 2
  NoSocket = NoSocket
  Addresses = {s1, s2, s3}
  NULL = NULL
  Failing = {}
  MaxListens = 1
SYMMETRY Symmetry
INVARIANT WritesToOwnViewer
CHECK_DEADLOCK FALSE
