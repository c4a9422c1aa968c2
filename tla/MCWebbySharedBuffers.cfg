SPECIFICATION Spec
CONSTANTS
  Clients = {c1, c2, c3}
  ConnectionMax = 2
  BufferMax = 3
  FrameRead = 2
  Says = {"get"}
  MaxSend = 2
  NoSocket = NoSocket
SYMMETRY Symmetry
INVARIANTS MessageIntact
CHECK_DEADLOCK FALSE
