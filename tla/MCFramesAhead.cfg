SPECIFICATION Spec
CONSTANTS
  Frames <- Mixed
  BufSize = 14
  Reads = {62, 1024}
  Sizes <- Boundaries
  MaxFrames = 2
  MaxMessages = 1
  MaxOperations = 2
INVARIANT StateRetained
CHECK_DEADLOCK FALSE
