SPECIFICATION FairSpec
CONSTANTS
  Frames <- Mixed
  BufSize = 14
  Reads = {62, 1024}
  Sizes <- Boundaries
  MaxFrames = 2
  MaxMessages = 1
  MaxOperations = 2
INVARIANTS FramesIntact ModeFits MessagesIntact
PROPERTY FramesHandled
CHECK_DEADLOCK FALSE
