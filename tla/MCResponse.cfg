SPECIFICATION FairResponseSpec
CONSTANTS
  IoMax = 4
  ContentLengths = {0, 3, 9}
  WriteSizes = {1, 2, 3, 4, 9}
  MaxBytes = 18
  MaxWrites = 5
INVARIANTS BodyInOrder CompleteWhenEnded
PROPERTY RepliesArrive
CHECK_DEADLOCK FALSE
