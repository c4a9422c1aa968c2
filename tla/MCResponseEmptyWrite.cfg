SPECIFICATION ResponseSpec
CONSTANTS
  IoMax = 4
  ContentLengths = {3}
  WriteSizes = {0, 2}
  MaxBytes = 6
  MaxWrites = 5
INVARIANT CompleteWhenEnded
CHECK_DEADLOCK FALSE
