CONSTANTS
  Handles = {0, 1, 2, 8}
  StrLen <- Lengths
  Garbage = Garbage
  Events <- SomeEvents
  BufSize = 36
  MaxEvents = 4
  NoEvent = NoEvent
SPECIFICATION Spec
INVARIANT NamesAlwaysKnown
