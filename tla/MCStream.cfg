CONSTANTS
  Handles = {0, 1, 2, 8}
  StrLen <- Lengths
  Garbage = Garbage
  Events <- SomeEvents
  BufSize = 36
  MaxEvents = 4
  NoEvent = NoEvent
SPECIFICATION FairSpec
INVARIANTS NamesKnown StreamIntact
PROPERTIES ImplementsEventStream EventsArrive
