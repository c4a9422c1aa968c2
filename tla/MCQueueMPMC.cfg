CONSTANTS
  Producers = {p1, p2}
  Consumers = {c1, c2}
  Values = {v1, v2}
  NoValue = NoValue
  BufferSize = 2
  Modulus = 64
  MaxTickets = 4
SYMMETRY Symmetry
SPECIFICATION Spec
INVARIANTS IInv SlotExclusion
PROPERTY RefusedOnlyWhenFull
