CONSTANTS
  Producers = {owner}
  Consumers = {background}
  Values = {v1, v2}
  NoValue = NoValue
  BufferSize = 2
  Modulus = 6
  MaxTickets = 9
SPECIFICATION Spec
INVARIANTS FifoDelivery
PROPERTIES RefusedOnlyWhenFull EmptyOnlyWhenEmpty ImplementsBoundedQueue
