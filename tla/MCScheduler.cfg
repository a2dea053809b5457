SPECIFICATION Spec
CONSTANTS
  Values = {a, b}
  Capacity <- MCCapacity
  MaxAccepted = 3
INVARIANTS
  QueuesBounded
PROPERTIES
  ShutdownIsFinal
  ImplementsFairFifo
