SPECIFICATION Spec
CONSTANTS
  Keys = {k1, k2, k3, k4}
  Values = {v1, v2}
  Nodes = {n1, n2, n3, n4}
  Sentry = sentry
  MaxCapacity = 3
  NoValue = none
  Null = null
  PutPresent = FALSE
SYMMETRY Symmetry
INVARIANTS MapIndexesList MemorySafe
PROPERTIES ImplementsLRU
