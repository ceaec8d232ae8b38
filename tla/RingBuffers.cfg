CONSTANTS
  Capacity = 4
  Iters = 10
SPECIFICATION Spec
INVARIANTS
  TypeOK
  AccessesOrdered
  RefusedAtTheLimit
PROPERTIES
  ImplementsFIFO
  BenchEnds
