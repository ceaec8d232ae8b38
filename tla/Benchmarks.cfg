CONSTANTS
  msg_count = 5
  queue_capacity = 3
  Iterations = 3
SPECIFICATION Spec
INVARIANTS
  TypeOK
  IterationsIndependent
PROPERTIES
  BenchmarkEnds
