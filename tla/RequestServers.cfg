CONSTANTS
  Clients = {c1, c2, c3}
  None = None
  Modulus = 3
SPECIFICATION Spec
INVARIANTS
  TypeOK
  AnsweredBeforeNext
PROPERTIES
  ImplementsRequestSlot
