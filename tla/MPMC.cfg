CONSTANTS
  Producers = {p1, p2}
  Consumers = {c1, c2}
  capacity_ = 2
  Pushes = 2
  Pops = 2
SPECIFICATION Spec
INVARIANTS
  TypeOK
  ExclusiveSlot
  PopsWhatWasPushed
  DestroysWhatIsLeft
  SizeOnceJoined
PROPERTIES
  AllReturn
