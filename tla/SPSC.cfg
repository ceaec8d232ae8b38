CONSTANTS
  BufferSize = 56
  PayloadSizes = {4, 16}
  CountModulus = 16
  MaxMessages = 6
  MaxCrashes = 1
SPECIFICATION FairUntilOverrun
INVARIANTS
  TypeOK
  IndInv
  DeliversOldestUnread
  NoRace
  EmptyMeansEmpty
  RefusesOnlyWhenOccupied
  SizeFromWriter
PROPERTIES
  OverrunNeedsTwoSizes
  ImplementsFIFO
  RefusedGetsIn
