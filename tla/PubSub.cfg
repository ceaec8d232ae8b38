CONSTANTS
  Names = {a, b}
  MaxConfigs = 2
  Capacity = 1
  MaxCalls = 2
  MaxFaults = 1
SPECIFICATION Spec
INVARIANTS
  TypeOK
  SyncMatchesUnlessFailed
  OnceUnlessRetried
  PublishedReachesAll
PROPERTIES
  StableDuringPublish
  LockReleased
