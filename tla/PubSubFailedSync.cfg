CONSTANTS
  Names = {a, b}
  MaxConfigs = 2
  Capacity = 1
  MaxCalls = 0
  MaxFaults = 1
SPECIFICATION Spec
INVARIANT SyncMatches
