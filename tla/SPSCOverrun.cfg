CONSTANTS
  BufferSize = 64
  PayloadSizes = {8, 16}
  CountModulus = 16
  MaxMessages = 6
  MaxCrashes = 0
SPECIFICATION Spec
INVARIANT
  KeepsUnread
