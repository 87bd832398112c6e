CONSTANTS
  Jobs = {j1, j2, j3}
  NoValue = NoValue
  MaxQueue = 1
  Retention = 0
  MaxTime = 0
  MaxMedia = 0
  MaxAttempts = 1

SPECIFICATION Spec

INVARIANT FifoOrder
