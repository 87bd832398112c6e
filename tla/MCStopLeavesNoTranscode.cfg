CONSTANTS
  Jobs = {j1}
  NoValue = NoValue
  MaxQueue = 1
  Retention = 0
  MaxTime = 0
  MaxMedia = 1
  MaxAttempts = 1

SPECIFICATION Spec

INVARIANT StopLeavesNoTranscode
