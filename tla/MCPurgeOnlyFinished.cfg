CONSTANTS
  Jobs = {j1}
  NoValue = NoValue
  MaxQueue = 1
  Retention = 0
  MaxTime = 1
  MaxMedia = 0
  MaxAttempts = 1

SPECIFICATION Spec

PROPERTY PurgeOnlyFinished
