CONSTANTS
  Jobs = {j1, j2}
  NoValue = NoValue
  MaxQueue = 1
  Retention = 0
  MaxTime = 1
  MaxMedia = 1
  MaxAttempts = 2

SPECIFICATION Spec

SYMMETRY JobSymmetry

INVARIANT TypeOK
INVARIANT WInv
INVARIANT OutputIffCompleted
INVARIANT CompletedOutputOnDisk
INVARIANT CallbackMatchesStatus
INVARIANT EtaClearedWhenDone
INVARIANT WorkFileOnlyAfterFailure
PROPERTY LifecycleRefinement
