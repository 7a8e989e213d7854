CONSTANTS
  Capacity = 2
  BatchSize = 2
  SyncEvery = 2
  Interval = 2
  IdleWait = 3
  MaxSamples = 6
SPECIFICATION Spec
INVARIANT StopDrains
CHECK_DEADLOCK FALSE
