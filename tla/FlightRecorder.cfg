CONSTANTS
  Capacity = 2
  BatchSize = 2
  SyncEvery = 3
  Interval = 2
  IdleWait = 3
  MaxSamples = 4
SPECIFICATION StatusSpec
INVARIANTS
  TypeOK
  DeadlineFollowsOldest
  WakesForDeadline
  TotalsSound
  DropsReported
  ShownIsDurable
  FinalIsExact
PROPERTIES
  TimedCommit
  FailureStops
  StopCompletes
CHECK_DEADLOCK FALSE
