CONSTANTS
  MaxRecords = 3
  SeqModulus = 8
  MaxGeneration = 4
  MaxSessions = 3
  BatchCapacity = 2
  SyncEvery = 2
  SyncCarriesEntry = FALSE
  Torn = Torn
  Absent = Absent
SPECIFICATION Spec
INVARIANT AcknowledgedDurable
CHECK_DEADLOCK FALSE
