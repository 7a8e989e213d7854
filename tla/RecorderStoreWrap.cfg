CONSTANTS
  MaxRecords = 3
  SeqModulus = 2
  MaxGeneration = 4
  MaxSessions = 3
  BatchCapacity = 2
  SyncEvery = 2
  SyncCarriesEntry = TRUE
  Torn = Torn
  Absent = Absent
SPECIFICATION Spec
INVARIANT AcknowledgedDurable
CHECK_DEADLOCK FALSE
