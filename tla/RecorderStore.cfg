CONSTANTS
  MaxRecords = 4
  SeqModulus = 8
  MaxGeneration = 4
  MaxSessions = 3
  BatchCapacity = 2
  SyncEvery = 2
  SyncCarriesEntry = TRUE
  Torn = Torn
  Absent = Absent
SPECIFICATION ReuseSpec
INVARIANTS
  TypeOK
  CheckpointsCovered
  AcknowledgedDurable
  RecoveredLogOpens
  RefusalStrandsNothing
  SequenceContinues
  NewestCoversAcked
PROPERTIES
  AcknowledgedForever
  ImplementsDurableLog
  FailedAcknowledgesNothing
CHECK_DEADLOCK FALSE
