CONSTANTS
  MaxRecords = 6
  SeqModulus = 16
  MaxGeneration = 4
  MaxSessions = 3
  BatchCapacity = 3
  SyncEvery = 1
  SyncCarriesEntry = TRUE
  MaxBatch = 3
  Torn = Torn
  Absent = Absent
SPECIFICATION MatrixSpec
INVARIANT CasePasses
PROPERTY CasesEnd
CHECK_DEADLOCK FALSE
