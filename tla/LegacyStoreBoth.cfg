CONSTANTS
  MaxRecords = 3
  SeqModulus = 8
  MaxGeneration = 3
  MaxSessions = 4
  BatchCapacity = 2
  SyncEvery = 1
  SyncCarriesEntry = TRUE
  MaxLegacy = 1
  FaultSets = {{"kill", "power"}}
  Torn = Torn
  Absent = Absent
SPECIFICATION LegacySpec
INVARIANT MigrationRecovers
CHECK_DEADLOCK FALSE
