CONSTANTS
  MaxRecords = 4
  SeqModulus = 8
  MaxGeneration = 3
  MaxSessions = 4
  BatchCapacity = 2
  SyncEvery = 1
  SyncCarriesEntry = TRUE
  MaxLegacy = 2
  FaultSets = {{"kill"}, {"power"}, {"kill", "power"}}
  Torn = Torn
  Absent = Absent
SPECIFICATION LegacySpec
INVARIANTS
  LegacyRecordsKept
  EntrySurvives
  EntryInItsPlace
  RefusalExplained
CHECK_DEADLOCK FALSE
