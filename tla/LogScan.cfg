CONSTANTS
  MaxFile = 3
  MaxSeq = 3
  FileHeaderBytes = 2
  RecordHeaderBytes = 2
  RecordBytes = 4
SPECIFICATION Spec
INVARIANTS
  ReportsLongestPrefix
  RecoverHeals
PROPERTIES
  ValidRecordsKept
