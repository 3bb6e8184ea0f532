SPECIFICATION FairRangeSpec
CONSTANTS
  Log <- MCLog
  Queries <- MCQueries
  NumTables = 2
  IntBound = 4
  RangeBatchSize = 2
  RecordChannel = 1
  ReadFaults = {"open", "read", "decode", "drop"}
INVARIANTS RangeInv RangeExact RangeSorted
PROPERTIES QueryEnds
CHECK_DEADLOCK FALSE
