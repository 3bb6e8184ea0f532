SPECIFICATION Spec
CONSTANTS
  Faults = {}
  ChannelCapacity = 1
  FsyncEveryBatch = TRUE
  MemtableLimit = 1
  CompactionFactor = 8
  CompactionWidth = 2
  BatchSizes = {2}
  CrashKinds = {"power"}
  MaxSeq = 2
  MaxCrashes = 2
INVARIANTS HardenedSurvive
