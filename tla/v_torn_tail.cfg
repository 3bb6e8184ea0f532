SPECIFICATION Spec
CONSTANTS
  Faults = {"spill", "tear"}
  ChannelCapacity = 1
  FsyncEveryBatch = TRUE
  MemtableLimit = 1
  CompactionFactor = 8
  CompactionWidth = 2
  BatchSizes = {2}
  CrashKinds = {"process"}
  MaxSeq = 3
  MaxCrashes = 1
INVARIANTS HardenedSurvive
