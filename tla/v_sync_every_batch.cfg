SPECIFICATION FairSpec
CONSTANTS
  Faults = {}
  ChannelCapacity = 2
  FsyncEveryBatch = TRUE
  MemtableLimit = 1
  CompactionFactor = 8
  CompactionWidth = 2
  BatchSizes = {2}
  CrashKinds = {}
  MaxSeq = 3
  MaxCrashes = 0
PROPERTIES EventuallyHardened
