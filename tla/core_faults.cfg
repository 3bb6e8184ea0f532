SPECIFICATION Spec
CONSTANTS
  Faults = {"tear", "append", "rotate", "sst", "open", "remove"}
  ChannelCapacity = 1
  FsyncEveryBatch = TRUE
  MemtableLimit = 1
  CompactionFactor = 2
  CompactionWidth = 2
  BatchSizes = {2}
  CrashKinds = {"process", "power"}
  MaxSeq = 4
  MaxCrashes = 1
INVARIANTS IInv CleanupInv
PROPERTIES DeletedWalIsFlushed
