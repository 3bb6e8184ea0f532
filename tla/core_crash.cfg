SPECIFICATION Spec
CONSTANTS
  Faults = {"spill", "rotate", "fsync", "resync", "sst", "remove"}
  ChannelCapacity = 1
  FsyncEveryBatch = TRUE
  MemtableLimit = 1
  CompactionFactor = 2
  CompactionWidth = 2
  BatchSizes = {2}
  CrashKinds = {"process", "power"}
  MaxSeq = 4
  MaxCrashes = 1
INVARIANTS SeqFresh
PROPERTIES ImplementsLogStore SstFilesImmutable
