SPECIFICATION FairSpec
CONSTANTS
  Faults = {}
  ChannelCapacity = 2
  FsyncEveryBatch = FALSE
  MemtableLimit = 1
  CompactionFactor = 3
  CompactionWidth = 2
  BatchSizes = {0, 2}
  CrashKinds = {}
  MaxSeq = 6
  MaxCrashes = 0
INVARIANTS TypeOK UnflushedLogged CompactionsDisjoint
PROPERTIES ImplementsLogStore FrozenReleased EventuallyHardened
