SPECIFICATION Spec
CONSTANTS
  MinPayload = 2
  MaxPayload = 8
  MaxBlockSize = 200
  MaxSstSize = 900
  BloomPositions <- MCBloomPositions
  BloomBytes = 1
  Unfinished = {}
  Payloads <- MCPayloads
  Unnamable = {"empty"}
  Clock = {1, 2}
  MemtableLimit = 102
  BlockLimits = {44, 90}
  Faults = {"fsync", "sst", "manifest"}
  MaxSeq = 3
  MaxCalls = 2
  MAX_U64 = 1000
  Queries <- MCQueries
INVARIANTS NothingVanishes LogFirst StreamsNamed AckedSynced FrozenAccounted RangeAscending RangeMemtables
CHECK_DEADLOCK FALSE
