SPECIFICATION Spec
CONSTANTS
  MinPayload = 2
  MaxPayload = 8
  MaxBlockSize = 200
  MaxSstSize = 900
  BloomPositions <- MCBloomPositions
  BloomBytes = 1
  Unfinished = {}
  Payloads <- MCOneStream
  Unnamable = {"empty"}
  Clock = {1}
  MemtableLimit = 102
  BlockLimits = {90}
  Faults = {}
  MaxSeq = 3
  MaxCalls = 2
  MAX_U64 = 1000
  Queries <- MCUnbounded
INVARIANT RangeComplete
CHECK_DEADLOCK FALSE
