SPECIFICATION Spec
CONSTANTS
  MinPayload = 2
  MaxPayload = 8
  MaxBlockSize = 130
  MaxSstSize = 170
  BloomPositions <- MCBloomPositions
  BloomBytes = 1
  Unfinished = {}
  Input <- MCInput
  BlockLimits = {44, 90, 130}
  Probes <- MCProbes
INVARIANTS TableLayout ReadsBack ScanCovers SeekLands
CHECK_DEADLOCK FALSE
