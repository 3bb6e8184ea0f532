SPECIFICATION Spec
CONSTANTS
  Entries <- MCEntries
  LabelLen = 4
  MaxFileSize = 26
  BufSize = 35
  WriterCap = 24
  MaxEntries = 4
  MaxCrashes = 2
INVARIANTS RecoversLog ErrorsHaveCause FileBounded
CHECK_DEADLOCK FALSE
