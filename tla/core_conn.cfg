SPECIFICATION FairSpec
CONSTANTS
  StrLen <- MCStrLen
  JsonLen = 9
  U32Bound = 1000
  Conns = {1, 2}
  Requests <- MCRequests
  Stored <- MCStored
  Cancellable = {"BatchInsert", "Range"}
  MaxCalls = 2
  Chunks = {3}
  PathFrames = 1
  PathBytes = 10
  ChannelCapacity = 1
  RangeBatchSize = 1
  RecordChannel = 1
  FLUSH_THRESHOLD = 50
  Faults = {"insert", "range", "task", "engine", "accept"}
  MaxFaults = 1
INVARIANTS AnswersMatch RequestsArrive AnswersDecode AckedApplied RangeAnswers MetricsFresh FramesCounted
 
CHECK_DEADLOCK FALSE
