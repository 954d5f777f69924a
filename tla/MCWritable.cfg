SPECIFICATION Spec
CONSTANTS
  MaxWrites = 3
  MaxCorks = 1
  ChunkLengths = {0, 2}
  HighWaterMark = 2
  HasWritev = FALSE
  SinkAnswers = {"later", "now", "fail", "failNow"}
  SinkInListener = FALSE
  WritesInFinish = FALSE
  InvalidChunks = TRUE
INVARIANTS TypeOK CountersExact LoopInBuffer
PROPERTY FinishFlushed
CHECK_DEADLOCK FALSE
