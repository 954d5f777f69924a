SPECIFICATION FairSpec
CONSTANTS
  MaxWrites = 3
  MaxCorks = 1
  ChunkLengths = {0, 2}
  HighWaterMark = 2
  HasWritev = TRUE
  SinkAnswers = {"later", "now"}
  SinkInListener = FALSE
  WritesInFinish = FALSE
  InvalidChunks = FALSE
INVARIANT CountersExact
PROPERTIES ImplementsQueue OneOutstanding DrainArrives FinishArrives EveryWriteAnswered
CHECK_DEADLOCK FALSE
