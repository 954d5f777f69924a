SPECIFICATION Spec
CONSTANTS
  MaxWrites = 3
  MaxCorks = 1
  ChunkLengths = {1}
  HighWaterMark = 4
  HasWritev = FALSE
  SinkAnswers = {"later", "fail"}
  SinkInListener = FALSE
  WritesInFinish = FALSE
  InvalidChunks = FALSE
INVARIANT InOrder
CHECK_DEADLOCK FALSE
