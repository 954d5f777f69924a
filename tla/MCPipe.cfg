SPECIFICATION PipeFairSpec
CONSTANTS
  MaxBytes = 6
  ChunkSizes = {1, 2}
  InitialMark = 2
  ObjectModes = {FALSE}
  ReadSizes = {0}
  PullsOnReadable = TRUE
  UserCalls = {"read", "pause", "resume", "on"}
  MaxUnshifts = 0
  MaxPushes = 1
  PushesUnasked = FALSE
  LatePushes = FALSE
  MaxCalls = 1
  MaxStack = 4
  MaxImmediates = 2
  SinkMark = 2
  SinkAnswers = {"later"}
  MaxPiped = 4
  MaxPipeCalls = 3
INVARIANTS Backpressure PipeWhole
PROPERTIES OneRead ReachesEnd PipeArrives
CHECK_DEADLOCK FALSE
