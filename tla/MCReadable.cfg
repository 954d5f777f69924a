SPECIFICATION Spec
CONSTANTS
  MaxBytes = 3
  ChunkSizes = {0, 1, 2}
  InitialMark = 2
  ObjectModes = {TRUE, FALSE}
  ReadSizes = {1, 2}
  PullsOnReadable = FALSE
  UserCalls = {"read", "pause", "resume", "on"}
  MaxUnshifts = 1
  MaxPushes = 1
  PushesUnasked = TRUE
  LatePushes = TRUE
  MaxCalls = 1
  MaxStack = 4
  MaxImmediates = 2
INVARIANTS TypeOK InOrder
PROPERTY EndAfterData
CHECK_DEADLOCK FALSE
