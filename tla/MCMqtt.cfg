CONSTANTS
  MaxSockets = 2
  MaxPublish = 1
  MaxMessageId = 2
  MaxStack = 5
  Settings <- BothSettings
SPECIFICATION FairSpec
INVARIANTS TypeOK AttemptBounded AckOwn SessionSane
PROPERTY Reconnects
CHECK_DEADLOCK FALSE
