CONSTANTS
  MaxSockets = 2
  MaxPublish = 0
  MaxMessageId = 2
  MaxStack = 5
  Settings <- ClosedSettings
SPECIFICATION Spec
INVARIANT StaysClosed
CHECK_DEADLOCK FALSE
