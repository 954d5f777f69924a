CONSTANTS
  MaxSockets = 2
  MaxPublish = 2
  MaxMessageId = 2
  MaxStack = 5
  Settings <- InboundSettings
SPECIFICATION Spec
INVARIANT InboundOnce
CHECK_DEADLOCK FALSE
