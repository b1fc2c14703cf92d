SPECIFICATION AnsweringSpec
CONSTANTS
  HasV3 = TRUE
  Refuses = FALSE
  FloatExponent = 1
  MaxDrops = 3
  MaxLogs = 2
  MaxInbox = 3
PROPERTY LogsDelivered
CHECK_DEADLOCK FALSE
