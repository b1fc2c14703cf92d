SPECIFICATION AnsweringSpec
CONSTANTS
  HasV3 = FALSE
  Refuses = TRUE
  FloatExponent = 1
  MaxDrops = 3
  MaxLogs = 2
  MaxInbox = 3
INVARIANTS TypeOK StreamsWhatIsServed
PROPERTIES StreamsAgain LogsDelivered
CHECK_DEADLOCK FALSE
