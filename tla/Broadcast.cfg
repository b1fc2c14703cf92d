SPECIFICATION FairSpec
CONSTANTS
  Trades = {t1, t2}
  Endpoints = {e1, e2}
  Up = {e1}
  Node = e2
  Relay = relay
  Filled = {0, 1, 2}
  Lag = 1
INVARIANTS TypeOK ExecutedOnce ReportedIsNotLost
PROPERTIES BroadcastsLand
CHECK_DEADLOCK FALSE
