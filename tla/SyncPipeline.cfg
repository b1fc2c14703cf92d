SPECIFICATION FairSpec
CONSTANTS
  V2Pools = {p}
  V3Pools = {q}
  States = {a, b}
  Drained = b
  PollBlocks = 0
  SeenLimit = 1
  FloatExponent = 0
  MaxBlock = 2
  MaxBlockLogs = 2
  MaxLag = 1
  MaxFailures = 2
INVARIANTS TypeOK LosesOnlyMissed
PROPERTIES FeedIsLossyFifo LogsSettle
CHECK_DEADLOCK FALSE
