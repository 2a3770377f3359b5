SPECIFICATION FairSpec
CONSTANTS
  Tickers = {1, 2}
  OrderIds = {1, 2, 3}
  Sides = {"BUY", "SELL"}
  MaxOrderIds = 3
  Qtys = {1, 2}
  QueueSize = 2
  MaxBacklog = 1
  MaxUpdates = 3
  noUpdate = noUpdate
INVARIANTS NumberedRight FailsForCause SnapshotShowsBook
PROPERTIES ImplementsReplica ReachesSnapshot
CHECK_DEADLOCK FALSE
