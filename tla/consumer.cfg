SPECIFICATION ConsumerSpec
CONSTANTS
  Tickers = {1}
  OrderIds = {1}
  Qtys = {1, 2}
  Sides = {"BUY"}
  MaxUpdates = 3
  MaxSnapshots = 2
  Faults = {"lose", "repeat", "overtake"}
  SnapshotLoss = TRUE
  JoinMidway = TRUE
ACTION_CONSTRAINT SnapshotsUnmixed
INVARIANTS NoGapPassed
PROPERTIES ConsumerImplementsReplica
CHECK_DEADLOCK FALSE
