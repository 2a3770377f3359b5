SPECIFICATION FairSpec
CONSTANTS
  Count = 5
  FrameUnits = 3
  Room = 7
INVARIANTS NothingLost NumbersInPlace
PROPERTIES EveryRequestAnswered
CHECK_DEADLOCK FALSE
