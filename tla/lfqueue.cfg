SPECIFICATION FairSpec
CONSTANTS
  p1 = p1
  p2 = p2
  m1 = m1
  m2 = m2
  m3 = m3
  noMessage = noMessage
  Producers = {p1}
  Messages = {m1, m2, m3}
  QueueSize = 3
  MaxBacklog = 3
INVARIANTS NoDataRace
PROPERTIES IsFifoChannel Delivered
