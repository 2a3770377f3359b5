SPECIFICATION Spec
CONSTANTS
  c1 = c1
  c2 = c2
  s1 = s1
  s2 = s2
  noSocket = noSocket
  Clients = {c1, c2}
  Sockets = {s1, s2}
  MaxSeq = 2
  MaxTime = 3
  Splitting = {}
  SortLimit = 16
  PendingSize = 4
  MaxAnswers = 0
INVARIANTS ProcessedOnce
CHECK_DEADLOCK FALSE
