SPECIFICATION FairSpec
CONSTANTS
  c1 = c1
  c2 = c2
  s1 = s1
  s2 = s2
  noSocket = noSocket
  Clients = {c1, c2}
  Sockets = {s1, s2}
  MaxSeq = 2
  MaxTime = 4
  Splitting = {c1}
  SortLimit = 2
  PendingSize = 3
  MaxAnswers = 2
INVARIANTS ClientOrderKept  OneConnection StopsForCause
PROPERTIES RequestsPublished
CHECK_DEADLOCK FALSE
