SPECIFICATION FairSpec
CONSTANTS
  c1 = c1
  c2 = c2
  nullptr = nullptr
  Clients = {c1}
  OrderIds = {1, 4}
  Prices = {1, 2, 3, 5}
  Quantities = {1}
  ME_MAX_PRICE_LEVELS = 4
  ME_MAX_ORDER_IDS = 4
  QtyModulus = 4
  MaxMarketOrderId = 5
INVARIANTS FifoLists LevelsIndexed ClientMapSound PrintsByPriority
PROPERTIES LogTellsBook PriceTimePriority OrderLost CallEnds
CHECK_DEADLOCK FALSE
