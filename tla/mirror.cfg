SPECIFICATION MirrorSpec
CONSTANTS
  c1 = c1
  nullptr = nullptr
  Clients = {c1}
  OrderIds = {1, 2, 3, 4, 5}
  Prices = {1, 2, 3}
  Quantities = {1}
  ME_MAX_PRICE_LEVELS = 4
  ME_MAX_ORDER_IDS = 4
  QtyModulus = 16
  MaxMarketOrderId = 4
  MaxRecoveries = 1
ACTION_CONSTRAINT FreshIds
INVARIANTS Mirrors OrdersKnown ListsByArrival CancelFindsOrder
PROPERTIES AsksStayShown
CHECK_DEADLOCK FALSE
