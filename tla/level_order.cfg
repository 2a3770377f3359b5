SPECIFICATION Spec
CONSTANTS
  c1 = c1
  c2 = c2
  nullptr = nullptr
  Clients = {c1}
  OrderIds = {1}
  Prices = {1, 2, 3}
  Quantities = {1}
  ME_MAX_PRICE_LEVELS = 4
  ME_MAX_ORDER_IDS = 4
  QtyModulus = 16
  MaxMarketOrderId = 3
INVARIANT ArrangedByPrice
CHECK_DEADLOCK FALSE
