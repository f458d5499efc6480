SPECIFICATION Spec
CONSTANTS
  Requests = {r1, r2}
  Trades <- MCOrders
  NoTrade = NoTrade
  NoItem = NoItem
  seller = seller
  buyer = buyer
  token = token
  item = item
CHECK_DEADLOCK FALSE
INVARIANTS OneOpenOrder
