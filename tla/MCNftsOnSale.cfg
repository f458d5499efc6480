CONSTANTS
  land = land  plot = plot  name = name  u1 = u1  u2 = u2
  Items = {}
  Tokens = {land, plot, name}
  Users = {u1, u2}
  Nobody = Nobody
  Custodian = Custodian
  Prices = {1}
  MaxAvailable = 1
  ItemOf <- MCItemOf
  ItemPrice <- MCItemPrice
  Trades <- MCTrades
  Category <- MCCategory
  Requests <- MCRequests
  Served <- MCServed
  Age <- MCAge
SPECIFICATION MCSpec
CHECK_DEADLOCK FALSE
INVARIANT OnlyOnSale
