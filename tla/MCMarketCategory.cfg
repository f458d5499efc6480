CONSTANTS
  i1 = i1  k1 = k1  k2 = k2  u1 = u1  u2 = u2
  Items = {i1}
  Tokens = {k1}
  Users = {u1, u2}
  Nobody = Nobody
  Prices = {1, 3}
  MaxAvailable = 2
  MaxNumeric = 9
  UtilityWord = "utility"
  PerCredit = 2
  ItemOf <- MCItemOf
  ItemPrice <- MCItemPrice
  CategoryOf <- MCCategoryOf
  Words <- MCWords
  Trades <- MCTrades
  Filters <- MCFilters
  Asks <- MCAsks
  Rates = {0, 2, 3}
SPECIFICATION Spec
CHECK_DEADLOCK FALSE
INVARIANT CategoryKeepsPrice
