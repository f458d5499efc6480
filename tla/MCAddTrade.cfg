SPECIFICATION FairSpec
CONSTANTS
  Requests = {r1, r2}
  Trades <- MCTrades
  NoTrade = NoTrade
  NoItem = NoItem
  seller = seller
  buyer = buyer
  token = token
  item = item
CHECK_DEADLOCK FALSE
INVARIANTS TypeOK  CreatedOnce RedundantToAnother
PROPERTIES EachAnswered
