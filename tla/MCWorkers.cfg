CONSTANTS
  c1 = c1  c2 = c2  c3 = c3  m1 = m1  l1 = l1  l2 = l2
  MaxRound = 2
  MaxRefresh = 3
  Collections = {c1, c2, c3}
  NameOf <- MCNameOf
  Marketplaces <- MCMarketplaces
  Asks <- MCAsks
  Loaders = {l1, l2}
  PageSize = 2
  MaxChanges = 2
  Assets = {1, 2, 3, 4, 5}
  KindOf <- MCKindOf
  UrnOf <- MCUrnOf
  CreatedAt <- MCCreatedAt
  RarityOf <- MCRarityOf
  Wanted <- MCWanted
  MaxMoves = 2
  Goods = {1, 2}
  Me = Me  Peer = Peer
  FetchCap = 2
  Limit = 2
  MaxDeals = 3
  MaxFailing = 1
SPECIFICATION WSpec
CHECK_DEADLOCK FALSE
INVARIANTS
  StopAnswers LoadsLoseNothing WalksLoseNothing ActivityTold
PROPERTIES
  JobEnds RateGoesBack
