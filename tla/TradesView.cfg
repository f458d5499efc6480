SPECIFICATION FairSpec
CONSTANTS
  Writers = {w1, w2}
  Flushers = {f1, f2}
  NoOne = NoOne
  MaxStatements = 2
  Interval = 1
  MaxTxAge = 1
  MaxFlushAge = 1
INVARIANTS TypeOK NothingLost OneRefreshAtATime
PROPERTIES Debounced ImplementsListings CatchesUp
