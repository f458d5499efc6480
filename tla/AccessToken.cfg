SPECIFICATION FairSpec
CONSTANTS
  Requests = {r1, r2, r3}
  LockTTL = 2
  MaxHold = 1
  TokenLife = 2
  MaxTime = 4
  MaxTokens = 3
INVARIANTS TypeOK OneAtATime
PROPERTIES NewerTokens NoNeedlessRefresh EachAnswered
