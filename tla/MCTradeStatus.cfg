SPECIFICATION Spec
CONSTANTS
  Trades <- MCTrades
  Callers = {ann, bob}
  Signer = ann
  Marketplaces = {v1, v2}
  LowerCase = {v1, v2}
  Networks = {ethereum, matic}
  Home = matic
  Assets = 2
  MaxIndex = 2
  Null = Null
  v1 = v1
  v2 = v2
CHECK_DEADLOCK FALSE
INVARIANTS ViewTellsUsable SingleUseAgrees
