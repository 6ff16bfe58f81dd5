\* An order of four micro-shares in one or two trades, at a price that leaves half micro-USD.
CONSTANTS
  k1 = k1  k2 = k2
  None = None
  TradeIds = {k1, k2}
  Size = 4
  Limit = 3
  TradePrices = {2, 3}
  Scale = 2
SPECIFICATION EvidenceFairSpec
INVARIANT EvidenceIsTrue
PROPERTIES DecidedFatesAreFound
CHECK_DEADLOCK FALSE
