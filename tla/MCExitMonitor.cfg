\* Two tokens, four configurations of the monitor, and midpoints that are never found.
CONSTANTS
  t1 = t1
  t2 = t2
  None = None
  Tokens <- MCTokens
  Category <- MCCategory
  Lower <- MCLower
  Configs <- MCOff
  Prices = {500}
  Mids <- MCMids
SPECIFICATION MonitorFairSpec
INVARIANTS ExitsWhatIsOpen FillsAreBooked
PROPERTIES DuePositionsGetTheirTurn
