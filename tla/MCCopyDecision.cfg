\* Ten logs, two markets and four configurations: see MCCopyDecision.
SPECIFICATION Spec
CONSTANTS
  whale = whale
  other = other
  yes = yes
  no = no
  far = far
  Cash = cash
  None = None
  Logs <- MCLogs
  Whale = whale
  Metadata <- MCMetadata
  Lower <- MCLower
  Filters <- MCFilters
  CategoryCap <- MCCategoryCap
  TagCap <- MCTagCap
  Configs <- MCConfigs
  Tick = 10
  Buffer = 5
INVARIANTS CapsHold BuysNothingItHolds
