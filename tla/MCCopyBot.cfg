\* Two runs of the bot, three logs, a channel that holds one of them and a frame on the wire.
CONSTANTS
  Runs = {r1, r2}
  None = None
  Capacity = 1
  MaxBackoff = 2
  MaxLogs = 3
  MaxWire = 1
SPECIFICATION FairCopySpec
INVARIANTS OneOrder LogsAreKept
PROPERTIES NothingBeginsInDoubt StopsWhenAsked ReaderGoesOn
