\* The bot and the recovery CLI take turns at a ledger; five appends reach the file, enough
\* for Prepare, Acknowledge, Cleanup, the next Prepare and one more event.
CONSTANTS
  bot = bot  cli = cli
  None = None
  Processes = {bot, cli}
  MaxAttempts = 5
SPECIFICATION Spec
INVARIANTS CommittedIsDurable OneInDoubt
PROPERTIES RestartIsExact ImplementsDurableLog
