\* One token: an entry that halts, its recovery, and the next entry or the exit.
CONSTANTS
  i1 = i1  i2 = i2
  o1 = o1  o2 = o2
  t1 = t1
  s1 = s1
  None = None
  Intents = {i1, i2}
  Orders = {o1, o2}
  Tokens = {t1}
  Seeds = {s1}
  Micros = {1}
  MaxSequence = 16
SPECIFICATION SystemSpec
SYMMETRY Identifiers
INVARIANTS SettledOrdersAgree HoldsAtMostOne
PROPERTIES MarkerOutlivesIntent ConfirmedAsShown RestartFindsFates SystemImplementsOrderAccount
CHECK_DEADLOCK FALSE
