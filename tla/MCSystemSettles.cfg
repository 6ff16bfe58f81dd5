\* One submission and its recovery, with room for several interrupted commands.
CONSTANTS
  i1 = i1
  o1 = o1
  t1 = t1
  s1 = s1
  None = None
  Intents = {i1}
  Orders = {o1}
  Tokens = {t1}
  Seeds = {s1}
  Micros = {1}
  MaxSequence = 12
SPECIFICATION FairSystemSpec
PROPERTIES EveryIntentSettles
CHECK_DEADLOCK FALSE
