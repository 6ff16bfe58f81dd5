\* Three intents: two entries and an exit, or an entry, a failed exit and another exit.
CONSTANTS
  i1 = i1  i2 = i2  i3 = i3
  o1 = o1  o2 = o2  o3 = o3
  t1 = t1  t2 = t2
  s1 = s1
  None = None
  Intents = {i1, i2, i3}
  Orders = {o1, o2, o3}
  Tokens = {t1, t2}
  Seeds = {s1}
  Micros = {0, 1, 2}
  MaxSequence = 14
SPECIFICATION Spec
SYMMETRY Identifiers
INVARIANTS OneEffectPerIntentInv EffectRememberedInv OutcomeRespectedInv FillStaysBookableInv
PROPERTIES SettledIsFinal SettlesWithItsFate ImplementsSingleFlight
CHECK_DEADLOCK FALSE
