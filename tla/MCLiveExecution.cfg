\* Two tokens, three orders: an entry, its exit and the next entry, or two that compete for the lock.
CONSTANTS
  i1 = i1  i2 = i2  i3 = i3
  o1 = o1  o2 = o2  o3 = o3
  t1 = t1  t2 = t2
  s1 = s1
  None = None
  Intents = {i1, i2, i3}
  Orders = {o1, o2, o3}
  Tokens = {t1, t2}
  Seeds = {s1}
  Micros = {1}
  MaxSequence = 12
SPECIFICATION FairLiveSpec
INVARIANTS JournaledBeforePost BookMatchesExchange
PROPERTIES NoPostAfterHalt ImplementsOrderAccount SubmissionEnds
CHECK_DEADLOCK FALSE
