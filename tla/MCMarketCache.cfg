\* One caller, as in the program, and two markets.
SPECIFICATION CacheSpec
CONSTANTS
  Callers = {c1}
  yes = yes
  no = no
  other = other
  s1 = s1
  s2 = s2
  Slugs = {s1, s2}
  OutcomeTokens = {yes, no, other}
  SlugOf <- MCSlugOf
  Ttl = 3
  MaxLatency = 2
  None = None
INVARIANT StalenessIsBounded
