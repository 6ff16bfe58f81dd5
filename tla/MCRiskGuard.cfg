\* Two tokens; a window, a cooldown and a threshold that are longer than one step.
SPECIFICATION GuardSpec
CONSTANTS
  Tokens = {t1, t2}
  Window = 3
  Trigger = 3
  TripDuration = 2
INVARIANTS NoBurst FastHonoursCooldown
