SPECIFICATION VaSpec
CONSTANTS
  None = None
  Threads = {t1, t2}
  s1 = s1  s2 = s2
  Surfaces = {s1, s2}
  Exported = {s1}
  Contexts = {c1, c2}
  Deferring = {c2}
INVARIANTS
  OnePending
  NoDangling
  SomebodyServes
  PersistentPixels
  WaitIsHonest
SYMMETRY Interchangeable
CHECK_DEADLOCK FALSE
