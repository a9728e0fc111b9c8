SPECIFICATION VaSpec
CONSTANTS
  None = None
  Threads = {t1}
  s1 = s1  s2 = s2
  Surfaces = {s1, s2}
  Exported = {s1}
  Contexts = {c1}
  Deferring = {}
INVARIANT SyncIsHonest
CHECK_DEADLOCK FALSE
