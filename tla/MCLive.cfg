SPECIFICATION FairSpec
CONSTANTS
  t1 = t1  t2 = t2  g1 = g1  g2 = g2  c1 = c1  c2 = c2  c3 = c3
  None = None  Scratch = Scratch
  Targets <- TwoTargets
  CapSlots <- OneSlot
  Geoms = {g1, g2}
  SurfGeom <- TwoGeoms
  LayoutSize <- LargerLayout
  NOut = 1
  MaxToken = 2
  MaxFaults = 0
  Policies = {"Import"}
  ImportAllowed = TRUE
  Modes = {"DecodeOrder", "DisplayOrder"}
  SyncExpiry = {"DisplayOrder"}
  Ops = {"wait", "finish"}
INVARIANTS
  DrainFlushes
PROPERTIES
  CallReturns
  SyncAnswered
