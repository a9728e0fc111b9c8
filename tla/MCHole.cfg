SPECIFICATION Spec
CONSTANTS
  t1 = t1  t2 = t2  g1 = g1  g2 = g2  c1 = c1  c2 = c2  c3 = c3
  None = None  Scratch = Scratch
  Targets <- TwoTargets
  CapSlots <- Slots2
  Geoms = {g1, g2}
  SurfGeom <- TwoGeoms
  LayoutSize <- SameLayout
  NOut = 2
  MaxToken = 3
  MaxFaults = 0
  Policies = {"Import"}
  ImportAllowed = TRUE
  Modes = {"DecodeOrder"}
  SyncExpiry = {}
  Ops = {"wait", "release"}
INVARIANTS
  NoHoles
SYMMETRY InterchangeableSlots
