SPECIFICATION Spec
CONSTANTS
  t1 = t1  t2 = t2  g1 = g1  g2 = g2  c1 = c1  c2 = c2  c3 = c3
  None = None  Scratch = Scratch
  Targets <- TwoTargets
  CapSlots <- Slots2
  Geoms = {g1, g2}
  SurfGeom <- TwoGeoms
  LayoutSize <- LargerLayout
  NOut = 2
  MaxToken = 2
  MaxFaults = 0
  Policies = {"Direct"}
  ImportAllowed = FALSE
  Modes = {"DecodeOrder"}
  SyncExpiry = {}
  Ops = {"wait", "finish"}
INVARIANTS
  FinishedIsClean
SYMMETRY InterchangeableSlots
