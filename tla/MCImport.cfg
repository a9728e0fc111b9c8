SPECIFICATION Spec
CONSTANTS
  t1 = t1  t2 = t2  g1 = g1  g2 = g2  c1 = c1  c2 = c2  c3 = c3
  None = None  Scratch = Scratch
  Targets <- TwoTargets
  CapSlots <- Slots2
  Geoms = {g1}
  SurfGeom <- OneGeom
  LayoutSize <- SameLayout
  NOut = 2
  MaxToken = 3
  MaxFaults = 1
  Policies = {"Import"}
  ImportAllowed = TRUE
  Modes = {"DecodeOrder"}
  SyncExpiry = {"DecodeOrder", "DisplayOrder"}
  Ops = {"wait", "release"}
INVARIANTS
  ImportWindow
  Lockstep
  NoHoles
  InSubmissionOrder
  PublishedPixels
SYMMETRY Interchangeable
