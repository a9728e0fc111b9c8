SPECIFICATION PartsSpec
CONSTANTS
  None = None
  Word = 65536
  Short = 256
  Widths = {1, 64, 129, 257}
  Heights = {1, 33}
  Grants <- SomeGrants
  Lengths = {12288, 49152}
  Offsets = {0, 64}
  Invalid = Invalid
  Slots = {r1, r2}
  Surfaces = {s1, s2, s3}
  Sizes = {1, 2}
  MaxFrames = 4
  WordBits = 16
  Values = {0, 1, 2, 3, 7, 8, 127, 128, 255, 256, 16384, 32767, 65534, 65535}
  NalBytes = {0, 1, 2, 3, 4}
  MaxBytes = 4
  MaxItems = 2
  RefSlots = 3
  Radix = 4
  FrameSizes = {2, 3, 4, 6, 15, 16, 63, 64, 255}
  MaxVp9Frames = 2
  Mbs = {1, 11, 45, 120, 135}
  Visible = {0, 1, 175, 720, 1080, 1920}
  RefFrames = {0, 1, 4, 16}
  MaxBuffers = 2
  Lsb = 4
  MaxDelta = 5
  Pocs = {3, 5, 9, 10, 13}
  Current = 9
  MaxReferences = 3
  Side = 3
  Matrices <- SomeMatrices
  Streams <- Several
  PlainStream <- Simple
  Paths <- ThreePaths
  NodeAt <- ThreeNodes
  MaxBuffersOf = 2
INVARIANTS
  StableBufferFits
  CpuCopyInside
  ImportHoldsPicture
  ImageHolds
  RightReferences
  HintsAgree
  SequenceKnown
  BitsReadBack
  Vp9ShowsOne
  H264Agrees
  HevcSliceDecodes
  HevcAdmits
  DeviceAnswers
SYMMETRY Alike
CHECK_DEADLOCK FALSE
