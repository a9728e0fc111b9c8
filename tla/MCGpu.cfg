SPECIFICATION GpuSpec
CONSTANTS
  None = None
  Callers = {a, b, c}
  Frames = {f1, f2}
  Stables = {s1}
INVARIANTS
  ReferencesAlive
PROPERTIES
  ForgetForgets
  RunReturns
  Terminates
CHECK_DEADLOCK FALSE
