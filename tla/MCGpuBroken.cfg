SPECIFICATION GpuSpec
CONSTANTS
  None = None
  Callers = {a, b}
  Frames = {f1}
  Stables = {s1}
INVARIANT NoBrokenPromise
CHECK_DEADLOCK FALSE
