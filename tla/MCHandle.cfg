SPECIFICATION ObjectsSpec
CONSTANTS
  None = None
  Threads = {t1}
  Environments <- Plain
  Nodes <- AllNode
  Profiles = {"HEVCMain10"}
  Asked = {{}}
  Formats = {"NV12"}
  Limit <- Few
  MaxPictures = 2
  MaxTogether = 3
  MaxHandles = 2
INVARIANTS
  HandlePixels
CHECK_DEADLOCK FALSE
