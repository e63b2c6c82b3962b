\* The shutdown ends.
SPECIFICATION FairSpec
CONSTANTS
  Plugins = {p1, p2}
  NoPlugin = NoPlugin
  MaxReq = 1
  MAX_QUEUE_ENTRY = 1
  BUSY_STEP = 2
  QUEUE_CAP = 2
  Faults = {"sigterm"}
  Slow = {}
PROPERTY
  ShutdownEnds
