\* One of two plugins may hang, messages come for ever and two can wait.
SPECIFICATION FairSpec
CONSTANTS
  Plugins = {p1, p2}
  NoPlugin = NoPlugin
  MaxReq = 2
  MAX_QUEUE_ENTRY = 0
  BUSY_STEP = 2
  QUEUE_CAP = 2
  Faults = {"malloc"}
  Slow = {p1}
PROPERTIES
  SyncAnswered
  EventuallyServed
