\* Two plugins, a queue that fills up and every fault.
SPECIFICATION Spec
CONSTANTS
  Plugins = {p1, p2}
  NoPlugin = NoPlugin
  MaxReq = 3
  MAX_QUEUE_ENTRY = 0
  BUSY_STEP = 2
  QUEUE_CAP = 2
  Faults = {"malloc", "send", "timedwait", "sigterm", "sigusr2"}
  Slow = {}
CONSTRAINT FewAstray
SYMMETRY PluginSymmetry
INVARIANTS
  TypeOK
  MutualExclusion
  OneReply
  ExitedDrained
  QueueBounded
  NoLostWakeup
  ServiceOrder
CHECK_DEADLOCK FALSE
