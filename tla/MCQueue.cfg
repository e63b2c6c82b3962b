SPECIFICATION QueueSystem
CONSTANTS
  NULL = NULL
  Entry = {e1, e2, e3, e4}
INVARIANTS
  LineIsChain
PROPERTY
  ImplementsQueueSpec
