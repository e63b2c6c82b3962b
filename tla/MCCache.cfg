\* One bucket: four keys, three entries at most, values with and without a time limit.
SPECIFICATION Spec
CONSTANTS
  Key = {k1, k2, k3, k4}
  Entry = {e1, e2, e3, e4}
  NULL = NULL
  MaxVal = 1
  CHAINLEN = 2
  Timeouts = {0, 1}
  MaxTime = 2
SYMMETRY Symmetries
INVARIANTS
  ChainWellFormed
PROPERTY
  ImplementsCacheSpec
