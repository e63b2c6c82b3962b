\* Two messages in one recv().
SPECIFICATION Spec
CONSTANTS
  HDR = 2
  MINMSG = 3
  PARSEMIN = 3
  MAXMSG = 4
  SBSIZE = 7
  Sizes = {3, 4}
  MaxMsgs = 3
  Windows = {2}
  Faults = {}
  NULL = NULL
INVARIANT
  ParsedInOrder
CHECK_DEADLOCK FALSE
