\* A client that waits for each answer, and one that sends on without waiting;
\* messages of 3 bytes are too short for parse_message.
SPECIFICATION FairSpec
CONSTANTS
  HDR = 2
  MINMSG = 3
  PARSEMIN = 4
  MAXMSG = 5
  SBSIZE = 7
  Sizes = {3, 4, 5}
  MaxMsgs = 3
  Windows = {1, 3}
  Faults = {"close", "malloc"}
  NULL = NULL
INVARIANTS
  PatientInOrder
  RoomForTheRest
PROPERTIES
  GoodClientKept
  EveryMessageParsed
CHECK_DEADLOCK FALSE
