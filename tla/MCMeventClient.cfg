\* A datagram server and a stream server, and a counter that starts again.
SPECIFICATION FairSpec
CONSTANTS
  Dgram = {u}
  Stream = {t}
  NoServer = NoServer
  MAXID = 3
  MaxCalls = 4
  MaxDup = 1
  Faults = {"send", "loss", "timeout"}
INVARIANTS
  TypeOK
  OwnReplyBeforeWrap
  ReplyKept
PROPERTY
  CallReturns
CHECK_DEADLOCK FALSE
