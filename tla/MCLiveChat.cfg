\* A listed visitor and a new one.
SPECIFICATION Spec
CONSTANTS
  Users = {u1, u2}
  Everyone = Everyone
  Listed = {u1}
  Npp = 2
  MaxSessions = 2
  MaxRaws = 2
  MaxRequests = 2
  Stored <- MCStored
  MaxStored <- MCMaxStored
  MaxEvents = 3
  MaxAtOnce = 2
CONSTRAINTS
  FewEvents
  FewAtOnce
INVARIANTS
  OnlineListed
  ToOpenVisitor
  UnreadMarked
  PagesInOrder
