SPECIFICATION FairWsSpec
CONSTANTS
  Clients = {c1}
  Capacity = 1
  WriteFails = TRUE
  Requests = {"reply", "subscribe", "listen"}
  NoClient = NoClient
INVARIANTS PoolNeverPanics OpenIsUsable RegisteredCanLeave SendersAreServed
PROPERTIES ClientEnds 
CHECK_DEADLOCK FALSE
