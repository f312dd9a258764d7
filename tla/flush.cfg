SPECIFICATION FairSpec
CONSTANTS
  Users = {u1, u2}
  Limit = 2
  MaxMsg = 2
  MaxCalls = 2
  MaxConn = 2
  MaxFaults = 1
INVARIANTS TypeOK FlushMeansDelivered InOrderAndOnce
PROPERTY QueuedIsSent
CHECK_DEADLOCK FALSE
