SPECIFICATION FairSpec
CONSTANTS
  Senders = {s1, s2}
  Limit = 2
  MaxMsg = 2
  MaxTicks = 2
INVARIANTS TypeOK WrittenOnce RecordsOfWaiting CountedOnce RatesNeverOver
PROPERTY AllCounted
CHECK_DEADLOCK FALSE
