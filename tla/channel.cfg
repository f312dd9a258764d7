SPECIFICATION FairSpec
CONSTANTS
  Counts <- Sizes
  CreateChannelPerBatch = 3
  SubscriberOnlines <- Subscribers
  Online = 2
  MaxSent = 1
INVARIANTS TypeOK SentOnlyToCreated StopBreaksRound
PROPERTIES AllCreated SendLoopEnds
CHECK_DEADLOCK FALSE
