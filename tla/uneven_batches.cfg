SPECIFICATION Spec
CONSTANTS
  Counts <- Uneven
  CreateChannelPerBatch = 3
  SubscriberOnlines <- Subscribers
  Online = 2
  MaxSent = 0
INVARIANT AsksForItsChannels
CHECK_DEADLOCK FALSE
