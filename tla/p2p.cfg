SPECIFICATION FairSpec
CONSTANTS
  Base = 2
  Heartbeats = {2, 3}
  Recv = 0
  Pong = 3
  NOnline = 2
  Counts = {2}
  Rounds = 1
  Partial = TRUE
  MaxMsg = 2
  MaxLoss = 1
INVARIANTS TypeOK PairsAsAsked FramesWhole RecvNeverOver
PROPERTY LossesSettle
