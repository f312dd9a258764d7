SPECIFICATION FairSpec
CONSTANTS Online = 2
 OnlinePerBatch = 2
 Capacities = {2}
 MaxLoss = 2
PROPERTY StopDisconnects
CHECK_DEADLOCK FALSE
