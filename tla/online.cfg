SPECIFICATION FairSpec
CONSTANTS Online = 3
 OnlinePerBatch = 2
 Capacities = {3, 4}
 MaxLoss = 2
INVARIANTS TypeOK OneClientPerUser NoneLost
PROPERTIES AllOnline WaitersGoOn
CHECK_DEADLOCK FALSE
