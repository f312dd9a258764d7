SPECIFICATION FairSpec
CONSTANTS AutoReconn = FALSE
 MaxPingCount = 1
 MaxConn = 2
 NPing = 1
 NRec = 0
 MaxClose = 0
 MaxFaults = 1
PROPERTY DeadPeerNoticed
CHECK_DEADLOCK FALSE
