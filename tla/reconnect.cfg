SPECIFICATION FairSpec
CONSTANTS AutoReconn = TRUE
 MaxPingCount = 1
 MaxConn = 3
 NPing = 1
 NRec = 2
 MaxClose = 1
 MaxFaults = 1
INVARIANTS TypeOK ConnectedIsUsable NoOldWatcherAtRedial OneRedialler
PROPERTIES CloseIsFinal Reconnects ClosedEnds
CHECK_DEADLOCK FALSE
