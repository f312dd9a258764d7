CONSTANTS
  Handlers = {h1, h2}
  NChan = 1
  Configs <- AllConfigs
  MaxStarts = 1
  MaxCrashes = 1
  Serial = FALSE
  Free = Free
SPECIFICATION FairSpec
PROPERTIES EveryRequestAnswered StopReachesAll
