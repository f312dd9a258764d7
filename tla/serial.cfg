CONSTANTS
  Handlers = {h1}
  NChan = 1
  Configs <- SomeConfigs
  MaxStarts = 3
  MaxCrashes = 2
  Serial = TRUE
  Free = Free
SPECIFICATION Spec
INVARIANTS TypeOK AllOrNothing FreshBatch LiveLoopFindsOnline
PROPERTY ImplementsTestControl
