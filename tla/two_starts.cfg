CONSTANTS
  Handlers = {h1, h2}
  NChan = 1
  Configs <- ChannelOnly
  MaxStarts = 2
  MaxCrashes = 0
  Serial = FALSE
  Free = Free
SYMMETRY Symmetry
SPECIFICATION Spec
INVARIANT OneTestAtATime
