SPECIFICATION Spec
CONSTANTS
  MaxQueueSize = 2
  Delayed = FALSE
  MaxInFlight = 1
  MaxTLP <- MCMaxTLP
  Masters <- MCMasters
  DownTLPs = 2
  UpTLPs = 1
  DownPorts = {FALSE}
  UpPorts = {TRUE}
  RefuseFirst = TRUE
  SeqSpace = 32
  IntLimit = 8
INVARIANTS
  NoLoss
CHECK_DEADLOCK FALSE
