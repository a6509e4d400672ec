SPECIFICATION FairSpec
CONSTANTS
  MaxQueueSize = 2
  Delayed = TRUE
  MaxInFlight = 1
  MaxTLP <- MCMaxTLP
  Masters <- MCMasters
  DownTLPs = 2
  UpTLPs = 1
  DownPorts = {FALSE}
  UpPorts = {TRUE}
  RefuseFirst = FALSE
  SeqSpace = 32
  IntLimit = 8
INVARIANTS
  NoLoss
PROPERTIES
  ImplementsChannels
  EventuallyDelivered
CHECK_DEADLOCK FALSE
