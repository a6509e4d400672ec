SPECIFICATION Spec
CONSTANTS
  MaxQueueSize = 2
  Delayed = FALSE
  MaxInFlight = 1
  MaxTLP <- MCMaxTLP
  Masters <- MCMasters
  DownTLPs = 2
  UpTLPs = 1
  DownPorts = {FALSE}
  UpPorts = {TRUE}
  RefuseFirst = FALSE
  SeqSpace = 32
  IntLimit = 8
INVARIANTS
  NoDanglingPacket
CHECK_DEADLOCK FALSE
