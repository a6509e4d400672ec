SPECIFICATION Spec
CONSTANTS
  MaxQueueSize = 2
  Delayed = FALSE
  MaxInFlight = 1
  MaxTLP <- MCMaxTLP
  Masters <- MCMasters
  DownTLPs = 3
  UpTLPs = 2
  DownPorts = {FALSE, TRUE}
  UpPorts = {TRUE}
  RefuseFirst = FALSE
  SeqSpace = 32
  IntLimit = 8
INVARIANTS
  TypeOK
  InOrderDelivery
  NoLoss
  ReplayArmed
  NothingWaitsForIdleLink
  NoLostRetry
  BufferHasRoom
  AcksAreEarned
CHECK_DEADLOCK FALSE
