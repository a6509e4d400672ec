SPECIFICATION FairSpec
CONSTANTS
  c1 = c1
  c2 = c2
  c3 = c3
  d1 = d1
  d2 = d2
  e1 = e1
  e2 = e2
  f1 = f1
  Enumerated = TRUE
  Packets = {c1, c3, d2, e1, e2, f1}
  Src <- MCSrc
  Dest <- MCDest
  NeedsResponse <- MCNeedsResponse
  ArrivalBus <- MCArrivalBus
  Addresses <- MCAddresses
  Window <- MCWindow
  SecondaryBus <- MCSecondaryBus
  SubordinateBus <- MCSubordinateBus
  IsValid <- MCIsValid
  PciBus = 0
  ReqLimit = 2
  RespLimit = 1
  Replays = {1, 2, 3}
  None = None
INVARIANTS
  TypeOK
  CreditsConserved
  ResponsesReturnHome
  RoomForResponses
  NoLostRetry
  OneWakeUp
PROPERTIES
  EveryRequestCompletes
