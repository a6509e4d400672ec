SPECIFICATION FairSpec
CONSTANTS
  Half = 16
  MemBase = 64
  Sizes = {32}
  LowerValues = {15}
  UpperValues = {0, 15}
  Ids = {1, 2}
  Operations <- MCOperations
  Values = {0, 1}
  Latency = 1
  Delays = {0, 1}
  MaxRestarts = 1
INVARIANTS
  TypeOK
  RestoreIsFaithful
  SizingWorks
  FirstResponseIsSent
PROPERTIES
  ImplementsMemory
  EveryRequestAnswered
