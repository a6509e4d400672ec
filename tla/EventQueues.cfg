SPECIFICATION FairSpec
CONSTANTS
  N = 2
  Local <- MCLocal
  By <- MCBy
  Pri <- MCPri
  InitWhen <- MCInitWhen
  Quantum = 2
  Limits <- MCLimits
  Exits = {"exit1", "exit2"}
  MaxDelay = 1
  MaxOps = 2
INVARIANTS
  TypeOK
  ScheduledIsQueued
  NoEventInThePast
  SameBarrier
  QuantumEventIsFound
PROPERTIES
  ImplementsOrder
  SimulateReturns
