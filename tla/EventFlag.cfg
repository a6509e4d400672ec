SPECIFICATION Spec
CONSTANTS
  N = 2
  Local <- MCCrossing
  By <- MCCrossingBy
  Pri <- MCCrossingPri
  InitWhen <- MCCrossingWhen
  Quantum = 2
  Limits <- MCOneLimit
  Exits = {}
  MaxDelay = 1
  MaxOps = 2
INVARIANTS
  ScheduledIsQueued
