SPECIFICATION Spec
CONSTANTS
  N = 2
  Local <- MCLocal
  By <- MCBy
  Pri <- MCPri
  InitWhen <- MCInitWhen
  Quantum = 2
  Limits <- MCLimitsMeet
  Exits = {"exit1", "exit2"}
  MaxDelay = 1
  MaxOps = 2
INVARIANTS
  SameBarrier
