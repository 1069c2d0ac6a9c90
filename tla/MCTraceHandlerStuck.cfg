SPECIFICATION Spec
CONSTANTS
  Callers = {c1, c2}
  Calls = {"connect", "reset", "stream"}
  MaxConv = 3
  MaxTef = 3
  MaxEmit = 3
  MaxIn = 1
  FREE = FREE
  SwallowCancel = FALSE
  MayFail = FALSE
  EarlyReset = FALSE
SYMMETRY Sym
INVARIANTS
  LoopNeverBlocks
