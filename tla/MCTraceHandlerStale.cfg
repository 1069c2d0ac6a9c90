SPECIFICATION Spec
CONSTANTS
  Callers = {c1}
  Calls = {"connect", "reset"}
  MaxConv = 2
  MaxTef = 2
  MaxEmit = 2
  MaxIn = 1
  FREE = FREE
  SwallowCancel = FALSE
  MayFail = FALSE
  EarlyReset = FALSE
INVARIANTS
  NoStaleEvents
