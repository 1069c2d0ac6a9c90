SPECIFICATION Spec
CONSTANTS
  Callers = {c1}
  Calls = {"connect", "cleanup", "reset"}
  MaxConv = 1
  MaxTef = 2
  MaxEmit = 2
  MaxIn = 1
  FREE = FREE
  SwallowCancel = TRUE
  MayFail = TRUE
  EarlyReset = TRUE
\* A reset whose converter swallowed the cancellation never returns.
CHECK_DEADLOCK FALSE
INVARIANTS
  LockHeldBySender
  QueueHasEmitter
  LoopNeverBlocks
