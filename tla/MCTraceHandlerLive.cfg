SPECIFICATION FairSpec
CONSTANTS
  Callers = {c1}
  Calls = {"connect", "cleanup", "reset"}
  MaxConv = 2
  MaxTef = 1
  MaxEmit = 1
  MaxIn = 1
  FREE = FREE
  SwallowCancel = FALSE
  MayFail = FALSE
  EarlyReset = FALSE
PROPERTIES
  OperationsEnd
  QueueDrains
