SPECIFICATION Spec
CONSTANTS
  Callers = {c1}
  Calls = {"connect", "cleanup", "reset", "leave", "collect", "stream"}
  MaxConv = 2
  MaxTef = 2
  MaxEmit = 2
  MaxIn = 1
  FREE = FREE
  SwallowCancel = FALSE
  MayFail = FALSE
  EarlyReset = FALSE
INVARIANTS
  TypeOK
  NoStrayTask
  NoTaskDies
  CleanShutdown
  ConsumerFed
  ListeningIfConnected
PROPERTIES
  DisconnectTearsDown
