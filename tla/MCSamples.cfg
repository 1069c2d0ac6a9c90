SPECIFICATION Spec
CONSTANTS
  Models = {"quantized", "sine2", "magic_wand"}
  \* fewer CPUs than the board's 5, so that two of the workers share one
  ModelThreads = 3
  NumCpus = 3
  InputShape = 4
  Stride = 2
  MaxSamples = 7
  PayloadSize = 2
  InputFrames = 2
  RingSize = 1
  Values = {"AA", "BB", "NL"}
  MaxFrames = 3
  MaxLost = 2
  BufferSize = 3
  FirstArena = 2
  Iterations = 2
  Interrupts = 1
  Loads = 2
INVARIANTS
  SamplesTypeOK
  KernelsComputeTheLayer
  InputStable
  WindowIsLatest
  ArenasDisjoint
  OnlyFedModelsRun
  SwitchRestored
PROPERTIES
  EveryThreadTurns
  InferencesGoOn
  LinkImplementsPipe
  Stream0InOrder
\* The programs end, or wait for the next sample or frame, which are bounded.
CHECK_DEADLOCK FALSE
