SPECIFICATION DebuggedSpec
CONSTANTS
  Profilers <- CpuOnly
  Setters = {"shell"}
  Threadings <- CpuThreaded
  Rechecks <- Nothing
  Stages <- StageCounts
  NOBODY = NOBODY
PROPERTIES
  EnabledIsSampled
