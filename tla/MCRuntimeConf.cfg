SPECIFICATION FairSpec
CONSTANTS
  Profilers <- Both
  Setters = {"shell", "app"}
  Threadings <- BothBuilds
  Rechecks <- MemRechecks
  Stages <- StageCounts
  NOBODY = NOBODY
INVARIANTS
  TypeOK
  NoLostWakeup
  StopsAfterDisable
PROPERTIES
  EnabledIsSampled
  DisabledThreadStops
