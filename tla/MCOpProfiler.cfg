SPECIFICATION Spec
CONSTANTS
  Ops = {1, 2}
  IdxSize = 2
  MaxEvents = 2
  MaxDepth = 2
  MaxRuns = 4
INVARIANTS
  TypeOK
  EventsAreTrue
  NoEventTwice
  StreamInOrder
  InferenceIsComplete
