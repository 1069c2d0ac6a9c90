SPECIFICATION Spec
CONSTANTS
  MaxItems = 4
  MaxRead = 4
  Tag <- TagBytes
  Packets <- SomePackets
  Noise <- SomeNoise
  Corrupt <- SomeCorrupt
\* The board may stop sending.
CHECK_DEADLOCK FALSE
INVARIANTS
  ResyncsAtTag
