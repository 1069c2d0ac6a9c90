SPECIFICATION ReaderSpec
CONSTANTS
  Tag <- TagBytes
  MaxItems = 4
  MaxRead = 5
  Packets <- SomePackets
  Noise <- SomeNoise
  Corrupt <- SomeCorrupt
  Bytes = {80, 90}
  MaxChunk = 3
  MaxLen = 9
\* The board may stop sending, and a closed capture is over.
CHECK_DEADLOCK FALSE
INVARIANTS
  TypeOK
  FramedRight
  OnlyRealPackets
  FileTypeOK
  BootsSeparated
  EveryByteOnce
  ErrorIffNoTag
