SPECIFICATION FileSpec
CONSTANTS
  Bytes = {80, 90}
  MaxChunk = 3
  MaxLen = 9
  Tag <- BytesOfTag
\* A closed capture is over.
CHECK_DEADLOCK FALSE
INVARIANTS
  SplitTagsFound
