SPECIFICATION MCSpec
CONSTANTS
  Letters = {1, 2}
  MaxData = 4
  MaxPattern = 3
  BufferSize = 2
  MaxWritten = 3
  MaxStored = 3
  ChunkSize = 2
CHECK_DEADLOCK FALSE
INVARIANTS
  BytesInOrder
  ShortOnlyAtEnd
  UntilStopsAtFirst
  SizeIsStored
  CopyStored
  BodyWhole
PROPERTIES
  CallsEnd
