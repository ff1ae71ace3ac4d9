CONSTANTS
  Chunkings <- SmallChunkings
  MaxChunk = 8
  MaxBody = 19
  MaxTrailers = 1
  WindowBytes = 3
  Continuations = {"x", "y"}
  LengthOf <- SmallLengths
  CheckedBytes = 2
  SampleBytes = 2
  Channels = 2
  Blocks = {2, 4}
  Texts <- SmallTexts
SPECIFICATION Spec
INVARIANTS
  TypeOK
  HearsWholeBody
  BoundsHold
  PiecesAddUp
CHECK_DEADLOCK FALSE
