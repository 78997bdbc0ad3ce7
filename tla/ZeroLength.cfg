CONSTANTS
  Bytes <- CustomBytes
  ParserTable <- CustomTable
  BufferRequests <- CustomBuffers
  MessageLengths <- CustomLengths
  BadCrcCallback = TRUE
SPECIFICATION Spec
INVARIANTS
  ZeroLengthFrameEnds
