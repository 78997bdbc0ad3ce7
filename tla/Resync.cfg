CONSTANTS
  Bytes <- LineBytes
  ParserTable <- LineTable
  BufferRequests <- CustomBuffers
  MessageLengths <- CustomLengths
  BadCrcCallback = FALSE
SPECIFICATION FairSpec
INVARIANTS
  Inv
PROPERTIES
  Resynchronises
  FramesCustom
  FramesNmea
