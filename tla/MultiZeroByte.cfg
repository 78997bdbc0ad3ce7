CONSTANTS
  Bytes <- MultiStream
  BufferLengths <- MultiBufferSizes
  MessageLengths <- MultiMessages
SPECIFICATION Spec
INVARIANTS
  ZeroByteInBuffer
