CONSTANTS
  Bytes <- StressBytes
  ParserTable <- HashTable
  BufferRequests <- SmallestBuffer
  MessageLengths <- StressLengths
  BadCrcCallback = FALSE
SPECIFICATION Spec
INVARIANTS
  HashSentenceInBuffer
