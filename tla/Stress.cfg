CONSTANTS
  Bytes <- StressBytes
  ParserTable <- StressTable
  BufferRequests <- SmallestBuffer
  MessageLengths <- StressLengths
  BadCrcCallback = TRUE
SPECIFICATION Spec
INVARIANTS
  Inv
  TypeOK
  TypeNamesParser
  FrameInBuffer
  ScratchPadWritten
  CheckCoversFrame
PROPERTIES
  FrameAdvances
  FramesRtcm
  FramesUblox
  FramesUnicoreBinary
  FramesUnicoreHash
