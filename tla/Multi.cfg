CONSTANTS
  Bytes <- MultiStream
  BufferLengths <- MultiBufferSizes
  MessageLengths <- MultiMessages
SPECIFICATION FairSpec
INVARIANTS
  Inv
  TypeOK
  TypeNamesProtocol
  CheckCoversFrame
PROPERTIES
  Resynchronises
  FramesSemp
  FramesUblox
  FramesNmea
