CONSTANTS
  Bytes <- SyncBytes
  MaxLengths <- Buffers
  MessageLengths <- Lengths
  ArrayLengths <- Arrays
  CoverBound <- Cover
SPECIFICATION Spec
INVARIANTS
  FrameHasPreamble
