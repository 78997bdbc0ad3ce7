CONSTANTS
  Bytes <- SyncBytes
  MaxLengths <- Buffers
  MessageLengths <- Lengths
  ArrayLengths <- Arrays
  CoverBound <- Cover
SPECIFICATION FairSpec
INVARIANTS
  Inv
  TypeOK
  FittingFrameIsWhole
PROPERTIES
  Resynchronises
  ImplementsFramer
