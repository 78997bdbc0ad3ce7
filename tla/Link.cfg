CONSTANTS
  Bytes <- LineBytes
  BufferLengths <- LineBuffer
  MessageLengths <- LineLengths
  BlockLengths <- LineBlocks
  Frames <- LineFrames
  Contents <- LineContents
  Noise <- LineNoise
  MaxFaults <- LineFaults
SPECIFICATION FairLink
INVARIANTS
  UndisturbedFrameDelivered
  ParserFollows
PROPERTIES
  StaysInStep
  ReturnsBetweenFrames
  Recovers
