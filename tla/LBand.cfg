SPECIFICATION FairSpec
CONSTANTS
  BufferLengths <- LBandBuffers
  SbfBytes <- LBandBytes
  Headers <- LBandHeaders
INVARIANTS TypeOK SbfCheckCoversBlock SpartnCheckIsLast
PROPERTIES FramesSbf FramesSpartn NoByteLost LBandResynchronises
