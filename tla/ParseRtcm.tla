------------------------------- MODULE ParseRtcm -------------------------------
(***************************************************************************)
(* RTCM3 frames, Parse_RTCM.c: D3, a 10-bit length, a message whose first  *)
(* 12 bits are its number, a CRC-24Q.                                      *)
(***************************************************************************)
EXTENDS SempScan

sempRtcmReadLength1(data) ==
  /\ Called("sempRtcmReadLength1")
  /\ \/ data \notin 0 .. 3 /\ Restart(data)
     \/ /\ data \in 0 .. 3
        /\ Continue("sempRtcmReadLength2", Crc)
        /\ scratchPad' = [scratchPad EXCEPT !.bytesRemaining = 256 * data]
        /\ UNCHANGED <<declared, agree>>

sempRtcmReadLength2(data) ==
  /\ Called("sempRtcmReadLength2")
  /\ Continue("sempRtcmReadMessage1", Crc)
  /\ declared' = scratchPad.bytesRemaining + data
  /\ scratchPad' = [scratchPad EXCEPT !.bytesRemaining = declared']
  /\ UNCHANGED agree

\* One byte of the message, counted, and on to the next routine.
CountMessageByte(routine) ==
  /\ Continue(routine, Crc)
  /\ scratchPad' = [scratchPad EXCEPT !.bytesRemaining = Decrement(@, UINT16)]
  /\ UNCHANGED <<declared, agree>>

sempRtcmReadMessage1 ==
  Called("sempRtcmReadMessage1") /\ CountMessageByte("sempRtcmReadMessage2")

\* Mutant: the second byte of the message number is not counted.
sempRtcmReadMessage2Uncounted ==
  /\ Called("sempRtcmReadMessage2")
  /\ Continue("sempRtcmReadData", Crc)
  /\ UNCHANGED fields

sempRtcmReadMessage2 ==
  Called("sempRtcmReadMessage2") /\ CountMessageByte("sempRtcmReadData")

\* bytesRemaining is unsigned: the test `<= 0' is a test for zero.
sempRtcmReadData ==
  /\ Called("sempRtcmReadData")
  /\ UNCHANGED <<declared, agree>>
  /\ LET left == Decrement(scratchPad.bytesRemaining, UINT16) IN
     \/ /\ left # 0
        /\ Continue("sempRtcmReadData", Crc)
        /\ scratchPad' = [scratchPad EXCEPT !.bytesRemaining = left]
     \/ /\ left = 0
        /\ Continue("sempRtcmReadCrc", Crc)
        /\ scratchPad' = [scratchPad EXCEPT !.bytesRemaining = 3]

sempRtcmReadCrc(match, overruled) ==
  /\ Called("sempRtcmReadCrc")
  /\ agree' = Agreed(match)
  /\ UNCHANGED declared
  /\ LET left == Decrement(scratchPad.bytesRemaining, UINT16) IN
     /\ scratchPad' = [scratchPad EXCEPT !.bytesRemaining = left]
     /\ \/ left # 0 /\ Continue("sempRtcmReadCrc", Crc)
        \/ /\ left = 0
           /\ Finish(msg_length + 1, Crc,
                     Verdict("RTCM", 3, Result(agree' = 3, overruled), msg_length + 1, Crc))

RtcmHandler ==
  \/ \E data \in Bytes : sempRtcmReadLength1(data) \/ sempRtcmReadLength2(data)
  \/ sempRtcmReadMessage1
  \/ sempRtcmReadMessage2
  \/ sempRtcmReadData
  \/ \E match, overruled \in BOOLEAN : sempRtcmReadCrc(match, overruled)

=============================================================================
