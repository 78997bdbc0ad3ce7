------------------------------ MODULE ParseCustom ------------------------------
(***************************************************************************)
(* The custom binary (BT) protocol of Parse_Custom.c: AA 44 18, the rest   *)
(* of a 20-byte header with a 16-bit message length, the data, a CRC-32.   *)
(***************************************************************************)
EXTENDS SempScan

\* Mutant: the size of the Unicore header.
SEMP_CUSTOM_HEADER_Unicore == 24

SEMP_CUSTOM_HEADER == 20   \* sizeof

sempCustomSync2(data) ==
  /\ Called("sempCustomSync2")
  /\ \/ data # 68 /\ Restart(data)
     \/ data = 68 /\ Continue("sempCustomSync3", Crc) /\ UNCHANGED fields

sempCustomSync3(data) ==
  /\ Called("sempCustomSync3")
  /\ \/ data # 24 /\ Restart(data)
     \/ data = 24 /\ Continue("sempCustomReadHeader", Crc) /\ UNCHANGED fields

\* The header bytes are arbitrary, so is the length they declare.  The
\* headerLength byte is not looked at.
sempCustomReadHeader ==
  /\ Called("sempCustomReadHeader")
  /\ UNCHANGED agree
  /\ \/ /\ msg_length + 1 < SEMP_CUSTOM_HEADER
        /\ Continue("sempCustomReadHeader", Crc)
        /\ UNCHANGED <<scratchPad, declared>>
     \/ /\ msg_length + 1 >= SEMP_CUSTOM_HEADER
        /\ Continue("sempCustomReadData", Crc)
        /\ declared' \in MessageLengths
        /\ scratchPad' = [scratchPad EXCEPT !.bytesRemaining = declared']

sempCustomReadData ==
  /\ Called("sempCustomReadData")
  /\ UNCHANGED <<declared, agree>>
  /\ LET left == Decrement(scratchPad.bytesRemaining, UINT16) IN
     \/ /\ left # 0
        /\ Continue("sempCustomReadData", Crc)
        /\ scratchPad' = [scratchPad EXCEPT !.bytesRemaining = left]
     \/ /\ left = 0
        /\ Continue("sempCustomReadCrc", Complement(Crc))
        /\ scratchPad' = [scratchPad EXCEPT !.bytesRemaining = 4]

sempCustomReadCrc(match, overruled) ==
  /\ Called("sempCustomReadCrc")
  /\ agree' = Agreed(match)
  /\ UNCHANGED declared
  /\ LET left == Decrement(scratchPad.bytesRemaining, UINT16) IN
     /\ scratchPad' = [scratchPad EXCEPT !.bytesRemaining = left]
     /\ \/ left # 0 /\ Continue("sempCustomReadCrc", Crc)
        \/ /\ left = 0
           /\ Finish(msg_length + 1, Crc,
                     Verdict("Custom", 4, Result(agree' = 4, overruled), msg_length + 1, Crc))

CustomHandler ==
  \/ \E data \in Bytes : sempCustomSync2(data) \/ sempCustomSync3(data)
  \/ sempCustomReadHeader
  \/ sempCustomReadData
  \/ \E match, overruled \in BOOLEAN : sempCustomReadCrc(match, overruled)

=============================================================================
