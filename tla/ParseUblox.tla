------------------------------ MODULE ParseUblox ------------------------------
(***************************************************************************)
(* u-blox UBX frames, Parse_UBLOX.c: B5 62, class, id, a 16-bit length, the *)
(* payload and the two Fletcher bytes CK_A, CK_B.  scratchPad.ck counts the *)
(* bytes that ck_a and ck_b have summed up.                                *)
(***************************************************************************)
EXTENDS SempScan

sempUbloxSync2(data) ==
  /\ Called("sempUbloxSync2")
  /\ \/ data # 98 /\ Restart(data)
     \/ data = 98 /\ Continue("sempUbloxClass", Crc) /\ UNCHANGED fields

sempUbloxClass ==
  /\ Called("sempUbloxClass")
  /\ Continue("sempUbloxId", Crc)
  /\ scratchPad' = [scratchPad EXCEPT !.ck = 1]
  /\ UNCHANGED <<declared, agree>>

\* Mutant: the id is left out of the checksum.
sempUbloxIdUnsummed ==
  /\ Called("sempUbloxId")
  /\ Continue("sempUbloxLength1", Crc)
  /\ UNCHANGED fields

sempUbloxId ==
  /\ Called("sempUbloxId")
  /\ Continue("sempUbloxLength1", Crc)
  /\ scratchPad' = [scratchPad EXCEPT !.ck = @ + 1]
  /\ UNCHANGED <<declared, agree>>

sempUbloxLength1(data) ==
  /\ Called("sempUbloxLength1")
  /\ Continue("sempUbloxLength2", Crc)
  /\ scratchPad' = [scratchPad EXCEPT !.ck = @ + 1, !.bytesRemaining = data]
  /\ UNCHANGED <<declared, agree>>

sempUbloxLength2(data) ==
  /\ Called("sempUbloxLength2")
  /\ Continue("sempUbloxPayload", Crc)
  /\ declared' = scratchPad.bytesRemaining + 256 * data
  /\ scratchPad' = [scratchPad EXCEPT !.ck = @ + 1, !.bytesRemaining = declared']
  /\ UNCHANGED agree

\* Mutant: `if (--bytesRemaining)', the last byte of the data is taken for CK_A.
sempUbloxPayloadEarly(match) ==
  /\ Called("sempUbloxPayload")
  /\ UNCHANGED declared
  /\ LET left == Decrement(scratchPad.bytesRemaining, UINT16) IN
     \/ /\ left # 0
        /\ Continue("sempUbloxPayload", Crc)
        /\ scratchPad' = [scratchPad EXCEPT !.ck = @ + 1, !.bytesRemaining = left]
        /\ UNCHANGED agree
     \/ /\ left = 0
        /\ Continue("sempUbloxCkB", Crc)
        /\ scratchPad' = [scratchPad EXCEPT !.bytesRemaining = left]
        /\ agree' = Agreed(match)

\* `if (bytesRemaining--)': the counter is tested, then decremented.  When it
\* was zero the byte is CK_A and sempUbloxCkA is called with it.
sempUbloxPayload(match) ==
  /\ Called("sempUbloxPayload")
  /\ UNCHANGED declared
  /\ LET left == Decrement(scratchPad.bytesRemaining, UINT16) IN
     \/ /\ scratchPad.bytesRemaining # 0
        /\ Continue("sempUbloxPayload", Crc)
        /\ scratchPad' = [scratchPad EXCEPT !.ck = @ + 1, !.bytesRemaining = left]
        /\ UNCHANGED agree
     \/ /\ scratchPad.bytesRemaining = 0
        /\ Continue("sempUbloxCkB", Crc)
        /\ scratchPad' = [scratchPad EXCEPT !.bytesRemaining = left]
        /\ agree' = Agreed(match)

\* The last two bytes of the buffer are compared with ck_a and ck_b, and the
\* message length is cleared.
sempUbloxCkB(match, overruled) ==
  /\ Called("sempUbloxCkB")
  /\ agree' = Agreed(match)
  /\ Finish(0, Crc,
            Verdict("UBLOX", 2, Result(agree' = 2, overruled), msg_length + 1,
                    [CrcZero EXCEPT !.cover = scratchPad.ck]))
  /\ UNCHANGED <<scratchPad, declared>>

UbloxHandler ==
  \/ \E data \in Bytes :
       \/ sempUbloxSync2(data)
       \/ sempUbloxLength1(data)
       \/ sempUbloxLength2(data)
  \/ sempUbloxClass
  \/ sempUbloxId
  \/ \E match \in BOOLEAN : sempUbloxPayload(match)
  \/ \E match, overruled \in BOOLEAN : sempUbloxCkB(match, overruled)

=============================================================================
