----------------------------- MODULE ParseUnicore -----------------------------
(***************************************************************************)
(* The two Unicore protocols.                                              *)
(*                                                                         *)
(* Binary, Parse_Unicore_Binary.c: AA 44 B5, the rest of a 24-byte header, *)
(* the data, four CRC bytes.  Its CRC routine returns no value, so whether *)
(* parse->crc is zero at the end of a frame does not follow from the data: *)
(* both outcomes are possible.                                             *)
(*                                                                         *)
(* Hash, Parse_Unicore_Hash.c: '#', a name, ',', text, '*', and two check  *)
(* digits when the name contains "MODE", else the eight digits of a CRC-32.*)
(***************************************************************************)
EXTENDS SempScan, SempText

SEMP_UNICORE_HEADER == 24   \* sizeof

sempUnicoreBinarySync2(data) ==
  /\ Called("sempUnicoreBinarySync2")
  /\ \/ data # 68 /\ Restart(data)
     \/ data = 68 /\ Continue("sempUnicoreBinarySync3", Crc) /\ UNCHANGED fields

sempUnicoreBinarySync3(data) ==
  /\ Called("sempUnicoreBinarySync3")
  /\ \/ data # 181 /\ Restart(data)
     \/ data = 181 /\ Continue("sempUnicoreBinaryReadHeader", Crc) /\ UNCHANGED fields

sempUnicoreBinaryReadHeader ==
  /\ Called("sempUnicoreBinaryReadHeader")
  /\ UNCHANGED agree
  /\ \/ /\ msg_length + 1 < SEMP_UNICORE_HEADER
        /\ Continue("sempUnicoreBinaryReadHeader", Crc)
        /\ UNCHANGED <<scratchPad, declared>>
     \/ /\ msg_length + 1 >= SEMP_UNICORE_HEADER
        /\ Continue("sempUnicoreBinaryReadData", Crc)
        /\ declared' \in MessageLengths
        /\ scratchPad' = [scratchPad EXCEPT !.bytesRemaining = declared']

\* Mutant: as many check bytes as RTCM has.
sempUnicoreBinaryReadDataShort ==
  /\ Called("sempUnicoreBinaryReadData")
  /\ UNCHANGED <<declared, agree>>
  /\ LET left == Decrement(scratchPad.bytesRemaining, UINT16) IN
     \/ /\ left # 0
        /\ Continue("sempUnicoreBinaryReadData", Crc)
        /\ scratchPad' = [scratchPad EXCEPT !.bytesRemaining = left]
     \/ /\ left = 0
        /\ Continue("sempUnicoreBinaryReadCrc", Crc)
        /\ scratchPad' = [scratchPad EXCEPT !.bytesRemaining = 3]

sempUnicoreBinaryReadData ==
  /\ Called("sempUnicoreBinaryReadData")
  /\ UNCHANGED <<declared, agree>>
  /\ LET left == Decrement(scratchPad.bytesRemaining, UINT16) IN
     \/ /\ left # 0
        /\ Continue("sempUnicoreBinaryReadData", Crc)
        /\ scratchPad' = [scratchPad EXCEPT !.bytesRemaining = left]
     \/ /\ left = 0
        /\ Continue("sempUnicoreBinaryReadCrc", Crc)
        /\ scratchPad' = [scratchPad EXCEPT !.bytesRemaining = 4]

\* `zero' is whether parse->crc happens to be zero, `match' whether the byte is
\* that of the CRC-32 of the frame, which the routine never computes.
sempUnicoreBinaryReadCrc(match, zero, overruled) ==
  /\ Called("sempUnicoreBinaryReadCrc")
  /\ agree' = Agreed(match)
  /\ UNCHANGED declared
  /\ LET left == Decrement(scratchPad.bytesRemaining, UINT16) IN
     /\ scratchPad' = [scratchPad EXCEPT !.bytesRemaining = left]
     /\ \/ left # 0 /\ Continue("sempUnicoreBinaryReadCrc", Crc)
        \/ /\ left = 0
           /\ Finish(msg_length + 1, Crc,
                     Verdict("UnicoreBinary", 4, Result(zero, overruled), msg_length + 1, Crc))

UnicoreBinaryHandler ==
  \/ \E data \in Bytes : sempUnicoreBinarySync2(data) \/ sempUnicoreBinarySync3(data)
  \/ sempUnicoreBinaryReadHeader
  \/ sempUnicoreBinaryReadData
  \/ \E match, zero, overruled \in BOOLEAN :
       sempUnicoreBinaryReadCrc(match, zero, overruled)

-----------------------------------------------------------------------------
UNICORE_HASH_BUFFER_OVERHEAD == 3

\* A ',' after at least one name character ends the name; only a name of four
\* characters or more can contain "MODE".
sempUnicoreHashFindFirstComma(data) ==
  /\ Called("sempUnicoreHashFindFirstComma")
  /\ \/ /\ data = Comma /\ scratchPad.sentenceNameLength # 0
        /\ Continue("sempUnicoreHashFindAsterisk", Absorb(crc))
        /\ \E digits \in (IF scratchPad.sentenceNameLength >= 4 THEN {2, 8} ELSE {8}) :
             scratchPad' = [scratchPad EXCEPT !.checksumBytes = digits]
        /\ UNCHANGED <<declared, agree>>
     \/ /\ IsNameCharacter(data)
        /\ scratchPad.sentenceNameLength # SEMP_SENTENCE_NAME_BYTES - 1
        /\ Continue("sempUnicoreHashFindFirstComma", Absorb(crc))
        /\ scratchPad' = [scratchPad EXCEPT !.sentenceNameLength = @ + 1]
        /\ UNCHANGED <<declared, agree>>
     \/ /\ ~(data = Comma /\ scratchPad.sentenceNameLength # 0)
        /\ \/ ~IsNameCharacter(data)
           \/ scratchPad.sentenceNameLength = SEMP_SENTENCE_NAME_BYTES - 1
        /\ Restart(data)

sempUnicoreHashFindAsterisk(data) ==
  /\ Called("sempUnicoreHashFindAsterisk")
  /\ \/ /\ data = Asterisk
        /\ Continue("sempUnicoreHashChecksumByte", crc)
        /\ scratchPad' = [scratchPad EXCEPT !.bytesRemaining = scratchPad.checksumBytes]
        /\ UNCHANGED <<declared, agree>>
     \/ /\ data # Asterisk
        /\ msg_length + 1 + UNICORE_HASH_BUFFER_OVERHEAD <= buffer_length
        /\ Continue("sempUnicoreHashFindAsterisk", Absorb(crc))
        /\ UNCHANGED fields
     \/ /\ data # Asterisk
        /\ msg_length + 1 + UNICORE_HASH_BUFFER_OVERHEAD > buffer_length
        /\ Restart(data)

\* Mutant: the digit that brings the counter to zero is followed by one more.
sempUnicoreHashChecksumByteLate(data, match) ==
  /\ Called("sempUnicoreHashChecksumByte")
  /\ LET left == Decrement(scratchPad.bytesRemaining, UINT8) IN
     \/ semp_util_asciiToNibble(data) < 0 /\ Restart(data)
     \/ /\ semp_util_asciiToNibble(data) >= 0
        /\ Continue(IF scratchPad.bytesRemaining = 0 THEN "sempUnicoreHashLineTermination"
                                                     ELSE "sempUnicoreHashChecksumByte", crc)
        /\ scratchPad' = [scratchPad EXCEPT !.bytesRemaining = left]
        /\ agree' = Agreed(match)
        /\ UNCHANGED declared

sempUnicoreHashChecksumByte(data, match) ==
  /\ Called("sempUnicoreHashChecksumByte")
  /\ LET left == Decrement(scratchPad.bytesRemaining, UINT8) IN
     \/ semp_util_asciiToNibble(data) < 0 /\ Restart(data)
     \/ /\ semp_util_asciiToNibble(data) >= 0
        /\ Continue(IF left = 0 THEN "sempUnicoreHashLineTermination"
                                ELSE "sempUnicoreHashChecksumByte", crc)
        /\ scratchPad' = [scratchPad EXCEPT !.bytesRemaining = left]
        /\ agree' = Agreed(match)
        /\ UNCHANGED declared

\* The CRC-32 of the bytes between '#' and '*', which stands checksumBytes + 1
\* bytes before the end.  A mismatch is not reported to badCrc, and a sentence
\* that leaves no room for CR LF and the zero byte is dropped.
sempUnicoreHashValidateCrc ==
  LET sum  == [CrcZero EXCEPT !.cover = msg_length - 2 - scratchPad.checksumBytes]
      fits == msg_length + UNICORE_HASH_BUFFER_OVERHEAD <= buffer_length
      result == CASE agree # 8 -> "unreported"
                  [] agree = 8 /\ fits -> "passed"
                  [] OTHER -> "dropped"
  IN Verdict("UnicoreHash", 8, result, LengthWithLineEnd, sum)

\* Two digits: an exclusive-or checksum, with no test for room.
sempUnicoreHashValidateChecksum(overruled) ==
  IF scratchPad.checksumBytes > 2
  THEN sempUnicoreHashValidateCrc
  ELSE Verdict("UnicoreHash", 2, Result(agree = 2, overruled), LengthWithLineEnd, crc)

sempUnicoreHashLineTermination(data, overruled) ==
  /\ Called("sempUnicoreHashLineTermination")
  /\ \/ data = CR /\ AwaitLineEnd("sempUnicoreHashLineFeed")
     \/ data = LF /\ AwaitLineEnd("sempUnicoreHashCarriageReturn")
     \/ /\ data \notin {CR, LF}
        /\ sempFirstByte(data)
        /\ out' = sempUnicoreHashValidateChecksum(overruled)

sempUnicoreHashLineFeed(data, overruled) ==
  /\ Called("sempUnicoreHashLineFeed")
  /\ \/ data = LF /\ FinishLine(sempUnicoreHashValidateChecksum(overruled))
     \/ /\ data # LF
        /\ sempFirstByte(data)
        /\ out' = sempUnicoreHashValidateChecksum(overruled)

sempUnicoreHashCarriageReturn(data, overruled) ==
  /\ Called("sempUnicoreHashCarriageReturn")
  /\ \/ data = CR /\ FinishLine(sempUnicoreHashValidateChecksum(overruled))
     \/ /\ data # CR
        /\ sempFirstByte(data)
        /\ out' = sempUnicoreHashValidateChecksum(overruled)

UnicoreHashHandler ==
  \E data \in Bytes :
    \/ sempUnicoreHashFindFirstComma(data)
    \/ sempUnicoreHashFindAsterisk(data)
    \/ \E match \in BOOLEAN : sempUnicoreHashChecksumByte(data, match)
    \/ \E overruled \in BOOLEAN : \/ sempUnicoreHashLineTermination(data, overruled)
                                  \/ sempUnicoreHashLineFeed(data, overruled)
                                  \/ sempUnicoreHashCarriageReturn(data, overruled)

=============================================================================
