------------------------------- MODULE ParseNmea -------------------------------
(***************************************************************************)
(* NMEA sentences, Parse_NMEA.c: '$' or '!', a name, ',', text, '*', two   *)
(* hexadecimal check digits, and a line end that is accepted in any of the *)
(* forms CR LF, LF CR, CR, LF or nothing.                                  *)
(***************************************************************************)
EXTENDS SempScan, SempText

NMEA_BUFFER_OVERHEAD == 6

\* Mutant: the last place of sentenceName is not kept for the zero byte.
sempNmeaFindFirstCommaLong(data) ==
  /\ Called("sempNmeaFindFirstComma")
  /\ \/ /\ data = Comma /\ scratchPad.sentenceNameLength # 0
        /\ Continue("sempNmeaFindAsterisk", Absorb(crc))
        /\ UNCHANGED fields
     \/ /\ IsNameCharacter(data)
        /\ scratchPad.sentenceNameLength # SEMP_SENTENCE_NAME_BYTES
        /\ Continue("sempNmeaFindFirstComma", Absorb(crc))
        /\ scratchPad' = [scratchPad EXCEPT !.sentenceNameLength = @ + 1]
        /\ UNCHANGED <<declared, agree>>
     \/ /\ ~(data = Comma /\ scratchPad.sentenceNameLength # 0)
        /\ \/ ~IsNameCharacter(data)
           \/ scratchPad.sentenceNameLength = SEMP_SENTENCE_NAME_BYTES
        /\ Restart(data)

\* The name is collected; a ',' after at least one character ends it.
sempNmeaFindFirstComma(data) ==
  /\ Called("sempNmeaFindFirstComma")
  /\ \/ /\ data = Comma /\ scratchPad.sentenceNameLength # 0
        /\ Continue("sempNmeaFindAsterisk", Absorb(crc))
        /\ UNCHANGED fields
     \/ /\ IsNameCharacter(data)
        /\ scratchPad.sentenceNameLength # SEMP_SENTENCE_NAME_BYTES - 1
        /\ Continue("sempNmeaFindFirstComma", Absorb(crc))
        /\ scratchPad' = [scratchPad EXCEPT !.sentenceNameLength = @ + 1]
        /\ UNCHANGED <<declared, agree>>
     \/ /\ ~(data = Comma /\ scratchPad.sentenceNameLength # 0)
        /\ \/ ~IsNameCharacter(data)
           \/ scratchPad.sentenceNameLength = SEMP_SENTENCE_NAME_BYTES - 1
        /\ Restart(data)

sempNmeaFindAsterisk(data) ==
  /\ Called("sempNmeaFindAsterisk")
  /\ \/ /\ data = Asterisk
        /\ Continue("sempNmeaChecksumByte1", crc)
        /\ UNCHANGED fields
     \/ /\ data # Asterisk
        /\ msg_length + 1 + NMEA_BUFFER_OVERHEAD <= buffer_length
        /\ Continue("sempNmeaFindAsterisk", Absorb(crc))
        /\ UNCHANGED fields
     \/ /\ data # Asterisk
        /\ msg_length + 1 + NMEA_BUFFER_OVERHEAD > buffer_length
        /\ Restart(data)

sempNmeaChecksumByte1(data, match) ==
  /\ Called("sempNmeaChecksumByte1")
  /\ \/ /\ semp_util_asciiToNibble(data) >= 0
        /\ Continue("sempNmeaChecksumByte2", crc)
        /\ agree' = Agreed(match)
        /\ UNCHANGED <<scratchPad, declared>>
     \/ semp_util_asciiToNibble(data) < 0 /\ Restart(data)

sempNmeaChecksumByte2(data, match) ==
  /\ Called("sempNmeaChecksumByte2")
  /\ \/ /\ semp_util_asciiToNibble(data) >= 0
        /\ Continue("sempNmeaLineTermination", crc)
        /\ agree' = Agreed(match)
        /\ UNCHANGED <<scratchPad, declared>>
     \/ semp_util_asciiToNibble(data) < 0 /\ Restart(data)

\* What the application sees of the sentence: CR LF appended, and a zero byte
\* stored at index len.
sempNmeaValidateChecksum(overruled) ==
  Verdict("NMEA", 2, Result(agree = 2, overruled), LengthWithLineEnd, crc)

\* The three line-end routines take the byte out of the buffer again
\* (msg_length -= 1), so the sentence keeps its length.
sempNmeaLineTermination(data, overruled) ==
  /\ Called("sempNmeaLineTermination")
  /\ \/ data = CR /\ AwaitLineEnd("sempNmeaLineFeed")
     \/ data = LF /\ AwaitLineEnd("sempNmeaCarriageReturn")
     \/ /\ data \notin {CR, LF}
        /\ sempFirstByte(data)
        /\ out' = sempNmeaValidateChecksum(overruled)

\* Mutant: a second CR is taken for the beginning of the line end.
sempNmeaLineFeedRepeats(data, overruled) ==
  /\ Called("sempNmeaLineFeed")
  /\ \/ data = LF /\ FinishLine(sempNmeaValidateChecksum(overruled))
     \/ data = CR /\ AwaitLineEnd("sempNmeaLineTermination")
     \/ data \notin {CR, LF} /\ sempFirstByte(data) /\ out' = Silent

sempNmeaLineFeed(data, overruled) ==
  /\ Called("sempNmeaLineFeed")
  /\ \/ data = LF /\ FinishLine(sempNmeaValidateChecksum(overruled))
     \/ /\ data # LF
        /\ sempFirstByte(data)
        /\ out' = sempNmeaValidateChecksum(overruled)

sempNmeaCarriageReturn(data, overruled) ==
  /\ Called("sempNmeaCarriageReturn")
  /\ \/ data = CR /\ FinishLine(sempNmeaValidateChecksum(overruled))
     \/ /\ data # CR
        /\ sempFirstByte(data)
        /\ out' = sempNmeaValidateChecksum(overruled)

NmeaHandler ==
  \E data \in Bytes :
    \/ sempNmeaFindFirstComma(data)
    \/ sempNmeaFindAsterisk(data)
    \/ \E match \in BOOLEAN : \/ sempNmeaChecksumByte1(data, match)
                              \/ sempNmeaChecksumByte2(data, match)
    \/ \E overruled \in BOOLEAN : \/ sempNmeaLineTermination(data, overruled)
                                  \/ sempNmeaLineFeed(data, overruled)
                                  \/ sempNmeaCarriageReturn(data, overruled)

=============================================================================
