--------------------------- MODULE ParserInvariant ---------------------------
(***************************************************************************)
(* The inductive invariant of MessageParser: what every routine may assume *)
(* of the parse structure when it is called.                               *)
(***************************************************************************)
EXTENDS MessageParser

\* The active routine is one of protocol p's, called for its own table entry.
Active(p) ==
  /\ parser_type < Len(ParserTable)
  /\ ParserTable[parser_type + 1] = p

\* No check byte has been received, no length field is known.
Undeclared == declared = Unset /\ agree = 0

\* At most n check bytes have agreed.
AtMost(n) == agree <= n

\* `bytesRemaining' counts down to the end of the data, header + declared, or
\* has wrapped below zero because the data is shorter than `shortest'.
Counting(header, shortest) ==
  /\ declared # Unset /\ agree = 0
  /\ scratchPad.bytesRemaining # Unset
  /\ \/ /\ declared >= shortest
        /\ scratchPad.bytesRemaining >= 1
        /\ msg_length + scratchPad.bytesRemaining = header + declared
     \/ /\ declared < shortest
        /\ \/ msg_length + scratchPad.bytesRemaining = header + declared
           \/ msg_length + scratchPad.bytesRemaining = header + declared + UINT16

\* `bytesRemaining' of the n check bytes behind the data are still to come.
Closing(header, shortest, n) ==
  /\ declared >= shortest
  /\ scratchPad.bytesRemaining >= 1 /\ scratchPad.bytesRemaining <= n
  /\ msg_length + scratchPad.bytesRemaining = header + n + declared
  /\ AtMost(n - scratchPad.bytesRemaining)

CustomInv ==
  /\ Active("Custom") /\ computeCrc = "sempCustomComputeCrc"
  /\ crc.seed = "ones" /\ crc.cover = msg_length
  /\ state = "sempCustomSync2" => msg_length = 1 /\ Undeclared
  /\ state = "sempCustomSync3" => msg_length = 2 /\ Undeclared
  /\ state = "sempCustomReadHeader" => msg_length >= 3 /\ msg_length <= 19 /\ Undeclared
  /\ state = "sempCustomReadData" => msg_length >= 20 /\ Counting(20, 1)
  /\ IF state = "sempCustomReadCrc"
     THEN /\ Closing(20, 1, 4)
          /\ crc.inverted = msg_length + scratchPad.bytesRemaining - 4
     ELSE crc.inverted = 0

UnicoreBinaryInv ==
  /\ Active("UnicoreBinary") /\ computeCrc = "sempUnicoreBinaryComputeCrc"
  /\ state = "sempUnicoreBinarySync2" => msg_length = 1 /\ Undeclared
  /\ state = "sempUnicoreBinarySync3" => msg_length = 2 /\ Undeclared
  /\ state = "sempUnicoreBinaryReadHeader" => msg_length >= 3 /\ msg_length <= 23 /\ Undeclared
  /\ state = "sempUnicoreBinaryReadData" => msg_length >= 24 /\ Counting(24, 1)
  /\ state = "sempUnicoreBinaryReadCrc" => Closing(24, 1, 4)

\* The message number is the first two bytes of the data.
RtcmInv ==
  /\ Active("RTCM") /\ computeCrc = "sempRtcmComputeCrc24q"
  /\ crc.seed = "zeros" /\ crc.inverted = 0
  /\ crc.cover = msg_length
  /\ state = "sempRtcmReadLength1" => msg_length = 1 /\ Undeclared
  /\ state = "sempRtcmReadLength2" =>
       msg_length = 2 /\ Undeclared
       /\ scratchPad.bytesRemaining >= 0 /\ scratchPad.bytesRemaining <= 768
  /\ state \in {"sempRtcmReadMessage1", "sempRtcmReadMessage2", "sempRtcmReadData"} =>
       Counting(3, 3)
  /\ state = "sempRtcmReadMessage1" => msg_length = 3
  /\ state = "sempRtcmReadMessage2" => msg_length = 4
  /\ state = "sempRtcmReadData" => msg_length >= 5
  /\ state = "sempRtcmReadCrc" => Closing(3, 3, 3)

\* ck covers everything from the class on.
UbloxInv ==
  /\ Active("UBLOX") /\ computeCrc = "nullptr"
  /\ state \notin {"sempUbloxPayload", "sempUbloxCkB"} => Undeclared
  /\ state = "sempUbloxSync2" => msg_length = 1
  /\ state = "sempUbloxClass" => msg_length = 2
  /\ state = "sempUbloxId" => msg_length = 3
  /\ state = "sempUbloxLength1" => msg_length = 4
  /\ state = "sempUbloxLength2" =>
       msg_length = 5 /\ scratchPad.bytesRemaining \in uint8_t
  /\ state \notin {"sempUbloxSync2", "sempUbloxClass", "sempUbloxCkB"} =>
       scratchPad.ck = msg_length - 2
  /\ state = "sempUbloxPayload" =>
       /\ declared # Unset /\ agree = 0 /\ scratchPad.bytesRemaining # Unset
       /\ msg_length >= 6
       /\ msg_length + scratchPad.bytesRemaining = 6 + declared
  /\ state = "sempUbloxCkB" =>
       /\ declared # Unset /\ AtMost(1)
       /\ msg_length = 7 + declared
       /\ scratchPad.ck = msg_length - 3

\* A sentence with `tail' bytes behind its text ('*' and check digits).
Sentence(tail) ==
  /\ computeCrc = "nullptr"
  /\ crc.seed = "zeros" /\ crc.inverted = 0
  /\ crc.cover = msg_length - 1 - tail
  /\ declared = Unset
  /\ IF tail = 0 THEN agree = 0 ELSE AtMost(tail - 1)

\* The name, with its zero byte, is in its array and the frame is no longer.
Naming ==
  /\ scratchPad.sentenceNameLength # Unset
  /\ msg_length = scratchPad.sentenceNameLength + 1

NmeaTail ==
  CASE state = "sempNmeaChecksumByte1" -> 1
    [] state = "sempNmeaChecksumByte2" -> 2
    [] state \in {"sempNmeaLineTermination", "sempNmeaLineFeed",
                  "sempNmeaCarriageReturn"} -> 3
    [] OTHER -> 0

\* NMEA_BUFFER_OVERHEAD bytes are free behind the text.
NmeaInv ==
  /\ Active("NMEA")
  /\ Sentence(NmeaTail)
  /\ state = "sempNmeaFindFirstComma" => Naming
  /\ msg_length + NMEA_BUFFER_OVERHEAD - NmeaTail <= buffer_length

UnicoreHashTail ==
  CASE state = "sempUnicoreHashChecksumByte" ->
         1 + scratchPad.checksumBytes - scratchPad.bytesRemaining
    [] state \in {"sempUnicoreHashLineTermination", "sempUnicoreHashLineFeed",
                  "sempUnicoreHashCarriageReturn"} -> 1 + scratchPad.checksumBytes
    [] OTHER -> 0

UnicoreHashInv ==
  /\ Active("UnicoreHash")
  /\ Sentence(UnicoreHashTail)
  /\ state = "sempUnicoreHashFindFirstComma" => Naming
  /\ state # "sempUnicoreHashFindFirstComma" => scratchPad.checksumBytes \in {2, 8}
  /\ state = "sempUnicoreHashChecksumByte" =>
       /\ scratchPad.bytesRemaining >= 1
       /\ scratchPad.bytesRemaining <= scratchPad.checksumBytes
  /\ msg_length <= buffer_length

\* The parse structure before a call.
FrameInv ==
  /\ parse # "nullptr" => buffer_length >= SEMP_MINIMUM_BUFFER_LENGTH
  /\ parse = "nullptr" => state = "sempFirstByte"
  /\ state # "sempFirstByte" => msg_length <= buffer_length
  /\ scratchPad.sentenceNameLength < SEMP_SENTENCE_NAME_BYTES
  /\ state \in CustomStates => CustomInv
  /\ state \in NmeaStates => NmeaInv
  /\ state \in RtcmStates => RtcmInv
  /\ state \in UbloxStates => UbloxInv
  /\ state \in UnicoreBinaryStates => UnicoreBinaryInv
  /\ state \in UnicoreHashStates => UnicoreHashInv

\* The last callback: the table entry it names, the bytes it hands over, the
\* bytes that were checked and the length of a binary frame.
CallbackInv ==
  /\ DeliveredNow => out.type < Len(ParserTable) /\ ParserTable[out.type + 1] = out.proto
  /\ DeliveredNow /\ ~TwoDigitHash => Footprint <= buffer_length
  /\ CheckCoversFrame
  /\ out.proto \in BinaryProtocols => out.len = Envelope(out.proto) + out.declared

\* What is true before every call of sempParseNextByte, whatever has arrived
\* before: each routine finds the frame, the scratch pad and the check register
\* as the routine before it left them.
Inv == TypeOK /\ FrameInv /\ CallbackInv

=============================================================================
