---------------------------- MODULE MessageParser ----------------------------
(***************************************************************************)
(* The parser of Message_Parser.c with its six protocols: one instance,    *)
(* begun, fed one byte at a time and stopped by its application.           *)
(***************************************************************************)
EXTENDS ParseCustom, ParseNmea, ParseRtcm, ParseUblox, ParseUnicore

\* The routines parse->state can point to, by protocol.
CustomStates ==
  {"sempCustomSync2", "sempCustomSync3", "sempCustomReadHeader",
   "sempCustomReadData", "sempCustomReadCrc"}
NmeaStates ==
  {"sempNmeaFindFirstComma", "sempNmeaFindAsterisk", "sempNmeaChecksumByte1",
   "sempNmeaChecksumByte2", "sempNmeaLineTermination", "sempNmeaLineFeed",
   "sempNmeaCarriageReturn"}
RtcmStates ==
  {"sempRtcmReadLength1", "sempRtcmReadLength2", "sempRtcmReadMessage1",
   "sempRtcmReadMessage2", "sempRtcmReadData", "sempRtcmReadCrc"}
UbloxStates ==
  {"sempUbloxSync2", "sempUbloxClass", "sempUbloxId", "sempUbloxLength1",
   "sempUbloxLength2", "sempUbloxPayload", "sempUbloxCkB"}
UnicoreBinaryStates ==
  {"sempUnicoreBinarySync2", "sempUnicoreBinarySync3", "sempUnicoreBinaryReadHeader",
   "sempUnicoreBinaryReadData", "sempUnicoreBinaryReadCrc"}
UnicoreHashStates ==
  {"sempUnicoreHashFindFirstComma", "sempUnicoreHashFindAsterisk",
   "sempUnicoreHashChecksumByte", "sempUnicoreHashLineTermination",
   "sempUnicoreHashLineFeed", "sempUnicoreHashCarriageReturn"}

Routines ==
  UNION {{"sempFirstByte"}, CustomStates, NmeaStates, RtcmStates, UbloxStates,
         UnicoreBinaryStates, UnicoreHashStates}

StatesOf(p) ==
  CASE p = "Custom"        -> CustomStates
    [] p = "NMEA"          -> NmeaStates
    [] p = "RTCM"          -> RtcmStates
    [] p = "UBLOX"         -> UbloxStates
    [] p = "UnicoreBinary" -> UnicoreBinaryStates
    [] p = "UnicoreHash"   -> UnicoreHashStates

-----------------------------------------------------------------------------
(* Beginning, feeding and stopping the parser.                             *)

Init ==
  /\ parse = "nullptr"
  /\ buffer_length = 0
  /\ state = "sempFirstByte"
  /\ parser_type = 0
  /\ msg_length = 0
  /\ computeCrc = "nullptr"
  /\ crc = CrcZero
  /\ scratchPad = ScratchZero
  /\ declared = Unset
  /\ agree = 0
  /\ out = Silent

\* The buffer that is allocated when bufferLength bytes are asked for.
sempAllocateParseStructure(request) ==
  IF request < SEMP_MINIMUM_BUFFER_LENGTH THEN SEMP_MINIMUM_BUFFER_LENGTH ELSE request

\* The structure as it is before the first byte: memset to zero, then state set.
Fresh ==
  /\ state' = "sempFirstByte"
  /\ parser_type' = 0
  /\ msg_length' = 0
  /\ computeCrc' = "nullptr"
  /\ crc' = CrcZero
  /\ scratchPad' = ScratchZero
  /\ declared' = Unset
  /\ agree' = 0
  /\ out' = Silent

\* `valid' is whether the arguments pass every test (equal table sizes, the two
\* tables, the end-of-message callback and a name are there, the table is not
\* empty), `allocated' whether malloc succeeds.
sempBeginParser(request, valid, allocated) ==
  /\ parse = "nullptr"
  /\ \/ ~(valid /\ allocated) /\ UNCHANGED vars
     \/ /\ valid /\ allocated
        /\ parse' = "allocated"
        /\ buffer_length' = sempAllocateParseStructure(request)
        /\ Fresh

\* The structure is freed and the caller's pointer cleared.  Nothing of it can
\* be seen any more, so its fields are put back to their initial values.
sempStopParser ==
  parse # "nullptr" /\ parse' = "nullptr" /\ buffer_length' = 0 /\ Fresh

\* One byte.  In the handlers `data' is the byte where its value matters, `match'
\* is whether it equals the byte of the computed check value that it is compared
\* with, and `overruled' is whether badCrc accepts a frame whose check failed.
sempParseNextByte ==
  \/ /\ parse # "nullptr" /\ msg_length >= buffer_length
     /\ \E data \in Bytes : Restart(data)
  \/ /\ Called("sempFirstByte")
     /\ \E data \in Bytes : Restart(data)
  \/ CustomHandler
  \/ NmeaHandler
  \/ RtcmHandler
  \/ UbloxHandler
  \/ UnicoreBinaryHandler
  \/ UnicoreHashHandler

Next ==
  \/ \E request \in BufferRequests, valid, allocated \in BOOLEAN :
       sempBeginParser(request, valid, allocated)
  \/ sempStopParser
  \/ sempParseNextByte

Spec == Init /\ [][Next]_vars

\* The stream goes on: a byte that can be parsed is eventually parsed.
FairSpec == Spec /\ WF_vars(sempParseNextByte)

-----------------------------------------------------------------------------
(* Correctness.                                                            *)

ScratchPads ==
  [bytesRemaining : uint16_t \cup {Unset}, sentenceNameLength : uint8_t \cup {Unset},
   checksumBytes : uint8_t \cup {Unset}, ck : Int]

Callbacks ==
  [result : {"none", "passed", "overruled", "refused", "unreported", "dropped"},
   proto : Protocols \cup {"none"}, type : 0 .. Len(ParserTable), len : uint16_t,
   sum : CheckRegisters, declared : uint16_t \cup {Unset}, width : 0 .. 8]

StructureType ==
  /\ parse \in {"nullptr", "allocated"}
  /\ buffer_length \in uint16_t
  /\ state \in Routines
  /\ parser_type \in 0 .. Len(ParserTable)
  /\ msg_length \in uint16_t
  /\ computeCrc \in {"nullptr", "sempCustomComputeCrc", "sempRtcmComputeCrc24q",
                     "sempUnicoreBinaryComputeCrc"}
  /\ crc \in CheckRegisters
  /\ scratchPad \in ScratchPads
  /\ declared = Unset \/ declared \in uint16_t
  /\ agree \in Mismatch .. 8

\* Every field of the parse structure has its type, and so has what a callback
\* sees: no 16-bit length or counter leaves its range.
TypeOK == StructureType /\ out \in Callbacks

\* The last call has handed a frame to eomCallback.
DeliveredNow == out.result \in Delivered

\* The routine that is active belongs to the table entry parser_type names and
\* runs with that protocol's CRC routine; so the type passed to eomCallback is,
\* as Message_Parser.h says, the index of the parser that processed the frame.
TypeNamesParser ==
  /\ \A p \in Protocols :
       state \in StatesOf(p) =>
         /\ parser_type < Len(ParserTable)
         /\ ParserTable[parser_type + 1] = p
         /\ computeCrc = Preamble(p).computeCrc
  /\ DeliveredNow => out.type < Len(ParserTable) /\ ParserTable[out.type + 1] = out.proto

\* The sentence in the last callback was a Unicore hash sentence with the
\* two-digit checksum.
TwoDigitHash == out.proto = "UnicoreHash" /\ out.width = 2

\* The bytes a delivered frame occupies: text has a zero byte after it.
Footprint == out.len + (IF out.proto \in {"NMEA", "UnicoreHash"} THEN 1 ELSE 0)

\* A frame in progress lies in the buffer, and so does a delivered one with the
\* CR, LF and zero byte that the line protocols append to it; a sentence name,
\* with its zero byte, lies in sentenceName[16].  (Two-digit Unicore hash
\* sentences are the subject of HashSentenceInBuffer.)
FrameInBuffer ==
  /\ scratchPad.sentenceNameLength < SEMP_SENTENCE_NAME_BYTES
  /\ state # "sempFirstByte" => msg_length <= buffer_length
  /\ DeliveredNow /\ ~TwoDigitHash => Footprint <= buffer_length

\* The same for every sentence, as the end-of-message callback is promised
\* (Message_Parser.h: `the length field containing the number of valid data
\* bytes in the buffer').
HashSentenceInBuffer == DeliveredNow => Footprint <= buffer_length

\* The scratch-pad fields that a routine reads before it writes them.
Reads(routine) ==
  CASE routine \in {"sempCustomReadData", "sempCustomReadCrc", "sempRtcmReadLength2",
                    "sempRtcmReadMessage1", "sempRtcmReadMessage2", "sempRtcmReadData",
                    "sempRtcmReadCrc", "sempUnicoreBinaryReadData",
                    "sempUnicoreBinaryReadCrc"} -> {"bytesRemaining"}
    [] routine \in {"sempUbloxId", "sempUbloxLength1", "sempUbloxCkB"} -> {"ck"}
    [] routine \in {"sempUbloxLength2", "sempUbloxPayload"} -> {"ck", "bytesRemaining"}
    [] routine \in {"sempNmeaFindFirstComma",
                    "sempUnicoreHashFindFirstComma"} -> {"sentenceNameLength"}
    [] routine = "sempUnicoreHashChecksumByte" -> {"bytesRemaining", "checksumBytes"}
    [] routine \in {"sempUnicoreHashFindAsterisk", "sempUnicoreHashLineTermination",
                    "sempUnicoreHashLineFeed",
                    "sempUnicoreHashCarriageReturn"} -> {"checksumBytes"}
    [] OTHER -> {}

\* The scratch areas overlap, `since only one parser is active at a time': no
\* routine reads a field that its own frame has not written before.
ScratchPadWritten == \A f \in Reads(state) : scratchPad[f] # Unset

\* How many bytes of a frame its check leaves out: the preambles and check bytes
\* of u-blox, and of the sentences also the '*' and the line end.
Unchecked ==
  CASE out.proto \in {"Custom", "RTCM"} -> 0
    [] out.proto = "UBLOX" -> 4
    [] out.proto = "NMEA" \/ TwoDigitHash -> 6
    [] OTHER -> 12

\* A frame that is accepted on its check was checked over exactly the bytes its
\* protocol protects, where out.len is 16 bits wide; the custom CRC-32 starts from
\* ones and is complemented before the four CRC bytes.  (Unicore binary has no
\* defined check: sempUnicoreBinaryComputeCrc returns nothing.)
CheckCoversFrame ==
  out.result = "passed" /\ out.proto # "UnicoreBinary" =>
    /\ out.sum.seed = (IF out.proto = "Custom" THEN "ones" ELSE "zeros")
    /\ out.sum.inverted = (IF out.proto = "Custom" THEN out.len - 4 ELSE 0)
    /\ (out.sum.cover + Unchecked) % UINT16 = out.len

\* The bytes of a binary frame around its data, and the shortest data the
\* parser counts correctly.
Envelope(p) ==
  CASE p = "Custom" -> 24 [] p = "UnicoreBinary" -> 28 [] p = "RTCM" -> 6 [] p = "UBLOX" -> 8
Shortest(p) ==
  CASE p = "Custom" -> 1 [] p = "UnicoreBinary" -> 1 [] p = "RTCM" -> 3 [] p = "UBLOX" -> 0
BinaryProtocols == {"Custom", "UnicoreBinary", "RTCM", "UBLOX"}

\* No byte after the end of a frame is taken into it.
NotPastEnd(p) == state \in StatesOf(p) => msg_length < Envelope(p) + declared

\* A binary frame ends where its length field says: it is judged there, and no
\* byte after that is taken into it.  (For data shorter than Shortest the 16-bit
\* counter wraps: ZeroLengthFrameEnds.)
FrameEndsWhereDeclared ==
  /\ \A p \in BinaryProtocols : declared >= Shortest(p) => NotPastEnd(p)
  /\ out.proto \in BinaryProtocols => out.len = Envelope(out.proto) + out.declared

\* A custom frame without data ends after its CRC like any other.
ZeroLengthFrameEnds == declared = 0 => NotPastEnd("Custom")

-----------------------------------------------------------------------------
\* The line-end routines keep msg_length; they follow each other in this order.
LineEnd ==
  IF state \in {"sempNmeaLineTermination", "sempUnicoreHashLineTermination"} THEN 1
  ELSE IF state \in {"sempNmeaLineFeed", "sempNmeaCarriageReturn",
                     "sempUnicoreHashLineFeed", "sempUnicoreHashCarriageReturn"} THEN 2
  ELSE 0

\* A byte of a frame ends it, starts another one, or brings it nearer to its
\* end: the frame grows, or its line end proceeds.  With FrameInBuffer no frame
\* lasts more than buffer_length + 2 bytes.
FrameAdvances ==
  [][parse' # "nullptr" /\ state' # "sempFirstByte" /\ msg_length' # 1 =>
       \/ msg_length' = msg_length + 1
       \/ msg_length' = msg_length /\ LineEnd' > LineEnd]_vars

\* Whatever arrives, the parser is back at the start of a frame again and again.
Resynchronises == []<>(parse = "nullptr" \/ state = "sempFirstByte" \/ msg_length = 1)

=============================================================================
