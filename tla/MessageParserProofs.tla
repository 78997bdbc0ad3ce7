-------------------------- MODULE MessageParserProofs --------------------------
(***************************************************************************)
(* Theorems about MessageParser, for every parser table, every buffer size *)
(* and every stream of bytes.  They all rest on the inductive invariant    *)
(* Inv of ParserInvariant; that one call of a handler preserves it is      *)
(* proved in BinaryProofs and TextProofs.                                  *)
(***************************************************************************)
EXTENDS BinaryProofs, TextProofs, ParserFraming

\* How long a prover may take for one leaf.
USE SMTT(30), ZenonT(30)

USE DEF SEMP_MINIMUM_BUFFER_LENGTH, Unset, Mismatch, SEMP_SENTENCE_NAME_BYTES

\* A call of sempBeginParser that fails leaves everything as it was.
LEMMA Unchanged ==
  ASSUME Inv, UNCHANGED vars
  PROVE  Inv'
<1>1. StructureType' /\ out' \in Callbacks
  BY DEF Inv, TypeOK, StructureType, vars
<1>2. FrameInv'
  BY DEF Inv, FrameInv, vars, CustomInv, UnicoreBinaryInv, RtcmInv, UbloxInv, NmeaInv,
         UnicoreHashInv, Active, Undeclared, AtMost, Counting, Closing, Sentence, Naming,
         NmeaTail, UnicoreHashTail
<1>3. CallbackInv'
  BY DEF Inv, CallbackInv, vars, DeliveredNow, TwoDigitHash, Footprint, CheckCoversFrame,
         Unchecked
<1>. QED BY <1>1, <1>2, <1>3 DEF Inv, TypeOK

\* The structure that sempBeginParser hands out after its memset, and the cleared
\* pointer that sempStopParser leaves, satisfy the invariant.
LEMMA FreshInv ==
  ASSUME Fresh, buffer_length' \in uint16_t, parse' \in {"nullptr", "allocated"},
         parse' # "nullptr" => buffer_length' >= 256
  PROVE  Inv'
<1>1. StructureType'
  BY StateSets, Widths, Uint16, RegisterType, ScratchType, TableLength DEF Fresh, StructureType
<1>2. out' \in Callbacks /\ CallbackInv'
  BY Quiet DEF Fresh
<1>3. state' = "sempFirstByte" /\ scratchPad'.sentenceNameLength = 0
  BY DEF Fresh, ScratchZero
<1>4. FrameInv'
  BY <1>3, StateSets DEF FrameInv
<1>. QED BY <1>1, <1>2, <1>4 DEF Inv, TypeOK

\* sempBeginParser, whether it succeeds or not, and whatever size is asked for.
LEMMA BeginStep ==
  ASSUME Inv, NEW request \in BufferRequests, NEW valid \in BOOLEAN, NEW allocated \in BOOLEAN,
         sempBeginParser(request, valid, allocated)
  PROVE  Inv'
<1>1. CASE UNCHANGED vars
  BY <1>1, Unchanged
<1>2. CASE parse' = "allocated" /\ buffer_length' = sempAllocateParseStructure(request) /\ Fresh
  <2>1. request \in Int /\ 0 <= request /\ request < UINT16
    BY RequestAssumption, Uint16
  <2>2. buffer_length' \in uint16_t /\ buffer_length' >= 256
    BY <1>2, <2>1, Widths, Uint16 DEF sempAllocateParseStructure
  <2>. QED BY <1>2, <2>2, FreshInv
<1>. QED BY <1>1, <1>2 DEF sempBeginParser

\* One call of sempParseNextByte: a byte that finds the buffer full, a byte
\* between frames, or a byte for one of the six protocols' routines.
LEMMA ByteStep ==
  ASSUME Inv, sempParseNextByte
  PROVE  Inv'
<1>1. CASE \E data \in Bytes : parse # "nullptr" /\ Restart(data)
  BY <1>1, Restarted
<1>. QED BY <1>1, CustomStep, NmeaStep, RtcmStep, UbloxStep, UnicoreBinaryStep, UnicoreHashStep
         DEF sempParseNextByte, Called

\* Every operation of the interface preserves the invariant.
LEMMA NextInv ==
  ASSUME Inv, [Next]_vars
  PROVE  Inv'
<1>1. CASE UNCHANGED vars
  BY <1>1, Unchanged
<1>2. CASE sempStopParser
  BY <1>2, FreshInv, Widths, Uint16 DEF sempStopParser
<1>. QED BY <1>1, <1>2, BeginStep, ByteStep DEF Next

\* Each routine finds the frame, the scratch pad and the check register as the
\* routine before it left them, before every byte of every stream.
THEOREM InvariantHolds == Spec => []Inv
<1>1. Init => Inv
  BY InitInv
<1>2. Inv /\ [Next]_vars => Inv'
  BY NextInv
<1>. QED BY <1>1, <1>2, PTL DEF Spec

\* No field of the parse structure leaves its C type.
THEOREM TypeCorrect == Spec => []TypeOK
<1>1. Inv => TypeOK
  BY DEF Inv
<1>. QED BY <1>1, InvariantHolds, PTL

\* Nothing is stored outside the buffer or the name array, and what is handed to
\* the application (two-digit hash sentences apart) lies in the buffer.
THEOREM FramesFit == Spec => []FrameInBuffer
<1>1. Inv => FrameInBuffer
  BY DEF Inv, FrameInv, CallbackInv, FrameInBuffer
<1>. QED BY <1>1, InvariantHolds, PTL

\* A frame accepted on its check was checked over exactly the protected bytes.
THEOREM ChecksCover == Spec => []CheckCoversFrame
<1>1. Inv => CheckCoversFrame
  BY DEF Inv, CallbackInv
<1>. QED BY <1>1, InvariantHolds, PTL


\* The parser number passed to eomCallback is that of the routine that parsed the
\* frame, and the active routine runs with its own protocol's CRC routine.
THEOREM TypeIsRight == Spec => []TypeNamesParser
<1>1. ASSUME Inv, NEW p \in Protocols, state \in StatesOf(p)
      PROVE  Active(p) /\ computeCrc = Preamble(p).computeCrc
  <2>1. FrameInv
    BY <1>1 DEF Inv
  <2>2. CASE p = "Custom"
    BY <1>1, <2>1, <2>2 DEF StatesOf, FrameInv, CustomInv, Preamble, sempCustomPreamble
  <2>3. CASE p = "NMEA"
    BY <1>1, <2>1, <2>3 DEF StatesOf, FrameInv, NmeaInv, Sentence, Preamble, sempNmeaPreamble
  <2>4. CASE p = "RTCM"
    BY <1>1, <2>1, <2>4 DEF StatesOf, FrameInv, RtcmInv, Preamble, sempRtcmPreamble
  <2>5. CASE p = "UBLOX"
    BY <1>1, <2>1, <2>5 DEF StatesOf, FrameInv, UbloxInv, Preamble, sempUbloxPreamble
  <2>6. CASE p = "UnicoreBinary"
    BY <1>1, <2>1, <2>6
       DEF StatesOf, FrameInv, UnicoreBinaryInv, Preamble, sempUnicoreBinaryPreamble
  <2>7. CASE p = "UnicoreHash"
    BY <1>1, <2>1, <2>7
       DEF StatesOf, FrameInv, UnicoreHashInv, Sentence, Preamble, sempUnicoreHashPreamble
  <2>. QED BY <2>2, <2>3, <2>4, <2>5, <2>6, <2>7 DEF Protocols
<1>2. Inv => TypeNamesParser
  BY <1>1 DEF TypeNamesParser, Active, Inv, CallbackInv
<1>. QED BY <1>2, InvariantHolds, PTL

\* No routine reads a scratch-pad field left over from another protocol's frame.
THEOREM ScratchPadsWritten == Spec => []ScratchPadWritten
<1>1. ASSUME Inv PROVE ScratchPadWritten
  <2>1. FrameInv /\ state \in Routines
    BY <1>1 DEF Inv, TypeOK, StructureType
  <2>2. CASE state = "sempFirstByte"
    BY <2>2 DEF ScratchPadWritten, Reads
  <2>3. CASE state \in CustomStates
    BY <2>1, <2>3 DEF FrameInv, CustomInv, CustomStates, Counting, Closing, ScratchPadWritten, Reads
  <2>4. CASE state \in NmeaStates
    BY <2>1, <2>4 DEF FrameInv, NmeaInv, NmeaStates, Naming, ScratchPadWritten, Reads
  <2>5. CASE state \in RtcmStates
    BY <2>1, <2>5 DEF FrameInv, RtcmInv, RtcmStates, Counting, Closing, ScratchPadWritten, Reads
  <2>6. CASE state \in UbloxStates
    <3>1. UbloxInv /\ msg_length \in Int /\ declared \in Int /\ -1 <= declared
      BY <1>1, <2>1, <2>6, Uint16 DEF FrameInv, Inv, TypeOK, StructureType
    <3>2. CASE state \in {"sempUbloxSync2", "sempUbloxClass"}
      BY <3>2 DEF ScratchPadWritten, Reads
    <3>3. CASE state \in {"sempUbloxId", "sempUbloxLength1"}
      <4>1. scratchPad.ck # -1
        BY <3>1, <3>3 DEF UbloxInv
      <4>. QED BY <3>3, <4>1 DEF ScratchPadWritten, Reads
    <3>4. CASE state = "sempUbloxLength2"
      <4>1. scratchPad.ck # -1 /\ scratchPad.bytesRemaining # -1
        BY <3>1, <3>4, Uint8 DEF UbloxInv
      <4>. QED BY <3>4, <4>1 DEF ScratchPadWritten, Reads
    <3>5. CASE state = "sempUbloxPayload"
      <4>1. scratchPad.ck # -1 /\ scratchPad.bytesRemaining # -1
        BY <3>1, <3>5 DEF UbloxInv
      <4>. QED BY <3>5, <4>1 DEF ScratchPadWritten, Reads
    <3>6. CASE state = "sempUbloxCkB"
      <4>1. scratchPad.ck # -1
        BY <3>1, <3>6 DEF UbloxInv
      <4>. QED BY <3>6, <4>1 DEF ScratchPadWritten, Reads
    <3>. QED BY <2>6, <3>2, <3>3, <3>4, <3>5, <3>6 DEF UbloxStates
  <2>7. CASE state \in UnicoreBinaryStates
    BY <2>1, <2>7 DEF FrameInv, UnicoreBinaryInv, UnicoreBinaryStates, Counting, Closing,
                      ScratchPadWritten, Reads
  <2>8. CASE state \in UnicoreHashStates
    BY <2>1, <2>8 DEF FrameInv, UnicoreHashInv, UnicoreHashStates, Naming, ScratchPadWritten, Reads
  <2>. QED BY <2>1, <2>2, <2>3, <2>4, <2>5, <2>6, <2>7, <2>8 DEF Routines
<1>. QED BY <1>1, InvariantHolds, PTL

\* The counters of the invariant reach zero at the end that the length field names.
LEMMA EndsWhereDeclared == Inv => FrameEndsWhereDeclared
<1>1. ASSUME Inv, NEW p \in BinaryProtocols, declared >= Shortest(p), state \in StatesOf(p)
      PROVE  msg_length < Envelope(p) + declared
  <2>1. /\ FrameInv /\ msg_length \in Int /\ declared \in Int /\ -1 <= declared
        /\ scratchPad.bytesRemaining \in Int /\ -1 <= scratchPad.bytesRemaining
    BY <1>1, Uint16, ScratchFields DEF Inv, TypeOK, StructureType
  <2>2. CASE p = "Custom"
    BY <1>1, <2>1, <2>2 DEF StatesOf, Shortest, Envelope, FrameInv, CustomInv, CustomStates,
                            Counting, Closing, Undeclared
  <2>3. CASE p = "UnicoreBinary"
    BY <1>1, <2>1, <2>3 DEF StatesOf, Shortest, Envelope, FrameInv, UnicoreBinaryInv,
                            UnicoreBinaryStates, Counting, Closing, Undeclared
  <2>4. CASE p = "RTCM"
    BY <1>1, <2>1, <2>4 DEF StatesOf, Shortest, Envelope, FrameInv, RtcmInv, RtcmStates,
                            Counting, Closing, Undeclared
  <2>5. CASE p = "UBLOX"
    <3>1. declared >= 0 /\ state \in UbloxStates /\ Envelope(p) = 8
      BY <1>1, <2>5 DEF Shortest, StatesOf, Envelope
    <3>2. UbloxInv
      BY <2>1, <3>1 DEF FrameInv
    <3>3. state \in {"sempUbloxPayload", "sempUbloxCkB"}
      BY <3>1, <3>2 DEF UbloxInv, Undeclared
    <3>4. CASE state = "sempUbloxPayload"
      BY <2>1, <3>1, <3>2, <3>4 DEF UbloxInv
    <3>5. CASE state = "sempUbloxCkB"
      BY <2>1, <3>1, <3>2, <3>5 DEF UbloxInv
    <3>. QED BY <3>3, <3>4, <3>5
  <2>. QED BY <2>2, <2>3, <2>4, <2>5 DEF BinaryProtocols
<1>. QED BY <1>1 DEF FrameEndsWhereDeclared, NotPastEnd, Inv, CallbackInv

\* A binary frame is judged exactly where its length field says it ends, and takes
\* in no later byte.
THEOREM FramesEnd == Spec => []FrameEndsWhereDeclared
  BY EndsWhereDeclared, InvariantHolds, PTL

\* A call inside a frame ends it, starts another or advances it: what the handlers
\* of the binary protocols do to the length of the frame.
LEMMA BinaryAdvances ==
  ASSUME CustomHandler \/ RtcmHandler \/ UbloxHandler \/ UnicoreBinaryHandler
  PROVE  state' = "sempFirstByte" \/ msg_length' = 1 \/ msg_length' = msg_length + 1
<1>1. CASE CustomHandler
  BY <1>1 DEF CustomHandler, sempCustomSync2, sempCustomSync3, sempCustomReadHeader,
              sempCustomReadData, sempCustomReadCrc, Continue, Restart, sempFirstByte, Finish
<1>2. CASE RtcmHandler
  BY <1>2 DEF RtcmHandler, sempRtcmReadLength1, sempRtcmReadLength2, sempRtcmReadMessage1,
              sempRtcmReadMessage2, sempRtcmReadData, sempRtcmReadCrc, CountMessageByte,
              Continue, Restart, sempFirstByte, Finish
<1>3. CASE UbloxHandler
  <2>1. CASE \E match, overruled \in BOOLEAN : sempUbloxCkB(match, overruled)
    BY <2>1, ZenonT(30) DEF sempUbloxCkB, Finish
  <2>2. CASE \E match \in BOOLEAN : sempUbloxPayload(match)
    BY <2>2, ZenonT(30) DEF sempUbloxPayload, Continue
  <2>3. CASE \E data \in Bytes :
               sempUbloxSync2(data) \/ sempUbloxLength1(data) \/ sempUbloxLength2(data)
    BY <2>3, ZenonT(30) DEF sempUbloxSync2, sempUbloxLength1, sempUbloxLength2,
                       Continue, Restart, sempFirstByte
  <2>. QED BY <1>3, <2>1, <2>2, <2>3, ZenonT(30) DEF UbloxHandler, sempUbloxClass, sempUbloxId, Continue
<1>4. CASE UnicoreBinaryHandler
  BY <1>4, ZenonT(30) DEF UnicoreBinaryHandler, sempUnicoreBinarySync2, sempUnicoreBinarySync3,
              sempUnicoreBinaryReadHeader, sempUnicoreBinaryReadData, sempUnicoreBinaryReadCrc,
              Continue, Restart, sempFirstByte, Finish
<1>. QED BY <1>1, <1>2, <1>3, <1>4

\* The same for the line protocols, whose line-end routines do not lengthen the frame.
LEMMA TextAdvances ==
  ASSUME NmeaHandler \/ UnicoreHashHandler
  PROVE  \/ state' = "sempFirstByte" \/ msg_length' = 1 \/ msg_length' = msg_length + 1
         \/ msg_length' = msg_length /\ LineEnd' > LineEnd
<1>1. ASSUME NEW from \in {"sempNmeaLineTermination", "sempUnicoreHashLineTermination"},
             state = from,
             NEW to \in {"sempNmeaLineFeed", "sempNmeaCarriageReturn",
                        "sempUnicoreHashLineFeed", "sempUnicoreHashCarriageReturn"},
             AwaitLineEnd(to)
      PROVE  msg_length' = msg_length /\ LineEnd' > LineEnd
  <2>1. LineEnd = 1
    BY <1>1 DEF LineEnd
  <2>2. LineEnd' = 2 /\ msg_length' = msg_length
    BY <1>1 DEF LineEnd, AwaitLineEnd
  <2>. QED BY <2>1, <2>2
<1>2. CASE NmeaHandler
  <2>1. PICK data \in Bytes :
          \/ sempNmeaFindFirstComma(data) \/ sempNmeaFindAsterisk(data)
          \/ \E match \in BOOLEAN : \/ sempNmeaChecksumByte1(data, match)
                                    \/ sempNmeaChecksumByte2(data, match)
          \/ \E overruled \in BOOLEAN : \/ sempNmeaLineTermination(data, overruled)
                                        \/ sempNmeaLineFeed(data, overruled)
                                        \/ sempNmeaCarriageReturn(data, overruled)
    BY <1>2 DEF NmeaHandler
  <2>2. CASE \E overruled \in BOOLEAN : sempNmeaLineTermination(data, overruled)
    BY <1>1, <2>2 DEF sempNmeaLineTermination, Called, sempFirstByte
  <2>. QED BY <2>1, <2>2 DEF sempNmeaFindFirstComma, sempNmeaFindAsterisk, sempNmeaChecksumByte1,
         sempNmeaChecksumByte2, sempNmeaLineFeed, sempNmeaCarriageReturn,
         Continue, Restart, sempFirstByte, FinishLine, Finish
<1>3. CASE UnicoreHashHandler
  <2>1. PICK data \in Bytes :
          \/ sempUnicoreHashFindFirstComma(data) \/ sempUnicoreHashFindAsterisk(data)
          \/ \E match \in BOOLEAN : sempUnicoreHashChecksumByte(data, match)
          \/ \E overruled \in BOOLEAN : \/ sempUnicoreHashLineTermination(data, overruled)
                                        \/ sempUnicoreHashLineFeed(data, overruled)
                                        \/ sempUnicoreHashCarriageReturn(data, overruled)
    BY <1>3 DEF UnicoreHashHandler
  <2>2. CASE \E overruled \in BOOLEAN : sempUnicoreHashLineTermination(data, overruled)
    BY <1>1, <2>2 DEF sempUnicoreHashLineTermination, Called, sempFirstByte
  <2>. QED BY <2>1, <2>2 DEF sempUnicoreHashFindFirstComma, sempUnicoreHashFindAsterisk,
         sempUnicoreHashChecksumByte, sempUnicoreHashLineFeed, sempUnicoreHashCarriageReturn,
         Continue, Restart, sempFirstByte, FinishLine, Finish
<1>. QED BY <1>2, <1>3

\* No byte is ever consumed without progress: the frame ends, is replaced by a new
\* one, grows, or its line end proceeds.
THEOREM FramesAdvance == Spec => FrameAdvances
<1>1. ASSUME [Next]_vars, ~UNCHANGED vars,
             parse' # "nullptr", state' # "sempFirstByte", msg_length' # 1
      PROVE  \/ msg_length' = msg_length + 1
             \/ msg_length' = msg_length /\ LineEnd' > LineEnd
  <2>1. CASE sempParseNextByte
    BY <1>1, <2>1, BinaryAdvances, TextAdvances
       DEF sempParseNextByte, Restart, sempFirstByte
  <2>2. CASE sempStopParser
    BY <1>1, <2>2 DEF sempStopParser
  <2>3. CASE \E request \in BufferRequests, valid, allocated \in BOOLEAN :
               sempBeginParser(request, valid, allocated)
    BY <1>1, <2>3 DEF sempBeginParser, Fresh
  <2>. QED BY <1>1, <2>1, <2>2, <2>3 DEF Next
<1>2. [Next]_vars =>
        [parse' # "nullptr" /\ state' # "sempFirstByte" /\ msg_length' # 1 =>
           \/ msg_length' = msg_length + 1
           \/ msg_length' = msg_length /\ LineEnd' > LineEnd]_vars
  BY <1>1
<1>. QED BY <1>2, PTL DEF Spec, FrameAdvances

-----------------------------------------------------------------------------
(* The binary protocols implement LengthFramer.                            *)

\* What a call of one of protocol p's routines does to the frame: it grows by the
\* byte, with the length field read once, when the header is complete;
FrameGrows(p) ==
  /\ state' \in StatesOf(p) /\ out' = Silent
  /\ msg_length' = msg_length + 1
  /\ \/ declared' = declared
     \/ declared = Unset /\ msg_length + 1 = HeaderOf(p) /\ declared' \in LengthsOf(p)

\* it is judged;
FrameCloses(p) ==
  /\ state' = "sempFirstByte"
  /\ out'.proto = p /\ out'.len = msg_length + 1 /\ out'.declared = declared
  /\ declared >= Shortest(p)

\* or its header turns out to be none.
FrameDropped == declared = Unset /\ \E data \in Bytes : Restart(data)

BinaryCall(p) ==
  /\ state \in StatesOf(p) /\ buffer_length' = buffer_length
  /\ FrameGrows(p) \/ FrameCloses(p) \/ FrameDropped

\* A call of one of the routines of a line protocol.
TextCall(p) ==
  /\ state \in StatesOf(p) /\ buffer_length' = buffer_length
  /\ out'.proto \in {"none", p}
  /\ (\E data \in Bytes : sempFirstByte(data)) \/ state' \in StatesOf(p) \cup {"sempFirstByte"}

\* The header sizes, and the shortest and the longest lengths.
LEMMA Layouts ==
  /\ HeaderOf("Custom") = 20 /\ TrailerOf("Custom") = 4
  /\ HeaderOf("UnicoreBinary") = 24 /\ TrailerOf("UnicoreBinary") = 4
  /\ HeaderOf("RTCM") = 3 /\ TrailerOf("RTCM") = 3
  /\ HeaderOf("UBLOX") = 6 /\ TrailerOf("UBLOX") = 2
  /\ LengthsOf("Custom") = MessageLengths /\ LengthsOf("UnicoreBinary") = MessageLengths
  /\ LengthsOf("RTCM") = 0 .. 1023 /\ LengthsOf("UBLOX") = uint16_t
  /\ Shortest("Custom") = 1 /\ Shortest("UnicoreBinary") = 1
  /\ Shortest("RTCM") = 3 /\ Shortest("UBLOX") = 0
  /\ Envelope("Custom") = 24 /\ Envelope("UnicoreBinary") = 28
  /\ Envelope("RTCM") = 6 /\ Envelope("UBLOX") = 8
  BY DEF HeaderOf, TrailerOf, LengthsOf, Shortest, Envelope

\* Parse_Custom.c.
LEMMA CustomCalls == ASSUME Inv, CustomHandler PROVE BinaryCall("Custom")
<1>0. StatesOf("Custom") = CustomStates
  BY DEF StatesOf
<1>1. ASSUME NEW data \in Bytes, sempCustomSync2(data) \/ sempCustomSync3(data)
      PROVE  BinaryCall("Custom")
  <2>1. state \in CustomStates /\ CustomInv /\ declared = Unset
    BY <1>1 DEF sempCustomSync2, sempCustomSync3, Called, CustomStates, Inv, FrameInv,
                CustomInv, Undeclared
  <2>. QED BY <1>0, <1>1, <2>1 DEF BinaryCall, FrameGrows, FrameDropped, sempCustomSync2,
                sempCustomSync3, Restart, sempFirstByte, Continue, fields, instance, CustomStates
<1>2. CASE sempCustomReadHeader
  <2>1. state \in CustomStates /\ CustomInv /\ msg_length \in Int
    BY <1>2, Uint16 DEF sempCustomReadHeader, Called, CustomStates, Inv, FrameInv, TypeOK, StructureType
  <2>2. declared = Unset /\ msg_length <= 19
    BY <1>2, <2>1 DEF sempCustomReadHeader, Called, CustomInv, Undeclared
  <2>. QED BY <1>0, <1>2, <2>1, <2>2, Layouts DEF BinaryCall, FrameGrows, sempCustomReadHeader,
                SEMP_CUSTOM_HEADER, Continue, instance, CustomStates
<1>3. CASE sempCustomReadData
  BY <1>0, <1>3 DEF BinaryCall, FrameGrows, sempCustomReadData, Called, Continue, instance,
                CustomStates
<1>4. ASSUME NEW match \in BOOLEAN, NEW overruled \in BOOLEAN, sempCustomReadCrc(match, overruled)
      PROVE  BinaryCall("Custom")
  <2>1. state \in CustomStates /\ CustomInv
    BY <1>4 DEF sempCustomReadCrc, Called, CustomStates, Inv, FrameInv
  <2>2. declared >= 1
    BY <1>4, <2>1 DEF sempCustomReadCrc, Called, CustomInv, Closing
  <2>. QED BY <1>0, <1>4, <2>1, <2>2, Layouts DEF BinaryCall, FrameGrows, FrameCloses,
                sempCustomReadCrc, Continue, Finish, Verdict, instance, CustomStates
<1>. QED BY <1>1, <1>2, <1>3, <1>4 DEF CustomHandler

\* Parse_Unicore_Binary.c.
LEMMA UnicoreBinaryCalls == ASSUME Inv, UnicoreBinaryHandler PROVE BinaryCall("UnicoreBinary")
<1>0. StatesOf("UnicoreBinary") = UnicoreBinaryStates
  BY DEF StatesOf
<1>1. ASSUME NEW data \in Bytes, sempUnicoreBinarySync2(data) \/ sempUnicoreBinarySync3(data)
      PROVE  BinaryCall("UnicoreBinary")
  <2>1. state \in UnicoreBinaryStates /\ UnicoreBinaryInv /\ declared = Unset
    BY <1>1 DEF sempUnicoreBinarySync2, sempUnicoreBinarySync3, Called,
                UnicoreBinaryStates, Inv, FrameInv,
                UnicoreBinaryInv, Undeclared
  <2>. QED BY <1>0, <1>1, <2>1 DEF BinaryCall, FrameGrows, FrameDropped, sempUnicoreBinarySync2,
                sempUnicoreBinarySync3, Restart, sempFirstByte, Continue, fields, instance,
                UnicoreBinaryStates
<1>2. CASE sempUnicoreBinaryReadHeader
  <2>1. state \in UnicoreBinaryStates /\ UnicoreBinaryInv /\ msg_length \in Int
    BY <1>2, Uint16
       DEF sempUnicoreBinaryReadHeader, Called, UnicoreBinaryStates, Inv, FrameInv, TypeOK, StructureType
  <2>2. declared = Unset /\ msg_length <= 23
    BY <1>2, <2>1 DEF sempUnicoreBinaryReadHeader, Called, UnicoreBinaryInv, Undeclared
  <2>. QED BY <1>0, <1>2, <2>1, <2>2, Layouts DEF BinaryCall, FrameGrows,
                sempUnicoreBinaryReadHeader,
                SEMP_UNICORE_HEADER, Continue, instance, UnicoreBinaryStates
<1>3. CASE sempUnicoreBinaryReadData
  BY <1>0, <1>3 DEF BinaryCall, FrameGrows, sempUnicoreBinaryReadData, Called, Continue, instance,
                UnicoreBinaryStates
<1>4. ASSUME NEW match \in BOOLEAN, NEW zero \in BOOLEAN, NEW overruled \in BOOLEAN,
             sempUnicoreBinaryReadCrc(match, zero, overruled)
      PROVE  BinaryCall("UnicoreBinary")
  <2>1. state \in UnicoreBinaryStates /\ UnicoreBinaryInv
    BY <1>4 DEF sempUnicoreBinaryReadCrc, Called, UnicoreBinaryStates, Inv, FrameInv
  <2>2. declared >= 1
    BY <1>4, <2>1 DEF sempUnicoreBinaryReadCrc, Called, UnicoreBinaryInv, Closing
  <2>. QED BY <1>0, <1>4, <2>1, <2>2, Layouts DEF BinaryCall, FrameGrows, FrameCloses,
                sempUnicoreBinaryReadCrc, Continue, Finish, Verdict, instance, UnicoreBinaryStates
<1>. QED BY <1>1, <1>2, <1>3, <1>4 DEF UnicoreBinaryHandler

\* Parse_RTCM.c: the length field is complete with the third byte.
LEMMA RtcmCalls == ASSUME Inv, RtcmHandler PROVE BinaryCall("RTCM")
<1>0. StatesOf("RTCM") = RtcmStates
  BY DEF StatesOf
<1>1. ASSUME NEW data \in Bytes, sempRtcmReadLength1(data)
      PROVE  BinaryCall("RTCM")
  <2>1. state \in RtcmStates /\ RtcmInv /\ declared = Unset
    BY <1>1 DEF sempRtcmReadLength1, Called, RtcmStates, Inv, FrameInv, RtcmInv, Undeclared
  <2>. QED BY <1>0, <1>1, <2>1 DEF BinaryCall, FrameGrows, FrameDropped, sempRtcmReadLength1,
                Restart, sempFirstByte, Continue, instance, RtcmStates
<1>2. ASSUME NEW data \in Bytes, sempRtcmReadLength2(data)
      PROVE  BinaryCall("RTCM")
  <2>1. state \in RtcmStates /\ RtcmInv /\ data \in Int /\ 0 <= data /\ data < 256
    BY <1>2, BytesAssumption, Uint8 DEF sempRtcmReadLength2, Called, RtcmStates, Inv, FrameInv
  <2>2. /\ declared = Unset /\ msg_length = 2
        /\ scratchPad.bytesRemaining >= 0 /\ scratchPad.bytesRemaining <= 768
    BY <1>2, <2>1 DEF sempRtcmReadLength2, Called, RtcmInv, Undeclared
  <2>3. scratchPad.bytesRemaining \in Int
    BY ScratchFields DEF Inv, TypeOK, StructureType
  <2>4. declared' \in 0 .. 1023
    <3>1. declared' = scratchPad.bytesRemaining + data
      BY <1>2 DEF sempRtcmReadLength2
    <3>2. PICK n \in Int : n = scratchPad.bytesRemaining
      BY <2>3
    <3>3. 0 <= n /\ n <= 768
      BY <2>2, <3>2
    <3>4. data \in Int /\ 0 <= data /\ data < 256
      BY <2>1
    <3>5. n + data \in 0 .. 1023
      BY <3>3, <3>4
    <3>. QED BY ZenonT(30), <3>1, <3>2, <3>5
  <2>5. /\ state' = "sempRtcmReadMessage1" /\ out' = Silent
        /\ msg_length' = msg_length + 1 /\ buffer_length' = buffer_length
    BY <1>2 DEF sempRtcmReadLength2, Continue, instance
  <2>6. state \in StatesOf("RTCM") /\ "sempRtcmReadMessage1" \in StatesOf("RTCM")
    BY <1>0, <2>1 DEF RtcmStates
  <2>7. msg_length + 1 = HeaderOf("RTCM") /\ declared' \in LengthsOf("RTCM")
    BY <2>2, <2>4, Layouts
  <2>. QED BY <2>2, <2>5, <2>6, <2>7 DEF BinaryCall, FrameGrows
<1>3. CASE sempRtcmReadMessage1 \/ sempRtcmReadMessage2 \/ sempRtcmReadData
  BY <1>0, <1>3 DEF BinaryCall, FrameGrows, sempRtcmReadMessage1, sempRtcmReadMessage2,
                sempRtcmReadData, CountMessageByte, Called, Continue, instance, RtcmStates
<1>4. ASSUME NEW match \in BOOLEAN, NEW overruled \in BOOLEAN, sempRtcmReadCrc(match, overruled)
      PROVE  BinaryCall("RTCM")
  <2>1. state \in RtcmStates /\ RtcmInv
    BY <1>4 DEF sempRtcmReadCrc, Called, RtcmStates, Inv, FrameInv
  <2>2. declared >= 3
    BY <1>4, <2>1 DEF sempRtcmReadCrc, Called, RtcmInv, Closing
  <2>. QED BY <1>0, <1>4, <2>1, <2>2, Layouts DEF BinaryCall, FrameGrows, FrameCloses,
                sempRtcmReadCrc, Continue, Finish, Verdict, instance, RtcmStates
<1>. QED BY <1>1, <1>2, <1>3, <1>4 DEF RtcmHandler

\* Parse_UBLOX.c: the length field is complete with the sixth byte.
LEMMA UbloxCalls == ASSUME Inv, UbloxHandler PROVE BinaryCall("UBLOX")
<1>0. StatesOf("UBLOX") = UbloxStates
  BY DEF StatesOf
<1>1. ASSUME NEW data \in Bytes, sempUbloxSync2(data)
      PROVE  BinaryCall("UBLOX")
  <2>1. state \in UbloxStates /\ UbloxInv /\ declared = Unset
    BY <1>1 DEF sempUbloxSync2, Called, UbloxStates, Inv, FrameInv, UbloxInv, Undeclared
  <2>. QED BY <1>0, <1>1, <2>1 DEF BinaryCall, FrameGrows, FrameDropped, sempUbloxSync2,
                Restart, sempFirstByte, Continue, fields, instance, UbloxStates
<1>2. ASSUME NEW data \in Bytes, sempUbloxLength1(data)
      PROVE  BinaryCall("UBLOX")
  BY <1>0, <1>2 DEF BinaryCall, FrameGrows, sempUbloxLength1, Called, Continue, instance, UbloxStates
<1>3. CASE sempUbloxClass \/ sempUbloxId
  BY <1>0, <1>3 DEF BinaryCall, FrameGrows, sempUbloxClass, sempUbloxId,
                Called, Continue, instance, UbloxStates
<1>4. ASSUME NEW data \in Bytes, sempUbloxLength2(data)
      PROVE  BinaryCall("UBLOX")
  <2>1. state \in UbloxStates /\ UbloxInv /\ data \in Int /\ 0 <= data /\ data < 256
    BY <1>4, BytesAssumption, Uint8 DEF sempUbloxLength2, Called, UbloxStates, Inv, FrameInv
  <2>2. /\ declared = Unset /\ msg_length = 5
        /\ scratchPad.bytesRemaining \in uint8_t
    BY <1>4, <2>1 DEF sempUbloxLength2, Called, UbloxInv, Undeclared
  <2>3. scratchPad.bytesRemaining \in Int
        /\ 0 <= scratchPad.bytesRemaining /\ scratchPad.bytesRemaining < 256
    BY <2>2, Uint8
  <2>4. declared' \in uint16_t
    BY <1>4, <2>1, <2>3, Uint16 DEF sempUbloxLength2, UINT16
  <2>. QED BY <1>0, <1>4, <2>1, <2>2, <2>4, Layouts DEF BinaryCall, FrameGrows,
                sempUbloxLength2, Continue, instance, UbloxStates
<1>5. ASSUME NEW match \in BOOLEAN, sempUbloxPayload(match)
      PROVE  BinaryCall("UBLOX")
  BY <1>0, <1>5 DEF BinaryCall, FrameGrows, sempUbloxPayload, Called, Continue, instance, UbloxStates
<1>6. ASSUME NEW match \in BOOLEAN, NEW overruled \in BOOLEAN, sempUbloxCkB(match, overruled)
      PROVE  BinaryCall("UBLOX")
  <2>1. state \in UbloxStates /\ UbloxInv
    BY <1>6 DEF sempUbloxCkB, Called, UbloxStates, Inv, FrameInv
  <2>2. declared >= 0
    BY <1>6, <2>1, Uint16 DEF sempUbloxCkB, Called, UbloxInv, Inv, TypeOK, StructureType
  <2>. QED BY <1>0, <1>6, <2>1, <2>2, Layouts DEF BinaryCall, FrameCloses,
                sempUbloxCkB, Finish, Verdict, instance, UbloxStates
<1>. QED BY <1>1, <1>2, <1>3, <1>4, <1>5, <1>6 DEF UbloxHandler

\* A verdict on a sentence names its own protocol.
LEMMA SentenceVerdicts ==
  ASSUME NEW overruled \in BOOLEAN
  PROVE  /\ sempNmeaValidateChecksum(overruled).proto = "NMEA"
         /\ sempUnicoreHashValidateChecksum(overruled).proto = "UnicoreHash"
         /\ Silent.proto = "none"
  BY DEF sempNmeaValidateChecksum, sempUnicoreHashValidateChecksum, sempUnicoreHashValidateCrc,
         Verdict, Silent

\* Parse_NMEA.c: no routine selects a routine of another protocol, except through
\* sempFirstByte.
LEMMA NmeaCalls == ASSUME NmeaHandler PROVE TextCall("NMEA")
<1>0. StatesOf("NMEA") = NmeaStates
  BY DEF StatesOf
<1>1. PICK data \in Bytes :
        \/ sempNmeaFindFirstComma(data) \/ sempNmeaFindAsterisk(data)
        \/ \E match \in BOOLEAN : \/ sempNmeaChecksumByte1(data, match)
                                  \/ sempNmeaChecksumByte2(data, match)
        \/ \E overruled \in BOOLEAN : \/ sempNmeaLineTermination(data, overruled)
                                      \/ sempNmeaLineFeed(data, overruled)
                                      \/ sempNmeaCarriageReturn(data, overruled)
  BY DEF NmeaHandler
<1>2. CASE sempNmeaFindFirstComma(data) \/ sempNmeaFindAsterisk(data)
  BY ZenonT(30), <1>0, <1>2, SentenceVerdicts
     DEF TextCall, sempNmeaFindFirstComma, sempNmeaFindAsterisk, Called, Continue, Restart,
         sempFirstByte, instance, NmeaStates
<1>3. ASSUME NEW match \in BOOLEAN,
             sempNmeaChecksumByte1(data, match) \/ sempNmeaChecksumByte2(data, match)
      PROVE  TextCall("NMEA")
  BY <1>0, <1>3, SentenceVerdicts
     DEF TextCall, sempNmeaChecksumByte1, sempNmeaChecksumByte2, Called, Continue, Restart,
         sempFirstByte, instance, NmeaStates
<1>4. ASSUME NEW overruled \in BOOLEAN,
             \/ sempNmeaLineTermination(data, overruled)
             \/ sempNmeaLineFeed(data, overruled)
             \/ sempNmeaCarriageReturn(data, overruled)
      PROVE  TextCall("NMEA")
  BY <1>0, <1>4, SentenceVerdicts
     DEF TextCall, sempNmeaLineTermination, sempNmeaLineFeed, sempNmeaCarriageReturn, Called,
         AwaitLineEnd, FinishLine, Finish, sempFirstByte, instance, NmeaStates
<1>. QED BY <1>1, <1>2, <1>3, <1>4

\* The same for Parse_Unicore_Hash.c.
LEMMA UnicoreHashCalls == ASSUME UnicoreHashHandler PROVE TextCall("UnicoreHash")
<1>0. StatesOf("UnicoreHash") = UnicoreHashStates
  BY DEF StatesOf
<1>1. PICK data \in Bytes :
        \/ sempUnicoreHashFindFirstComma(data) \/ sempUnicoreHashFindAsterisk(data)
        \/ \E match \in BOOLEAN : sempUnicoreHashChecksumByte(data, match)
        \/ \E overruled \in BOOLEAN : \/ sempUnicoreHashLineTermination(data, overruled)
                                      \/ sempUnicoreHashLineFeed(data, overruled)
                                      \/ sempUnicoreHashCarriageReturn(data, overruled)
  BY DEF UnicoreHashHandler
<1>2. CASE sempUnicoreHashFindFirstComma(data) \/ sempUnicoreHashFindAsterisk(data)
  BY ZenonT(30), <1>0, <1>2, SentenceVerdicts
     DEF TextCall, sempUnicoreHashFindFirstComma, sempUnicoreHashFindAsterisk, Called, Continue,
         Restart, sempFirstByte, instance, UnicoreHashStates
<1>3. ASSUME NEW match \in BOOLEAN, sempUnicoreHashChecksumByte(data, match)
      PROVE  TextCall("UnicoreHash")
  BY <1>0, <1>3, SentenceVerdicts
     DEF TextCall, sempUnicoreHashChecksumByte, Called, Continue, Restart, sempFirstByte,
         instance, UnicoreHashStates
<1>4. ASSUME NEW overruled \in BOOLEAN,
             \/ sempUnicoreHashLineTermination(data, overruled)
             \/ sempUnicoreHashLineFeed(data, overruled)
             \/ sempUnicoreHashCarriageReturn(data, overruled)
      PROVE  TextCall("UnicoreHash")
  BY <1>0, <1>4, SentenceVerdicts
     DEF TextCall, sempUnicoreHashLineTermination, sempUnicoreHashLineFeed,
         sempUnicoreHashCarriageReturn, Called, AwaitLineEnd, FinishLine, Finish, sempFirstByte,
         instance, UnicoreHashStates
<1>. QED BY <1>1, <1>2, <1>3, <1>4

\* Until the length field is known, the frame is shorter than its header.
InHeader(p) ==
  state \in StatesOf(p) /\ declared = Unset => msg_length >= 1 /\ msg_length < HeaderOf(p)
HeadersIncomplete == \A p \in BinaryProtocols : InHeader(p)

LEMMA WithinHeader == Inv => HeadersIncomplete
<1>1. ASSUME Inv PROVE InHeader("Custom")
  <2>1. CASE state \in CustomStates /\ declared = Unset
    <3>1. CustomInv
      BY <1>1, <2>1 DEF Inv, FrameInv
    <3>2. state \in {"sempCustomSync2", "sempCustomSync3", "sempCustomReadHeader"}
      BY <2>1, <3>1 DEF CustomInv, CustomStates, Counting, Closing
    <3>3. msg_length \in Int
      BY <1>1, Uint16 DEF Inv, TypeOK, StructureType
    <3>4. msg_length >= 1 /\ msg_length <= 19
      BY <3>1, <3>2, <3>3 DEF CustomInv
    <3>. QED BY <3>3, <3>4, Layouts DEF InHeader
  <2>. QED BY <2>1 DEF InHeader, StatesOf
<1>2. ASSUME Inv PROVE InHeader("UnicoreBinary")
  <2>1. CASE state \in UnicoreBinaryStates /\ declared = Unset
    <3>1. UnicoreBinaryInv
      BY <1>2, <2>1 DEF Inv, FrameInv
    <3>2. state \in {"sempUnicoreBinarySync2", "sempUnicoreBinarySync3", "sempUnicoreBinaryReadHeader"}
      BY <2>1, <3>1 DEF UnicoreBinaryInv, UnicoreBinaryStates, Counting, Closing
    <3>3. msg_length \in Int
      BY <1>2, Uint16 DEF Inv, TypeOK, StructureType
    <3>4. msg_length >= 1 /\ msg_length <= 23
      BY <3>1, <3>2, <3>3 DEF UnicoreBinaryInv
    <3>. QED BY <3>3, <3>4, Layouts DEF InHeader
  <2>. QED BY <2>1 DEF InHeader, StatesOf
<1>3. ASSUME Inv PROVE InHeader("RTCM")
  <2>1. CASE state \in RtcmStates /\ declared = Unset
    <3>1. RtcmInv
      BY <1>3, <2>1 DEF Inv, FrameInv
    <3>2. state \in {"sempRtcmReadLength1", "sempRtcmReadLength2"}
      BY <2>1, <3>1 DEF RtcmInv, RtcmStates, Counting, Closing
    <3>3. msg_length \in {1, 2}
      BY <3>1, <3>2 DEF RtcmInv
    <3>. QED BY <3>3, Layouts DEF InHeader
  <2>. QED BY <2>1 DEF InHeader, StatesOf
<1>4. ASSUME Inv PROVE InHeader("UBLOX")
  <2>1. CASE state \in UbloxStates /\ declared = Unset
    <3>1. UbloxInv
      BY <1>4, <2>1 DEF Inv, FrameInv
    <3>2. msg_length \in 1 .. 5
      BY <2>1, <3>1 DEF UbloxInv, UbloxStates
    <3>. QED BY <3>2, Layouts DEF InHeader
  <2>. QED BY <2>1 DEF InHeader, StatesOf
<1>. QED BY <1>1, <1>2, <1>3, <1>4 DEF HeadersIncomplete, BinaryProtocols

\* Both hold after the call as well.
LEMMA AfterCall == Inv' => HeadersIncomplete' /\ FrameEndsWhereDeclared'
  BY WithinHeader, EndsWhereDeclared, PTL

\* One step of LengthFramer, as protocol p's framer sees a byte.
FrameStep(p) ==
  /\ buffer_length' = buffer_length
  /\ \/ /\ TotalOf(p) = -1 \/ GotOf(p) >= buffer_length
        /\ GotOf(p)' \in {0, 1} /\ TotalOf(p)' = -1 /\ VerdictOn(p)' = "none"
     \/ /\ TotalOf(p) = -1 /\ GotOf(p) > 0 /\ GotOf(p) + 1 < HeaderOf(p)
        /\ GotOf(p)' = GotOf(p) + 1 /\ TotalOf(p)' = -1 /\ VerdictOn(p)' = "none"
     \/ /\ TotalOf(p) = -1 /\ GotOf(p) + 1 = HeaderOf(p)
        /\ GotOf(p)' = HeaderOf(p) /\ VerdictOn(p)' = "none"
        /\ \E n \in LengthsOf(p) : TotalOf(p)' = HeaderOf(p) + n + TrailerOf(p)
     \/ /\ TotalOf(p) # -1 /\ GotOf(p) + 1 < TotalOf(p)
        /\ GotOf(p)' = GotOf(p) + 1 /\ TotalOf(p)' = TotalOf(p) /\ VerdictOn(p)' = "none"
     \/ /\ TotalOf(p) # -1 /\ GotOf(p) + 1 = TotalOf(p)
        /\ GotOf(p) + 1 > TotalOf(p) - TrailerOf(p) /\ GotOf(p) + 1 <= TotalOf(p)
        /\ GotOf(p)' = 0 /\ TotalOf(p)' = -1 /\ VerdictOn(p)' \in {"delivered", "refused"}

\* A byte that is handed to sempFirstByte begins p's next frame or none.
LEMMA Restarts ==
  ASSUME NEW p \in BinaryProtocols, NEW data \in Bytes, sempFirstByte(data), out'.proto # p,
         TotalOf(p) = -1 \/ GotOf(p) >= buffer_length
  PROVE  FrameStep(p)
<1>1. /\ msg_length' = 1 /\ declared' = Unset /\ buffer_length' = buffer_length
  BY DEF sempFirstByte, instance
<1>2. GotOf(p)' \in {0, 1} /\ TotalOf(p)' = -1
  BY <1>1 DEF GotOf, TotalOf, InFrame
<1>3. VerdictOn(p)' = "none"
  BY DEF VerdictOn
<1>. QED BY <1>1, <1>2, <1>3 DEF FrameStep

\* A call of a routine of another protocol is no byte of a frame of p's.
LEMMA Others ==
  ASSUME NEW p \in BinaryProtocols, state \notin StatesOf(p), state' \notin StatesOf(p),
         buffer_length' = buffer_length, out'.proto # p
  PROVE  FrameStep(p)
<1>1. TotalOf(p) = -1 /\ GotOf(p)' = 0 /\ TotalOf(p)' = -1 /\ VerdictOn(p)' = "none"
  BY DEF GotOf, TotalOf, InFrame, VerdictOn
<1>. QED BY <1>1 DEF FrameStep

\* Every binary protocol's envelope is its header and its trailer.
LEMMA Envelopes ==
  ASSUME NEW p \in BinaryProtocols
  PROVE  /\ HeaderOf(p) \in Int /\ TrailerOf(p) \in Int /\ Envelope(p) \in Int
         /\ HeaderOf(p) >= 3 /\ TrailerOf(p) > 0 /\ Envelope(p) = HeaderOf(p) + TrailerOf(p)
         /\ Envelope(p) > 0
         /\ Shortest(p) \in Int /\ Shortest(p) >= 0
         /\ \A n \in LengthsOf(p) : n \in Int /\ n >= 0
<1>1. \A n \in MessageLengths : n \in Int /\ n >= 0
  BY LengthAssumption, Uint16
<1>2. \A n \in uint16_t : n \in Int /\ n >= 0
  BY Uint16
<1>. QED BY <1>1, <1>2, Layouts DEF BinaryProtocols

\* The frame grows: its header is collected, its length becomes known, or it is
\* filled up to the byte before its last.
LEMMA Growing ==
  ASSUME NEW p \in BinaryProtocols, Inv, Inv', state \in StatesOf(p),
         buffer_length' = buffer_length, FrameGrows(p)
  PROVE  FrameStep(p)
<1>1. /\ msg_length \in Int /\ declared \in Int /\ -1 <= declared
  BY Uint16 DEF Inv, TypeOK, StructureType
<1>2. state' \in StatesOf(p) /\ msg_length' = msg_length + 1
  BY DEF FrameGrows
<1>3. VerdictOn(p)' = "none"
  <2>1. out'.proto = "none" /\ p # "none"
    BY DEF FrameGrows, Silent, BinaryProtocols
  <2>. QED BY <2>1 DEF VerdictOn
<1>4. CASE declared' = declared /\ declared = Unset
  <2>1. msg_length >= 1
    BY <1>4, WithinHeader DEF HeadersIncomplete, InHeader
  <2>2. msg_length' < HeaderOf(p)
    BY <1>2, <1>4, AfterCall DEF HeadersIncomplete, InHeader
  <2>3. /\ GotOf(p) = msg_length /\ TotalOf(p) = -1
        /\ GotOf(p)' = msg_length + 1 /\ TotalOf(p)' = -1
    BY <1>2, <1>4 DEF GotOf, TotalOf, InFrame
  <2>. QED BY <1>1, <1>2, <1>3, <2>1, <2>2, <2>3 DEF FrameStep
<1>5. CASE declared' = declared /\ declared # Unset /\ declared >= Shortest(p)
  <2>1. msg_length + 1 < Envelope(p) + declared
    BY <1>2, <1>5, AfterCall DEF FrameEndsWhereDeclared, NotPastEnd
  <2>2. /\ GotOf(p) = msg_length /\ TotalOf(p) = Envelope(p) + declared
        /\ GotOf(p)' = msg_length + 1 /\ TotalOf(p)' = Envelope(p) + declared
    BY <1>2, <1>5 DEF GotOf, TotalOf, InFrame
  <2>3. Envelope(p) + declared # -1
    BY <1>1, <1>5, Envelopes
  <2>. QED BY <1>3, <2>1, <2>2, <2>3 DEF FrameStep
<1>6. CASE declared' = declared /\ declared # Unset /\ ~(declared >= Shortest(p))
  <2>1. TotalOf(p) = -1 /\ GotOf(p)' = 0 /\ TotalOf(p)' = -1
    BY <1>6 DEF GotOf, TotalOf, InFrame
  <2>. QED BY <1>3, <2>1 DEF FrameStep
<1>7. CASE declared = Unset /\ msg_length + 1 = HeaderOf(p) /\ declared' \in LengthsOf(p)
  <2>1. GotOf(p) = msg_length /\ TotalOf(p) = -1 /\ declared' \in Int /\ declared' # Unset
    BY <1>7, Envelopes DEF GotOf, TotalOf, InFrame
  <2>2. CASE declared' >= Shortest(p)
    <3>1. GotOf(p)' = HeaderOf(p) /\ TotalOf(p)' = Envelope(p) + declared'
      BY <1>2, <1>7, <2>1, <2>2 DEF GotOf, TotalOf, InFrame
    <3>2. TotalOf(p)' = HeaderOf(p) + declared' + TrailerOf(p)
      BY <2>1, <3>1, Envelopes
    <3>. QED BY <1>3, <1>7, <2>1, <3>1, <3>2 DEF FrameStep
  <2>3. CASE ~(declared' >= Shortest(p))
    <3>1. GotOf(p)' = 0 /\ TotalOf(p)' = -1
      BY <2>1, <2>3 DEF GotOf, TotalOf, InFrame
    <3>. QED BY <1>3, <2>1, <3>1 DEF FrameStep
  <2>. QED BY <2>2, <2>3
<1>. QED BY <1>4, <1>5, <1>6, <1>7 DEF FrameGrows

\* The frame is judged, at its last byte.
LEMMA Judged ==
  ASSUME NEW p \in BinaryProtocols, Inv, Inv', state \in StatesOf(p),
         buffer_length' = buffer_length, FrameCloses(p)
  PROVE  FrameStep(p)
<1>1. declared \in Int /\ declared # Unset /\ declared >= Shortest(p) /\ msg_length \in Int
  BY Envelopes, Uint16 DEF FrameCloses, Inv, TypeOK, StructureType
<1>2. GotOf(p) = msg_length /\ TotalOf(p) = Envelope(p) + declared /\ TotalOf(p) # -1
  BY <1>1, Envelopes DEF GotOf, TotalOf, InFrame
<1>3. msg_length + 1 = Envelope(p) + declared
  BY AfterCall DEF FrameCloses, FrameEndsWhereDeclared
<1>4. state' \notin StatesOf(p)
  BY StateSets DEF FrameCloses, BinaryProtocols, StatesOf
<1>5. GotOf(p)' = 0 /\ TotalOf(p)' = -1 /\ VerdictOn(p)' \in {"delivered", "refused"}
  BY <1>4 DEF GotOf, TotalOf, InFrame, VerdictOn, FrameCloses
<1>6. GotOf(p) + 1 > TotalOf(p) - TrailerOf(p) /\ GotOf(p) + 1 <= TotalOf(p)
  BY <1>1, <1>2, <1>3, Envelopes
<1>. QED BY <1>2, <1>3, <1>5, <1>6 DEF FrameStep

\* A call of one of p's own routines.
LEMMA OwnCall ==
  ASSUME NEW p \in BinaryProtocols, Inv, Inv', BinaryCall(p)
  PROVE  FrameStep(p)
<1>1. CASE FrameDropped
  <2>1. PICK data \in Bytes : sempFirstByte(data) /\ out' = Silent
    BY <1>1 DEF FrameDropped, Restart
  <2>2. TotalOf(p) = -1 /\ out'.proto # p
    BY <1>1, <2>1 DEF FrameDropped, TotalOf, Silent, BinaryProtocols
  <2>. QED BY <2>1, <2>2, Restarts
<1>. QED BY <1>1, Growing, Judged DEF BinaryCall

\* No routine belongs to two protocols.
LEMMA Disjoint ==
  ASSUME NEW p \in Protocols, NEW q \in Protocols, p # q, NEW s \in StatesOf(q)
  PROVE  s \notin StatesOf(p) /\ s # "sempFirstByte"
<1>1. \A r \in Protocols :
        \/ r = "Custom" /\ StatesOf(r) = CustomStates
        \/ r = "NMEA" /\ StatesOf(r) = NmeaStates
        \/ r = "RTCM" /\ StatesOf(r) = RtcmStates
        \/ r = "UBLOX" /\ StatesOf(r) = UbloxStates
        \/ r = "UnicoreBinary" /\ StatesOf(r) = UnicoreBinaryStates
        \/ r = "UnicoreHash" /\ StatesOf(r) = UnicoreHashStates
  BY DEF Protocols, StatesOf
<1>. QED BY <1>1, StateSets

\* A call of a routine of another protocol q, which can only end q's frame, go on
\* with it, or hand the byte to sempFirstByte.
LEMMA ForeignCall ==
  ASSUME NEW p \in BinaryProtocols, NEW q \in Protocols, p # q,
         BinaryCall(q) \/ TextCall(q)
  PROVE  FrameStep(p)
<1>0. p \in Protocols /\ p # "none" /\ "sempFirstByte" \notin StatesOf(p)
  BY StateSets DEF BinaryProtocols, Protocols, StatesOf
<1>1. state \notin StatesOf(p) /\ buffer_length' = buffer_length
  BY <1>0, Disjoint DEF BinaryCall, TextCall
<1>2. out'.proto # p
  BY <1>0 DEF BinaryCall, TextCall, FrameGrows, FrameCloses, FrameDropped, Restart, Silent
<1>3. \/ \E data \in Bytes : sempFirstByte(data)
      \/ state' \in StatesOf(q) \/ state' = "sempFirstByte"
  BY DEF BinaryCall, TextCall, FrameGrows, FrameCloses, FrameDropped, Restart
<1>4. TotalOf(p) = -1
  BY <1>1 DEF TotalOf, InFrame
<1>5. CASE \E data \in Bytes : sempFirstByte(data)
  BY <1>2, <1>4, <1>5, Restarts
<1>6. CASE state' \in StatesOf(q) \/ state' = "sempFirstByte"
  <2>1. state' \notin StatesOf(p)
    BY <1>0, <1>6, Disjoint
  <2>. QED BY <1>1, <1>2, <2>1, Others
<1>. QED BY <1>3, <1>5, <1>6

\* Every call of sempParseNextByte is a step of each binary protocol's framer.
LEMMA FramerStep ==
  ASSUME NEW p \in BinaryProtocols, Inv, Inv', sempParseNextByte
  PROVE  FrameStep(p)
<1>0. p \in Protocols /\ p # "none" /\ "sempFirstByte" \notin StatesOf(p)
  BY StateSets DEF BinaryProtocols, Protocols, StatesOf
<1>1. CASE msg_length >= buffer_length /\ \E data \in Bytes : Restart(data)
  <2>1. PICK data \in Bytes : sempFirstByte(data) /\ out' = Silent
    BY <1>1 DEF Restart
  <2>2. TotalOf(p) = -1 \/ GotOf(p) >= buffer_length
    BY <1>1 DEF TotalOf, GotOf, InFrame
  <2>. QED BY <1>0, <2>1, <2>2, Restarts DEF Silent
<1>2. CASE Called("sempFirstByte") /\ \E data \in Bytes : Restart(data)
  <2>1. PICK data \in Bytes : sempFirstByte(data) /\ out' = Silent
    BY <1>2 DEF Restart
  <2>2. TotalOf(p) = -1
    BY <1>0, <1>2 DEF TotalOf, InFrame, Called
  <2>. QED BY <1>0, <2>1, <2>2, Restarts DEF Silent
<1>3. ASSUME NEW q \in Protocols, BinaryCall(q) PROVE FrameStep(p)
  BY <1>3, OwnCall, ForeignCall
<1>4. ASSUME NEW q \in {"NMEA", "UnicoreHash"}, TextCall(q) PROVE FrameStep(p)
  <2>1. q \in Protocols /\ p # q
    BY <1>4 DEF Protocols, BinaryProtocols
  <2>. QED BY <1>4, <2>1, ForeignCall
<1>5. CASE CustomHandler
  BY <1>3, <1>5, CustomCalls DEF Protocols
<1>6. CASE RtcmHandler
  BY <1>3, <1>6, RtcmCalls DEF Protocols
<1>7. CASE UbloxHandler
  BY <1>3, <1>7, UbloxCalls DEF Protocols
<1>8. CASE UnicoreBinaryHandler
  BY <1>3, <1>8, UnicoreBinaryCalls DEF Protocols
<1>9. CASE NmeaHandler \/ UnicoreHashHandler
  BY <1>4, <1>9, NmeaCalls, UnicoreHashCalls
<1>. QED BY <1>1, <1>2, <1>5, <1>6, <1>7, <1>8, <1>9 DEF sempParseNextByte

\* Between frames, with a buffer of any size or none.
FramerReset(p) ==
  buffer_length \in Nat /\ GotOf(p) = 0 /\ TotalOf(p) = -1 /\ VerdictOn(p) = "none"

LEMMA FramerStart ==
  ASSUME NEW p \in BinaryProtocols, Init
  PROVE  FramerReset(p)
<1>1. state \notin StatesOf(p) /\ out.proto # p
  BY StateSets DEF BinaryProtocols, StatesOf, Init, Silent
<1>. QED BY <1>1 DEF Init, FramerReset, GotOf, TotalOf, InFrame, VerdictOn

\* Every operation of the interface is a step of each framer, or none.
LEMMA FramerNext ==
  ASSUME NEW p \in BinaryProtocols, Inv, [Next]_vars
  PROVE  \/ FramerReset(p)'
         \/ FrameStep(p)
         \/ UNCHANGED <<buffer_length, GotOf(p), TotalOf(p), VerdictOn(p)>>
<1>0. Inv'
  BY NextInv
<1>1. CASE UNCHANGED vars
  BY <1>1 DEF vars, GotOf, TotalOf, InFrame, VerdictOn
<1>2. CASE Fresh
  <2>1. state' \notin StatesOf(p) /\ out'.proto # p
    BY <1>2, StateSets DEF BinaryProtocols, StatesOf, Fresh, Silent
  <2>2. buffer_length' \in Nat
    BY <1>0, Uint16 DEF Inv, TypeOK, StructureType
  <2>. QED BY <2>1, <2>2 DEF FramerReset, GotOf, TotalOf, InFrame, VerdictOn
<1>. QED BY <1>0, <1>1, <1>2, FramerStep DEF Next, sempBeginParser, sempStopParser

\* Custom (BT) frames, Parse_Custom.c, are framed by their length fields, whatever else
\* the table holds: MessageParser implements the framer of their protocol.
THEOREM FramesCustomFrames == Spec => FramesCustom
<1>0. "Custom" \in BinaryProtocols
  BY DEF BinaryProtocols
<1>1. Init => CustomFramer!Init
  BY <1>0, FramerStart DEF FramerReset, CustomFramer!Init, CustomFramer!Unknown
<1>2. Inv /\ [Next]_vars => [CustomFramer!Next]_(CustomFramer!vars)
  <2>1. FramerReset("Custom")' => CustomFramer!Reset
    BY DEF FramerReset, CustomFramer!Reset, CustomFramer!Unknown
  <2>2. FrameStep("Custom") => CustomFramer!Byte /\ buffer_length' = buffer_length
    BY ZenonT(30)
       DEF FrameStep, CustomFramer!Byte, CustomFramer!Search, CustomFramer!Elsewhere,
           CustomFramer!Collect, CustomFramer!Learn, CustomFramer!Fill, CustomFramer!Deliver,
           CustomFramer!Refuse, CustomFramer!GiveUp, CustomFramer!Unknown
  <2>. QED BY <1>0, <2>1, <2>2, FramerNext DEF CustomFramer!Next, CustomFramer!vars
<1>. QED BY <1>1, <1>2, InvariantHolds, PTL DEF Spec, FramesCustom, CustomFramer!Spec

\* The same for RTCM, Parse_RTCM.c, whose length field has ten bits.
THEOREM FramesRtcmFrames == Spec => FramesRtcm
<1>0. "RTCM" \in BinaryProtocols
  BY DEF BinaryProtocols
<1>1. Init => RtcmFramer!Init
  BY <1>0, FramerStart DEF FramerReset, RtcmFramer!Init, RtcmFramer!Unknown
<1>2. Inv /\ [Next]_vars => [RtcmFramer!Next]_(RtcmFramer!vars)
  <2>1. FramerReset("RTCM")' => RtcmFramer!Reset
    BY DEF FramerReset, RtcmFramer!Reset, RtcmFramer!Unknown
  <2>2. FrameStep("RTCM") => RtcmFramer!Byte /\ buffer_length' = buffer_length
    BY ZenonT(30)
       DEF FrameStep, RtcmFramer!Byte, RtcmFramer!Search, RtcmFramer!Elsewhere,
           RtcmFramer!Collect, RtcmFramer!Learn, RtcmFramer!Fill, RtcmFramer!Deliver,
           RtcmFramer!Refuse, RtcmFramer!GiveUp, RtcmFramer!Unknown
  <2>. QED BY <1>0, <2>1, <2>2, FramerNext DEF RtcmFramer!Next, RtcmFramer!vars
<1>. QED BY <1>1, <1>2, InvariantHolds, PTL DEF Spec, FramesRtcm, RtcmFramer!Spec

\* The same for u-blox, Parse_UBLOX.c: a frame of any length, zero included.
THEOREM FramesUbloxFrames == Spec => FramesUblox
<1>0. "UBLOX" \in BinaryProtocols
  BY DEF BinaryProtocols
<1>1. Init => UbloxFramer!Init
  BY <1>0, FramerStart DEF FramerReset, UbloxFramer!Init, UbloxFramer!Unknown
<1>2. Inv /\ [Next]_vars => [UbloxFramer!Next]_(UbloxFramer!vars)
  <2>1. FramerReset("UBLOX")' => UbloxFramer!Reset
    BY DEF FramerReset, UbloxFramer!Reset, UbloxFramer!Unknown
  <2>2. FrameStep("UBLOX") => UbloxFramer!Byte /\ buffer_length' = buffer_length
    BY ZenonT(30)
       DEF FrameStep, UbloxFramer!Byte, UbloxFramer!Search, UbloxFramer!Elsewhere,
           UbloxFramer!Collect, UbloxFramer!Learn, UbloxFramer!Fill, UbloxFramer!Deliver,
           UbloxFramer!Refuse, UbloxFramer!GiveUp, UbloxFramer!Unknown
  <2>. QED BY <1>0, <2>1, <2>2, FramerNext DEF UbloxFramer!Next, UbloxFramer!vars
<1>. QED BY <1>1, <1>2, InvariantHolds, PTL DEF Spec, FramesUblox, UbloxFramer!Spec

\* The same for Unicore binary, Parse_Unicore_Binary.c, whose check is undefined: the
\* verdict may be either, its place is not.
THEOREM FramesUnicoreFrames == Spec => FramesUnicoreBinary
<1>0. "UnicoreBinary" \in BinaryProtocols
  BY DEF BinaryProtocols
<1>1. Init => UnicoreBinaryFramer!Init
  BY <1>0, FramerStart DEF FramerReset, UnicoreBinaryFramer!Init, UnicoreBinaryFramer!Unknown
<1>2. Inv /\ [Next]_vars => [UnicoreBinaryFramer!Next]_(UnicoreBinaryFramer!vars)
  <2>1. FramerReset("UnicoreBinary")' => UnicoreBinaryFramer!Reset
    BY DEF FramerReset, UnicoreBinaryFramer!Reset, UnicoreBinaryFramer!Unknown
  <2>2. FrameStep("UnicoreBinary") => UnicoreBinaryFramer!Byte /\ buffer_length' = buffer_length
    BY ZenonT(30)
       DEF FrameStep, UnicoreBinaryFramer!Byte, UnicoreBinaryFramer!Search,
           UnicoreBinaryFramer!Elsewhere, UnicoreBinaryFramer!Collect,
           UnicoreBinaryFramer!Learn, UnicoreBinaryFramer!Fill, UnicoreBinaryFramer!Deliver,
           UnicoreBinaryFramer!Refuse, UnicoreBinaryFramer!GiveUp, UnicoreBinaryFramer!Unknown
  <2>. QED BY <1>0, <2>1, <2>2, FramerNext DEF UnicoreBinaryFramer!Next, UnicoreBinaryFramer!vars
<1>. QED BY <1>1, <1>2, InvariantHolds, PTL DEF Spec, FramesUnicoreBinary, UnicoreBinaryFramer!Spec

-----------------------------------------------------------------------------
(* The line protocols implement SentenceFramer.                            *)

\* The routines of the two protocols: the ones before the asterisk and the ones behind it.
LEMMA LineRoutines ==
  /\ StatesOf("NMEA") = {"sempNmeaFindFirstComma", "sempNmeaFindAsterisk"} \cup AfterAsterisk("NMEA")
  /\ AfterAsterisk("NMEA") =
       {"sempNmeaChecksumByte1", "sempNmeaChecksumByte2", "sempNmeaLineTermination",
        "sempNmeaLineFeed", "sempNmeaCarriageReturn"}
  /\ InLineEnd("NMEA") = {"sempNmeaLineFeed", "sempNmeaCarriageReturn"}
  /\ StatesOf("UnicoreHash") =
       {"sempUnicoreHashFindFirstComma", "sempUnicoreHashFindAsterisk"} \cup AfterAsterisk("UnicoreHash")
  /\ AfterAsterisk("UnicoreHash") =
       {"sempUnicoreHashChecksumByte", "sempUnicoreHashLineTermination",
        "sempUnicoreHashLineFeed", "sempUnicoreHashCarriageReturn"}
  /\ InLineEnd("UnicoreHash") = {"sempUnicoreHashLineFeed", "sempUnicoreHashCarriageReturn"}
  BY DEF StatesOf, NmeaStates, UnicoreHashStates, AfterAsterisk, InLineEnd

\* The free bytes and the numbers of check digits of the two protocols.
ReserveOf(p) ==
  IF p = "NMEA" THEN NMEA_BUFFER_OVERHEAD ELSE UNICORE_HASH_BUFFER_OVERHEAD
DigitsOf(p) == IF p = "NMEA" THEN {2} ELSE {2, 8}

\* A byte outside a sentence of p's, or the first one of the next.
NoSentence(p) ==
  SentenceBytes(p)' \in {0, 1} /\ SentenceTotal(p)' = -1 /\ LineEndBytes(p)' = 0

\* One step of SentenceFramer, as protocol p's framer sees a byte.
SentenceStep(p) ==
  /\ buffer_length' = buffer_length
  /\ \/ /\ \/ SentenceTotal(p) = -1 \/ SentenceBytes(p) < SentenceTotal(p)
           \/ SentenceBytes(p) >= buffer_length
        /\ NoSentence(p) /\ VerdictOn(p)' = "none"
     \/ /\ SentenceBytes(p) > 0 /\ SentenceBytes(p)' = SentenceBytes(p) + 1
        /\ LineEndBytes(p)' = 0 /\ VerdictOn(p)' = "none"
        /\ \/ /\ SentenceTotal(p) = -1 /\ SentenceTotal(p)' = -1
              /\ SentenceBytes(p)' + ReserveOf(p) <= buffer_length
           \/ /\ SentenceTotal(p) = -1
              /\ \E n \in DigitsOf(p) : SentenceTotal(p)' = SentenceBytes(p)' + n
           \/ /\ SentenceTotal(p) # -1 /\ SentenceBytes(p) < SentenceTotal(p)
              /\ SentenceTotal(p)' = SentenceTotal(p)
     \/ /\ SentenceBytes(p) = SentenceTotal(p) /\ LineEndBytes(p) = 0
        /\ LineEndBytes(p)' = 1 /\ VerdictOn(p)' = "none"
        /\ SentenceBytes(p)' = SentenceBytes(p) /\ SentenceTotal(p)' = SentenceTotal(p)
     \/ /\ SentenceBytes(p) = SentenceTotal(p)
        /\ NoSentence(p) /\ VerdictOn(p)' \in {"delivered", "refused"}

\* sempFirstByte selects the first routine of a protocol, or none.
LEMMA FirstRoutine ==
  ASSUME NEW data \in Bytes, sempFirstByte(data)
  PROVE  state' \in {"sempFirstByte", "sempCustomSync2", "sempNmeaFindFirstComma",
                     "sempRtcmReadLength1", "sempUbloxSync2", "sempUnicoreBinarySync2",
                     "sempUnicoreHashFindFirstComma"}
<1>1. ASSUME NEW i \in Claimants(data), state' = Preamble(ParserTable[i]).state
      PROVE  state' \in {"sempCustomSync2", "sempNmeaFindFirstComma", "sempRtcmReadLength1",
                         "sempUbloxSync2", "sempUnicoreBinarySync2", "sempUnicoreHashFindFirstComma"}
  <2>1. ParserTable[i] \in Protocols
    BY <1>1, TableEntry DEF Claimants
  <2>. QED BY <1>1, <2>1 DEF Protocols, Preamble, sempCustomPreamble, sempNmeaPreamble,
                sempRtcmPreamble, sempUbloxPreamble, sempUnicoreBinaryPreamble,
                sempUnicoreHashPreamble
<1>. QED BY <1>1 DEF sempFirstByte

LEMMA SentenceRestarts ==
  ASSUME NEW p \in LineProtocols, NEW data \in Bytes, sempFirstByte(data)
  PROVE  NoSentence(p) /\ buffer_length' = buffer_length
<1>1. state' \notin AfterAsterisk(p) /\ state' \notin InLineEnd(p)
  BY FirstRoutine, LineRoutines DEF LineProtocols
<1>2. msg_length' = 1 /\ buffer_length' = buffer_length
  BY DEF sempFirstByte, instance
<1>. QED BY <1>1, <1>2 DEF NoSentence, SentenceBytes, SentenceTotal, LineEndBytes

\* After the last byte of a line end there is no sentence.
LEMMA SentenceEnds ==
  ASSUME NEW p \in LineProtocols, state' = "sempFirstByte"
  PROVE  NoSentence(p)
  BY LineRoutines DEF LineProtocols, NoSentence, SentenceBytes, SentenceTotal, LineEndBytes

\* A call that makes no callback decides nothing about p's sentences.
LEMMA NoVerdict ==
  ASSUME NEW p \in LineProtocols, out' = Silent
  PROVE  VerdictOn(p)' = "none"
  BY DEF LineProtocols, VerdictOn, Silent

\* A sentence has at least its preamble byte.
LEMMA SentenceNotEmpty ==
  ASSUME Inv, NEW p \in LineProtocols, state \in StatesOf(p)
  PROVE  msg_length \in Int /\ msg_length > 0
<1>1. msg_length \in Int /\ crc.cover \in Int /\ crc.cover >= 0
  BY Uint16, RegisterUpdates DEF Inv, TypeOK, StructureType
<1>2. CASE p = "NMEA"
  <2>1. NmeaInv
    BY <1>2 DEF Inv, FrameInv, StatesOf
  <2>2. crc.cover = msg_length - 1 - NmeaTail /\ NmeaTail \in Int /\ NmeaTail >= 0
    BY <2>1 DEF NmeaInv, Sentence, NmeaTail
  <2>. QED BY <1>1, <2>2
<1>3. CASE p = "UnicoreHash"
  <2>1. UnicoreHashInv /\ state \in UnicoreHashStates
    BY <1>3 DEF Inv, FrameInv, StatesOf
  <2>2. UnicoreHashTail \in Int /\ UnicoreHashTail >= 0
    <3>1. scratchPad.bytesRemaining \in Int /\ scratchPad.checksumBytes \in Int
      BY ScratchFields DEF Inv, TypeOK, StructureType
    <3>. QED BY <2>1, <3>1 DEF UnicoreHashInv, UnicoreHashTail
  <2>3. crc.cover = msg_length - 1 - UnicoreHashTail
    BY <2>1 DEF UnicoreHashInv, Sentence
  <2>. QED BY <1>1, <2>2, <2>3
<1>. QED BY <1>2, <1>3 DEF LineProtocols

\* One more byte of the text is kept.
LEMMA TextGrows ==
  ASSUME NEW p \in LineProtocols, Inv, state \in StatesOf(p), state \notin AfterAsterisk(p),
         state' \in StatesOf(p), state' \notin AfterAsterisk(p), out' = Silent,
         msg_length' = msg_length + 1, buffer_length' = buffer_length,
         msg_length + 1 + ReserveOf(p) <= buffer_length
  PROVE  SentenceStep(p)
<1>1. LineEndBytes(p)' = 0
  BY LineRoutines DEF LineProtocols, LineEndBytes
<1>2. /\ SentenceBytes(p) = msg_length /\ SentenceTotal(p) = -1
      /\ SentenceBytes(p)' = msg_length + 1 /\ SentenceTotal(p)' = -1
  BY DEF SentenceBytes, SentenceTotal
<1>. QED BY <1>1, <1>2, SentenceNotEmpty, NoVerdict DEF SentenceStep

\* The asterisk: n check digits are to come.
LEMMA AsteriskComes ==
  ASSUME NEW p \in LineProtocols, Inv, state \in StatesOf(p), state \notin AfterAsterisk(p),
         state' \in AfterAsterisk(p), state' \notin InLineEnd(p), out' = Silent,
         msg_length' = msg_length + 1, buffer_length' = buffer_length,
         NEW n \in DigitsOf(p), DigitsDue' = n
  PROVE  SentenceStep(p)
<1>1. state' \in StatesOf(p)
  BY LineRoutines DEF LineProtocols
<1>2. /\ SentenceBytes(p) = msg_length /\ SentenceTotal(p) = -1 /\ LineEndBytes(p)' = 0
      /\ SentenceBytes(p)' = msg_length + 1 /\ SentenceTotal(p)' = msg_length + 1 + n
  BY <1>1 DEF SentenceBytes, SentenceTotal, LineEndBytes
<1>. QED BY <1>2, SentenceNotEmpty, NoVerdict DEF SentenceStep

\* A check digit.
LEMMA DigitComes ==
  ASSUME NEW p \in LineProtocols, Inv, state \in AfterAsterisk(p),
         state' \in AfterAsterisk(p), state' \notin InLineEnd(p), out' = Silent,
         msg_length' = msg_length + 1, buffer_length' = buffer_length,
         DigitsDue \in Int, DigitsDue >= 1, DigitsDue' = DigitsDue - 1
  PROVE  SentenceStep(p)
<1>1. state \in StatesOf(p) /\ state' \in StatesOf(p)
  BY LineRoutines DEF LineProtocols
<1>2. /\ SentenceBytes(p) = msg_length /\ SentenceTotal(p) = msg_length + DigitsDue
      /\ LineEndBytes(p)' = 0
      /\ SentenceBytes(p)' = msg_length + 1
      /\ SentenceTotal(p)' = msg_length + 1 + (DigitsDue - 1)
  BY <1>1 DEF SentenceBytes, SentenceTotal, LineEndBytes
<1>3. msg_length \in Int /\ msg_length > 0
  BY <1>1, SentenceNotEmpty
<1>4. /\ SentenceTotal(p)' = SentenceTotal(p) /\ SentenceTotal(p) # -1
      /\ SentenceBytes(p) < SentenceTotal(p)
  BY <1>2, <1>3
<1>. QED BY <1>2, <1>3, <1>4, NoVerdict DEF SentenceStep

\* Before the last digit, the byte shows that this is no sentence.
LEMMA SentenceDropped ==
  ASSUME NEW p \in LineProtocols, Inv, state \in StatesOf(p), NEW data \in Bytes, Restart(data),
         state \in AfterAsterisk(p) => DigitsDue \in Int /\ DigitsDue >= 1
  PROVE  SentenceStep(p)
<1>1. NoSentence(p) /\ buffer_length' = buffer_length /\ VerdictOn(p)' = "none"
  BY SentenceRestarts, NoVerdict DEF Restart
<1>2. SentenceTotal(p) = -1 \/ SentenceBytes(p) < SentenceTotal(p)
  BY SentenceNotEmpty DEF SentenceTotal, SentenceBytes
<1>. QED BY <1>1, <1>2 DEF SentenceStep

\* Behind the last digit, the first byte of the line end.
LEMMA LineEndBegins ==
  ASSUME NEW p \in LineProtocols, state \in AfterAsterisk(p) \ InLineEnd(p), DigitsDue = 0, Inv,
         NEW routine \in InLineEnd(p), AwaitLineEnd(routine)
  PROVE  SentenceStep(p)
<1>1. /\ state \in StatesOf(p) /\ state' \in StatesOf(p)
      /\ state' \in AfterAsterisk(p) /\ state' \in InLineEnd(p) /\ DigitsDue' = 0
  BY LineRoutines DEF LineProtocols, AwaitLineEnd, DigitsDue
<1>2. msg_length' = msg_length /\ buffer_length' = buffer_length /\ out' = Silent
  BY DEF AwaitLineEnd, instance
<1>3. msg_length \in Int
  BY <1>1, SentenceNotEmpty
<1>4. /\ SentenceBytes(p) = msg_length /\ SentenceTotal(p) = msg_length /\ LineEndBytes(p) = 0
      /\ SentenceBytes(p)' = msg_length /\ SentenceTotal(p)' = msg_length /\ LineEndBytes(p)' = 1
  BY <1>1, <1>2, <1>3 DEF SentenceBytes, SentenceTotal, LineEndBytes
<1>. QED BY <1>2, <1>4, NoVerdict DEF SentenceStep

\* Behind the last digit, the byte that decides about the sentence: the last of the line
\* end, or one that is handed to sempFirstByte.
LEMMA SentenceJudged ==
  ASSUME NEW p \in LineProtocols, state \in AfterAsterisk(p), DigitsDue = 0, Inv, out'.proto = p,
         \/ state' = "sempFirstByte" /\ buffer_length' = buffer_length
         \/ \E data \in Bytes : sempFirstByte(data)
  PROVE  SentenceStep(p)
<1>1. state \in StatesOf(p)
  BY LineRoutines DEF LineProtocols
<1>2. SentenceBytes(p) = SentenceTotal(p)
  BY <1>1, SentenceNotEmpty DEF SentenceBytes, SentenceTotal
<1>3. NoSentence(p) /\ buffer_length' = buffer_length
  BY SentenceEnds, SentenceRestarts
<1>4. VerdictOn(p)' \in {"delivered", "refused"}
  BY DEF VerdictOn
<1>. QED BY <1>2, <1>3, <1>4 DEF SentenceStep

\* Parse_NMEA.c: every routine is a step of the framer.
LEMMA NmeaSentences == ASSUME Inv, Inv', NmeaHandler PROVE SentenceStep("NMEA")
<1>0. "NMEA" \in LineProtocols /\ ReserveOf("NMEA") = 6 /\ 2 \in DigitsOf("NMEA")
  BY DEF LineProtocols, ReserveOf, DigitsOf, NMEA_BUFFER_OVERHEAD
<1>1. PICK data \in Bytes :
        \/ sempNmeaFindFirstComma(data) \/ sempNmeaFindAsterisk(data)
        \/ \E match \in BOOLEAN : \/ sempNmeaChecksumByte1(data, match)
                                  \/ sempNmeaChecksumByte2(data, match)
        \/ \E overruled \in BOOLEAN : \/ sempNmeaLineTermination(data, overruled)
                                      \/ sempNmeaLineFeed(data, overruled)
                                      \/ sempNmeaCarriageReturn(data, overruled)
  BY DEF NmeaHandler
<1>2. CASE sempNmeaFindFirstComma(data) \/ sempNmeaFindAsterisk(data)
  <2>1. state \in StatesOf("NMEA") /\ state \notin AfterAsterisk("NMEA")
    BY <1>2, LineRoutines DEF sempNmeaFindFirstComma, sempNmeaFindAsterisk, Called
  <2>2. CASE Restart(data)
    BY <1>0, <2>1, <2>2, SentenceDropped
  <2>3. CASE \E c : \/ Continue("sempNmeaFindFirstComma", c) \/ Continue("sempNmeaFindAsterisk", c)
    <3>1. /\ state' \in {"sempNmeaFindFirstComma", "sempNmeaFindAsterisk"} /\ out' = Silent
          /\ msg_length' = msg_length + 1 /\ buffer_length' = buffer_length
      BY <2>3 DEF Continue, instance
    <3>2. NmeaInv' /\ NmeaTail' = 0
      BY <3>1 DEF Inv, FrameInv, NmeaStates, NmeaTail
    <3>3. msg_length' \in Int /\ buffer_length' \in Int
      BY Uint16 DEF Inv, TypeOK, StructureType
    <3>4. msg_length' + 6 <= buffer_length'
      <4>1. msg_length' + NMEA_BUFFER_OVERHEAD - NmeaTail' <= buffer_length'
        BY ZenonT(30), <3>2 DEF NmeaInv
      <4>2. msg_length' + 6 - 0 <= buffer_length'
        BY ZenonT(30), <3>2, <4>1 DEF NMEA_BUFFER_OVERHEAD
      <4>3. \A a, b \in Int : a + 6 - 0 <= b => a + 6 <= b
        OBVIOUS
      <4>. QED BY ZenonT(30), <3>3, <4>2, <4>3
    <3>5. state' \in StatesOf("NMEA") /\ state' \notin AfterAsterisk("NMEA")
      BY <3>1, LineRoutines
    <3>. QED BY <1>0, <2>1, <3>1, <3>4, <3>5, TextGrows
  <2>4. CASE Continue("sempNmeaChecksumByte1", crc)
    <3>1. /\ state' = "sempNmeaChecksumByte1" /\ out' = Silent
          /\ msg_length' = msg_length + 1 /\ buffer_length' = buffer_length
      BY <2>4 DEF Continue, instance
    <3>2. DigitsDue' = 2 /\ state' \in AfterAsterisk("NMEA") /\ state' \notin InLineEnd("NMEA")
      BY <3>1, LineRoutines DEF DigitsDue
    <3>. QED BY <1>0, <2>1, <3>1, <3>2, AsteriskComes
  <2>. QED BY <1>2, <2>2, <2>3, <2>4 DEF sempNmeaFindFirstComma, sempNmeaFindAsterisk
<1>3. ASSUME NEW match \in BOOLEAN, sempNmeaChecksumByte1(data, match)
      PROVE  SentenceStep("NMEA")
  <2>1. /\ state \in AfterAsterisk("NMEA") /\ state \in StatesOf("NMEA")
        /\ DigitsDue = 2
    BY <1>3, LineRoutines DEF sempNmeaChecksumByte1, Called, DigitsDue
  <2>2. CASE Continue("sempNmeaChecksumByte2", crc)
    <3>1. /\ state' = "sempNmeaChecksumByte2" /\ out' = Silent
          /\ msg_length' = msg_length + 1 /\ buffer_length' = buffer_length
      BY <2>2 DEF Continue, instance
    <3>2. DigitsDue' = 1 /\ state' \in AfterAsterisk("NMEA") /\ state' \notin InLineEnd("NMEA")
      BY <3>1, LineRoutines DEF DigitsDue
    <3>. QED BY <1>0, <2>1, <3>1, <3>2, DigitComes
  <2>. QED BY <1>0, <1>3, <2>1, <2>2, SentenceDropped DEF sempNmeaChecksumByte1
<1>4. ASSUME NEW match \in BOOLEAN, sempNmeaChecksumByte2(data, match)
      PROVE  SentenceStep("NMEA")
  <2>1. /\ state \in AfterAsterisk("NMEA") /\ state \in StatesOf("NMEA")
        /\ DigitsDue = 1
    BY <1>4, LineRoutines DEF sempNmeaChecksumByte2, Called, DigitsDue
  <2>2. CASE Continue("sempNmeaLineTermination", crc)
    <3>1. /\ state' = "sempNmeaLineTermination" /\ out' = Silent
          /\ msg_length' = msg_length + 1 /\ buffer_length' = buffer_length
      BY <2>2 DEF Continue, instance
    <3>2. DigitsDue' = 0 /\ state' \in AfterAsterisk("NMEA") /\ state' \notin InLineEnd("NMEA")
      BY <3>1, LineRoutines DEF DigitsDue
    <3>. QED BY <1>0, <2>1, <3>1, <3>2, DigitComes
  <2>. QED BY <1>0, <1>4, <2>1, <2>2, SentenceDropped DEF sempNmeaChecksumByte2
<1>5. ASSUME NEW overruled \in BOOLEAN,
             \/ sempNmeaLineTermination(data, overruled)
             \/ sempNmeaLineFeed(data, overruled)
             \/ sempNmeaCarriageReturn(data, overruled)
      PROVE  SentenceStep("NMEA")
  <2>1. state \in AfterAsterisk("NMEA") /\ DigitsDue = 0
    BY <1>5, LineRoutines DEF sempNmeaLineTermination, sempNmeaLineFeed, sempNmeaCarriageReturn,
         Called, DigitsDue
  <2>2. CASE /\ state = "sempNmeaLineTermination"
             /\ AwaitLineEnd("sempNmeaLineFeed") \/ AwaitLineEnd("sempNmeaCarriageReturn")
    BY <1>0, <2>1, <2>2, LineRoutines, LineEndBegins
  <2>3. CASE /\ out' = sempNmeaValidateChecksum(overruled)
             /\ sempFirstByte(data) \/ (state' = "sempFirstByte" /\ buffer_length' = buffer_length)
    <3>1. out'.proto = "NMEA"
      BY <2>3, SentenceVerdicts
    <3>. QED BY <1>0, <2>1, <2>3, <3>1, SentenceJudged
  <2>. QED BY <1>5, <2>2, <2>3 DEF sempNmeaLineTermination, sempNmeaLineFeed,
         sempNmeaCarriageReturn, Called, FinishLine, Finish, instance
<1>. QED BY <1>1, <1>2, <1>3, <1>4, <1>5

\* Parse_Unicore_Hash.c: the same, with two or eight digits.
LEMMA UnicoreHashSentences ==
  ASSUME Inv, Inv', UnicoreHashHandler PROVE SentenceStep("UnicoreHash")
<1>0. /\ "UnicoreHash" \in LineProtocols /\ ReserveOf("UnicoreHash") = 3
      /\ DigitsOf("UnicoreHash") = {2, 8}
  BY DEF LineProtocols, ReserveOf, DigitsOf, UNICORE_HASH_BUFFER_OVERHEAD
<1>1. PICK data \in Bytes :
        \/ sempUnicoreHashFindFirstComma(data) \/ sempUnicoreHashFindAsterisk(data)
        \/ \E match \in BOOLEAN : sempUnicoreHashChecksumByte(data, match)
        \/ \E overruled \in BOOLEAN : \/ sempUnicoreHashLineTermination(data, overruled)
                                      \/ sempUnicoreHashLineFeed(data, overruled)
                                      \/ sempUnicoreHashCarriageReturn(data, overruled)
  BY DEF UnicoreHashHandler
<1>2. CASE sempUnicoreHashFindFirstComma(data)
  <2>1. /\ state = "sempUnicoreHashFindFirstComma" /\ parse # "nullptr"
        /\ state \in StatesOf("UnicoreHash") /\ state \notin AfterAsterisk("UnicoreHash")
    BY <1>2, LineRoutines DEF sempUnicoreHashFindFirstComma, Called
  <2>2. CASE Restart(data)
    BY <1>0, <2>1, <2>2, SentenceDropped
  <2>3. CASE \E c : \/ Continue("sempUnicoreHashFindFirstComma", c)
                    \/ Continue("sempUnicoreHashFindAsterisk", c)
    <3>1. /\ state' \in {"sempUnicoreHashFindFirstComma", "sempUnicoreHashFindAsterisk"}
          /\ out' = Silent
          /\ msg_length' = msg_length + 1 /\ buffer_length' = buffer_length
      BY <2>3 DEF Continue, instance
    <3>2. Naming
      BY <2>1 DEF Inv, FrameInv, UnicoreHashStates, UnicoreHashInv
    <3>3. /\ buffer_length \in Int /\ buffer_length >= 256
          /\ scratchPad.sentenceNameLength \in Int /\ scratchPad.sentenceNameLength < 16
      BY <2>1, Uint16, ScratchFields DEF Inv, FrameInv, TypeOK, StructureType
    <3>4. msg_length + 1 + 3 <= buffer_length
      BY <3>2, <3>3 DEF Naming
    <3>5. state' \in StatesOf("UnicoreHash") /\ state' \notin AfterAsterisk("UnicoreHash")
      BY <3>1, LineRoutines
    <3>. QED BY <1>0, <2>1, <3>1, <3>4, <3>5, TextGrows
  <2>. QED BY <1>2, <2>2, <2>3 DEF sempUnicoreHashFindFirstComma
<1>3. CASE sempUnicoreHashFindAsterisk(data)
  <2>1. /\ state = "sempUnicoreHashFindAsterisk"
        /\ state \in StatesOf("UnicoreHash") /\ state \notin AfterAsterisk("UnicoreHash")
    BY <1>3, LineRoutines DEF sempUnicoreHashFindAsterisk, Called
  <2>2. CASE Restart(data)
    BY <1>0, <2>1, <2>2, SentenceDropped
  <2>3. CASE /\ msg_length + 1 + UNICORE_HASH_BUFFER_OVERHEAD <= buffer_length
             /\ Continue("sempUnicoreHashFindAsterisk", Absorb(crc))
    <3>1. /\ state' = "sempUnicoreHashFindAsterisk" /\ out' = Silent
          /\ msg_length' = msg_length + 1 /\ buffer_length' = buffer_length
      BY <2>3 DEF Continue, instance
    <3>2. state' \in StatesOf("UnicoreHash") /\ state' \notin AfterAsterisk("UnicoreHash")
      BY <3>1, LineRoutines
    <3>. QED BY <1>0, <2>1, <2>3, <3>1, <3>2, TextGrows DEF UNICORE_HASH_BUFFER_OVERHEAD
  <2>4. CASE /\ Continue("sempUnicoreHashChecksumByte", crc)
             /\ scratchPad' = [scratchPad EXCEPT !.bytesRemaining = scratchPad.checksumBytes]
    <3>1. /\ state' = "sempUnicoreHashChecksumByte" /\ out' = Silent
          /\ msg_length' = msg_length + 1 /\ buffer_length' = buffer_length
      BY <2>4 DEF Continue, instance
    <3>2. scratchPad.checksumBytes \in {2, 8}
      BY <2>1 DEF Inv, FrameInv, UnicoreHashStates, UnicoreHashInv
    <3>3. scratchPad'.bytesRemaining = scratchPad.checksumBytes
      BY <2>4 DEF Inv, TypeOK, StructureType, ScratchPads
    <3>4. /\ DigitsDue' = scratchPad.checksumBytes
          /\ state' \in AfterAsterisk("UnicoreHash") /\ state' \notin InLineEnd("UnicoreHash")
      BY <3>1, <3>3, LineRoutines DEF DigitsDue
    <3>. QED BY <1>0, <2>1, <3>1, <3>2, <3>4, AsteriskComes
  <2>. QED BY <1>3, <2>2, <2>3, <2>4 DEF sempUnicoreHashFindAsterisk
<1>4. ASSUME NEW match \in BOOLEAN, sempUnicoreHashChecksumByte(data, match)
      PROVE  SentenceStep("UnicoreHash")
  <2>1. /\ state = "sempUnicoreHashChecksumByte" /\ state \in AfterAsterisk("UnicoreHash")
        /\ state \in StatesOf("UnicoreHash") /\ DigitsDue = scratchPad.bytesRemaining
    BY <1>4, LineRoutines DEF sempUnicoreHashChecksumByte, Called, DigitsDue
  <2>2. /\ scratchPad.bytesRemaining \in Int
        /\ 1 <= scratchPad.bytesRemaining /\ scratchPad.bytesRemaining <= 8
    BY <2>1, ScratchFields DEF Inv, FrameInv, UnicoreHashStates, UnicoreHashInv, TypeOK, StructureType
  <2>3. CASE Restart(data)
    BY <1>0, <2>1, <2>2, <2>3, SentenceDropped
  <2>4. CASE ~Restart(data)
    <3>1. Decrement(scratchPad.bytesRemaining, UINT8) = scratchPad.bytesRemaining - 1
      BY <2>2, ByteDecremented
    <3>2. /\ state' = IF scratchPad.bytesRemaining - 1 = 0 THEN "sempUnicoreHashLineTermination"
                                                           ELSE "sempUnicoreHashChecksumByte"
          /\ scratchPad' = [scratchPad EXCEPT !.bytesRemaining = scratchPad.bytesRemaining - 1]
          /\ out' = Silent /\ msg_length' = msg_length + 1 /\ buffer_length' = buffer_length
      BY <1>4, <2>4, <3>1 DEF sempUnicoreHashChecksumByte, Continue, instance
    <3>3. scratchPad'.bytesRemaining = scratchPad.bytesRemaining - 1
      BY <3>2 DEF Inv, TypeOK, StructureType, ScratchPads
    <3>4. state' \in AfterAsterisk("UnicoreHash") /\ state' \notin InLineEnd("UnicoreHash")
      BY <3>2, LineRoutines
    <3>5. DigitsDue' = DigitsDue - 1
      BY <2>1, <2>2, <3>2, <3>3 DEF DigitsDue
    <3>. QED BY <1>0, <2>1, <2>2, <3>2, <3>4, <3>5, DigitComes
  <2>. QED BY <2>3, <2>4
<1>5. ASSUME NEW overruled \in BOOLEAN,
             \/ sempUnicoreHashLineTermination(data, overruled)
             \/ sempUnicoreHashLineFeed(data, overruled)
             \/ sempUnicoreHashCarriageReturn(data, overruled)
      PROVE  SentenceStep("UnicoreHash")
  <2>1. state \in AfterAsterisk("UnicoreHash") /\ DigitsDue = 0
    BY <1>5, LineRoutines DEF sempUnicoreHashLineTermination, sempUnicoreHashLineFeed,
         sempUnicoreHashCarriageReturn, Called, DigitsDue
  <2>2. CASE /\ state = "sempUnicoreHashLineTermination"
             /\ \/ AwaitLineEnd("sempUnicoreHashLineFeed")
                \/ AwaitLineEnd("sempUnicoreHashCarriageReturn")
    BY <1>0, <2>1, <2>2, LineRoutines, LineEndBegins
  <2>3. CASE /\ out' = sempUnicoreHashValidateChecksum(overruled)
             /\ sempFirstByte(data) \/ (state' = "sempFirstByte" /\ buffer_length' = buffer_length)
    <3>1. out'.proto = "UnicoreHash"
      BY <2>3, SentenceVerdicts
    <3>. QED BY <1>0, <2>1, <2>3, <3>1, SentenceJudged
  <2>. QED BY <1>5, <2>2, <2>3 DEF sempUnicoreHashLineTermination, sempUnicoreHashLineFeed,
         sempUnicoreHashCarriageReturn, Called, FinishLine, Finish, instance
<1>. QED BY <1>1, <1>2, <1>3, <1>4, <1>5

\* A routine of another protocol q is no byte of a sentence of p's.
LEMMA ForeignSentence ==
  ASSUME NEW p \in LineProtocols, NEW q \in Protocols, p # q,
         BinaryCall(q) \/ TextCall(q)
  PROVE  SentenceStep(p)
<1>0. p \in Protocols /\ p # "none" /\ "sempFirstByte" \notin StatesOf(p)
  BY StateSets DEF LineProtocols, Protocols, StatesOf
<1>1. state \notin StatesOf(p) /\ buffer_length' = buffer_length
  BY <1>0, Disjoint DEF BinaryCall, TextCall
<1>2. VerdictOn(p)' = "none"
  <2>1. out'.proto # p
    BY <1>0 DEF BinaryCall, TextCall, FrameGrows, FrameCloses, FrameDropped, Restart, Silent
  <2>. QED BY <2>1 DEF VerdictOn
<1>3. \/ \E data \in Bytes : sempFirstByte(data)
      \/ state' \in StatesOf(q) \/ state' = "sempFirstByte"
  BY DEF BinaryCall, TextCall, FrameGrows, FrameCloses, FrameDropped, Restart
<1>4. SentenceTotal(p) = -1
  BY <1>1, LineRoutines DEF LineProtocols, SentenceTotal
<1>5. NoSentence(p)
  <2>1. CASE \E data \in Bytes : sempFirstByte(data)
    BY <2>1, SentenceRestarts
  <2>2. CASE state' \in StatesOf(q) \/ state' = "sempFirstByte"
    <3>1. state' \notin StatesOf(p)
      BY <1>0, <2>2, Disjoint
    <3>2. state' \notin AfterAsterisk(p) /\ state' \notin InLineEnd(p)
      BY <3>1, LineRoutines DEF LineProtocols
    <3>. QED BY <3>1, <3>2 DEF NoSentence, SentenceBytes, SentenceTotal, LineEndBytes
  <2>. QED BY <1>3, <2>1, <2>2
<1>. QED BY <1>1, <1>2, <1>4, <1>5 DEF SentenceStep

\* Every call of sempParseNextByte is a step of each line protocol's framer.
LEMMA SentenceByte ==
  ASSUME NEW p \in LineProtocols, Inv, Inv', sempParseNextByte
  PROVE  SentenceStep(p)
<1>0. p \in Protocols /\ p \notin BinaryProtocols /\ "sempFirstByte" \notin AfterAsterisk(p)
  BY LineRoutines DEF LineProtocols, BinaryProtocols, Protocols
<1>1. ASSUME NEW data \in Bytes, Restart(data),
             msg_length >= buffer_length \/ state = "sempFirstByte"
      PROVE  SentenceStep(p)
  <2>1. NoSentence(p) /\ buffer_length' = buffer_length /\ VerdictOn(p)' = "none"
    BY <1>1, SentenceRestarts, NoVerdict DEF Restart
  <2>2. SentenceTotal(p) = -1 \/ SentenceBytes(p) >= buffer_length
    <3>1. AfterAsterisk(p) \subseteq StatesOf(p)
      BY LineRoutines DEF LineProtocols
    <3>. QED BY <1>0, <1>1, <3>1 DEF SentenceTotal, SentenceBytes
  <2>. QED BY <2>1, <2>2 DEF SentenceStep
<1>2. ASSUME NEW q \in BinaryProtocols, BinaryCall(q) PROVE SentenceStep(p)
  <2>1. q \in Protocols /\ p # q
    BY <1>0, <1>2 DEF Protocols, BinaryProtocols
  <2>. QED BY <1>2, <2>1, ForeignSentence
<1>3. CASE CustomHandler \/ RtcmHandler \/ UbloxHandler \/ UnicoreBinaryHandler
  BY <1>2, <1>3, CustomCalls, RtcmCalls, UbloxCalls, UnicoreBinaryCalls DEF BinaryProtocols
<1>4. CASE NmeaHandler
  <2>1. CASE p = "NMEA"
    BY <1>4, <2>1, NmeaSentences
  <2>2. CASE p # "NMEA"
    BY <1>4, <2>2, NmeaCalls, ForeignSentence DEF Protocols
  <2>. QED BY <2>1, <2>2
<1>5. CASE UnicoreHashHandler
  <2>1. CASE p = "UnicoreHash"
    BY <1>5, <2>1, UnicoreHashSentences
  <2>2. CASE p # "UnicoreHash"
    BY <1>5, <2>2, UnicoreHashCalls, ForeignSentence DEF Protocols
  <2>. QED BY <2>1, <2>2
<1>. QED BY <1>1, <1>3, <1>4, <1>5 DEF sempParseNextByte, Called

\* Between sentences, with a buffer of any size or none.
SentenceReset(p) ==
  /\ buffer_length \in Nat /\ SentenceBytes(p) = 0 /\ SentenceTotal(p) = -1
  /\ LineEndBytes(p) = 0 /\ VerdictOn(p) = "none"

LEMMA SentenceStart ==
  ASSUME NEW p \in LineProtocols, Init
  PROVE  SentenceReset(p)
<1>1. /\ state \notin StatesOf(p) /\ state \notin AfterAsterisk(p) /\ state \notin InLineEnd(p)
      /\ out.proto # p
  BY LineRoutines DEF LineProtocols, Init, Silent
<1>. QED BY <1>1 DEF Init, SentenceReset, SentenceBytes, SentenceTotal, LineEndBytes, VerdictOn

\* Every operation of the interface is a step of each framer, or none.
LEMMA SentenceNext ==
  ASSUME NEW p \in LineProtocols, Inv, [Next]_vars
  PROVE  \/ SentenceReset(p)'
         \/ SentenceStep(p)
         \/ UNCHANGED <<buffer_length, SentenceBytes(p), SentenceTotal(p), LineEndBytes(p),
                        VerdictOn(p)>>
<1>0. Inv'
  BY NextInv
<1>1. CASE UNCHANGED vars
  BY <1>1 DEF vars, SentenceBytes, SentenceTotal, DigitsDue, LineEndBytes, VerdictOn
<1>2. CASE Fresh
  <2>1. /\ state' \notin StatesOf(p) /\ state' \notin AfterAsterisk(p)
        /\ state' \notin InLineEnd(p) /\ out'.proto # p
    BY <1>2, LineRoutines DEF LineProtocols, Fresh, Silent
  <2>2. buffer_length' \in Nat
    BY <1>0, Uint16 DEF Inv, TypeOK, StructureType
  <2>. QED BY <2>1, <2>2 DEF SentenceReset, SentenceBytes, SentenceTotal, LineEndBytes, VerdictOn
<1>. QED BY <1>0, <1>1, <1>2, SentenceByte DEF Next, sempBeginParser, sempStopParser

\* NMEA sentences, Parse_NMEA.c: whatever else the table holds and whatever line ends the
\* stream has, a sentence is judged once, complete with its two digits, and the byte that
\* shows a missing line end is not lost.
THEOREM FramesNmeaSentences == Spec => FramesNmea
<1>0. "NMEA" \in LineProtocols /\ ReserveOf("NMEA") = NMEA_BUFFER_OVERHEAD /\ DigitsOf("NMEA") = {2}
  BY DEF LineProtocols, ReserveOf, DigitsOf
<1>1. Init => NmeaFramer!Init
  BY <1>0, SentenceStart DEF SentenceReset, NmeaFramer!Init, NmeaFramer!Between, NmeaFramer!Unknown
<1>2. Inv /\ [Next]_vars => [NmeaFramer!Next]_(NmeaFramer!vars)
  <2>1. SentenceReset("NMEA")' => NmeaFramer!Reset
    BY DEF SentenceReset, NmeaFramer!Reset, NmeaFramer!Between, NmeaFramer!Unknown
  <2>2. SentenceStep("NMEA") => NmeaFramer!Byte /\ buffer_length' = buffer_length
    BY ZenonT(30), <1>0
       DEF SentenceStep, NoSentence, NmeaFramer!Byte, NmeaFramer!Drop, NmeaFramer!Elsewhere,
           NmeaFramer!Grow, NmeaFramer!Text, NmeaFramer!Asterisk, NmeaFramer!Digit,
           NmeaFramer!LineEnd, NmeaFramer!Judge, NmeaFramer!GiveUp, NmeaFramer!Unknown
  <2>. QED BY <1>0, <2>1, <2>2, SentenceNext DEF NmeaFramer!Next, NmeaFramer!vars
<1>. QED BY <1>1, <1>2, InvariantHolds, PTL DEF Spec, FramesNmea, NmeaFramer!Spec

\* The same for Unicore hash sentences, Parse_Unicore_Hash.c, with two or eight digits: the
\* name decides how many, and a sentence that outgrows the buffer is given up unjudged.
THEOREM FramesHashSentences == Spec => FramesUnicoreHash
<1>0. /\ "UnicoreHash" \in LineProtocols /\ DigitsOf("UnicoreHash") = {2, 8}
      /\ ReserveOf("UnicoreHash") = UNICORE_HASH_BUFFER_OVERHEAD
  BY DEF LineProtocols, ReserveOf, DigitsOf
<1>1. Init => UnicoreHashFramer!Init
  BY <1>0, SentenceStart
     DEF SentenceReset, UnicoreHashFramer!Init, UnicoreHashFramer!Between, UnicoreHashFramer!Unknown
<1>2. Inv /\ [Next]_vars => [UnicoreHashFramer!Next]_(UnicoreHashFramer!vars)
  <2>1. SentenceReset("UnicoreHash")' => UnicoreHashFramer!Reset
    BY DEF SentenceReset, UnicoreHashFramer!Reset, UnicoreHashFramer!Between, UnicoreHashFramer!Unknown
  <2>2. SentenceStep("UnicoreHash") => UnicoreHashFramer!Byte /\ buffer_length' = buffer_length
    BY ZenonT(30), <1>0
       DEF SentenceStep, NoSentence, UnicoreHashFramer!Byte, UnicoreHashFramer!Drop,
           UnicoreHashFramer!Elsewhere, UnicoreHashFramer!Grow, UnicoreHashFramer!Text,
           UnicoreHashFramer!Asterisk, UnicoreHashFramer!Digit, UnicoreHashFramer!LineEnd,
           UnicoreHashFramer!Judge, UnicoreHashFramer!GiveUp, UnicoreHashFramer!Unknown
  <2>. QED BY <1>0, <2>1, <2>2, SentenceNext DEF UnicoreHashFramer!Next, UnicoreHashFramer!vars
<1>. QED BY <1>1, <1>2, InvariantHolds, PTL DEF Spec, FramesUnicoreHash, UnicoreHashFramer!Spec

================================================================================
