------------------------------ MODULE MultiParser ------------------------------
(***************************************************************************)
(* The multi-protocol parser of single_parser/multi_protocol_parser.c:     *)
(* SEMP, NMEA and u-blox frames in one stream; RTCM is recognised and      *)
(* turned away.  It has the shape of MessageParser with a table of its own,*)
(* statistics, and two function statics that mmpInitParser does not reset: *)
(* the scratch pad and the lengthBytes of mmpUbloxReadLength.              *)
(*                                                                         *)
(* A scratch-pad field is Unset until the frame writes it.  The statistics *)
(* are left out, but for whether the last call judged a frame.             *)
(***************************************************************************)
EXTENDS SempWord, Sequences

CONSTANTS
  Bytes,           \* the byte values that arrive
  BufferLengths,   \* bufferLength arguments of mmpInitParser
  MessageLengths   \* values of a SEMP length field, and of stale u-blox lengths

ASSUME MultiBytes == Bytes \subseteq uint8_t
ASSUME MultiBuffers == BufferLengths \subseteq uint16_t
ASSUME MultiLengths == MessageLengths \subseteq uint16_t

VARIABLES
  bufferLength,
  state,         \* the routine parse->state points to
  type,          \* parse->type
  computeCrc,    \* whether parse->computeCrc is mmpSempComputeCrc
  crc,
  length,
  scratchPad,
  declared,      \* the length field of the frame in the buffer
  lengthBytes,   \* static in mmpUbloxReadLength
  answer,        \* what the last call of mmpProcessByte returned
  out            \* the frame that the last call judged

vars == <<bufferLength, state, type, computeCrc, crc, length, scratchPad,
          declared, lengthBytes, answer, out>>

MMP_MINIMUM_BUFFER_LENGTH == 256
MMP_PROTOCOL == [SEMP |-> 0, NMEA |-> 1, UBLOX |-> 2, RTCM |-> 3]
MMP_PROTOCOL_COUNT == 8
MMP_SEMP_HEADER == 20

ScratchUnset ==
  [bytesRemaining |-> Unset, crc |-> CrcZero, sentenceNameLength |-> Unset,
   checksum |-> Unset]

NoFrame ==
  [result |-> "none", protocol |-> Unset, type |-> Unset, equal |-> FALSE,
   len |-> 0, covered |-> 0, declared |-> Unset]

\* A frame is judged: messagesProcessed or crcErrors is counted and the
\* application is called.
Judged(protocol, accepted, equal, len, covered) ==
  [result |-> IF accepted THEN "delivered" ELSE "error",
   protocol |-> MMP_PROTOCOL[protocol], type |-> type, equal |-> equal,
   len |-> len, covered |-> covered, declared |-> declared]

-----------------------------------------------------------------------------
(* The search for a preamble.                                              *)

\* Mutant: two entries are swapped.
mmp_parserTableSwapped == <<"NMEA", "SEMP", "UBLOX", "RTCM">>

mmp_parserTable == <<"SEMP", "NMEA", "UBLOX", "RTCM">>

\* The preamble routine that claims a byte; mmpRtcmPreamble claims none.
Claims(data) == [SEMP |-> data = 170, NMEA |-> data = 36, UBLOX |-> data = 181, RTCM |-> FALSE]

\* The new frame, whose preamble routine selects state, CRC and scratch area.
mmpSempPreamble ==
  /\ state' = "mmpSempSync2" /\ computeCrc' = TRUE
  /\ crc' = Absorb(CrcOnes) /\ scratchPad' = ScratchUnset

mmpNmeaPreamble ==
  /\ state' = "mmpNmeaFindFirstComma" /\ computeCrc' = FALSE
  /\ crc' = CrcZero /\ scratchPad' = [ScratchUnset EXCEPT !.sentenceNameLength = 0]

mmpUbloxPreamble ==
  /\ state' = "mmpUbloxSync2" /\ computeCrc' = FALSE
  /\ crc' = CrcZero /\ scratchPad' = ScratchUnset

mmpFirstByte(data) ==
  /\ length' = 1
  /\ declared' = Unset
  /\ UNCHANGED <<bufferLength, lengthBytes>>
  /\ \/ \E i \in 1 .. Len(mmp_parserTable) :
          /\ Claims(data)[mmp_parserTable[i]]
          /\ type' = i - 1 /\ answer' = TRUE
          /\ \/ mmp_parserTable[i] = "SEMP" /\ mmpSempPreamble
             \/ mmp_parserTable[i] = "NMEA" /\ mmpNmeaPreamble
             \/ mmp_parserTable[i] = "UBLOX" /\ mmpUbloxPreamble
     \/ /\ \A i \in 1 .. Len(mmp_parserTable) : ~Claims(data)[mmp_parserTable[i]]
        /\ state' = "mmpFirstByte" /\ type' = MMP_PROTOCOL_COUNT /\ answer' = FALSE
        /\ computeCrc' = FALSE /\ crc' = CrcZero /\ scratchPad' = ScratchUnset

-----------------------------------------------------------------------------
(* The routines.  In(r) is mmpProcessByte up to the call of r: the byte is *)
(* stored and, in a SEMP frame, absorbed by the CRC.                       *)

\* Mutant: the last place of the buffer is taken for two.
HasRoomPast == length <= bufferLength

\* Mutant: the length of the buffer is kept in eight bits.
HasRoomNarrow == length < bufferLength % UINT8

HasRoom == length < bufferLength

In(routine) == state = routine /\ HasRoom

Computed == IF computeCrc THEN Absorb(crc) ELSE crc

\* The routine goes on in the same frame.
Go(routine) ==
  /\ state' = routine
  /\ length' = length + 1
  /\ answer' = TRUE
  /\ out' = NoFrame
  /\ UNCHANGED <<bufferLength, type, computeCrc>>

\* The byte is given to mmpFirstByte.
Restart(data) == mmpFirstByte(data) /\ out' = NoFrame

\* The frame is over and the byte belonged to it.
End(verdict) ==
  /\ state' = "mmpFirstByte"
  /\ length' = length + 1
  /\ crc' = Computed
  /\ answer' = FALSE
  /\ out' = verdict
  /\ UNCHANGED <<bufferLength, type, computeCrc, declared, lengthBytes>>

SearchByte(data) == In("mmpFirstByte") /\ Restart(data)

mmpSempSync(routine, next, sync, data) ==
  /\ In(routine)
  /\ \/ data # sync /\ Restart(data)
     \/ /\ data = sync /\ Go(next) /\ crc' = Computed
        /\ UNCHANGED <<scratchPad, declared, lengthBytes>>

\* Data complete: the register is complemented and saved.
ExpectCrc ==
  /\ Go("mmpSempReadCrc")
  /\ crc' = Complement(Computed)
  /\ scratchPad' = [scratchPad EXCEPT !.bytesRemaining = 4, !.crc = Complement(Computed)]
  /\ UNCHANGED lengthBytes

\* Mutant: a message without data is not treated apart.
mmpSempHeaderCompletePlain ==
  /\ declared' \in MessageLengths
  /\ Go("mmpSempReadData") /\ crc' = Computed
  /\ scratchPad' = [scratchPad EXCEPT !.bytesRemaining = declared']
  /\ UNCHANGED lengthBytes

\* The header is complete and its headerLength is 0x14.
mmpSempHeaderComplete ==
  /\ declared' \in MessageLengths
  /\ \/ declared' = 0 /\ ExpectCrc
     \/ /\ declared' # 0
        /\ Go("mmpSempReadData") /\ crc' = Computed
        /\ scratchPad' = [scratchPad EXCEPT !.bytesRemaining = declared']
        /\ UNCHANGED lengthBytes

mmpSempReadHeader ==
  /\ In("mmpSempReadHeader")
  /\ \/ /\ length + 1 < MMP_SEMP_HEADER
        /\ Go("mmpSempReadHeader") /\ crc' = Computed
        /\ UNCHANGED <<scratchPad, declared, lengthBytes>>
     \/ length + 1 >= MMP_SEMP_HEADER /\ mmpSempHeaderComplete
     \/ length + 1 >= MMP_SEMP_HEADER /\ End(NoFrame) /\ UNCHANGED scratchPad

mmpSempReadData ==
  /\ In("mmpSempReadData")
  /\ UNCHANGED declared
  /\ LET left == Decrement(scratchPad.bytesRemaining, UINT16) IN
     \/ left = 0 /\ ExpectCrc
     \/ /\ left # 0 /\ Go("mmpSempReadData") /\ crc' = Computed
        /\ scratchPad' = [scratchPad EXCEPT !.bytesRemaining = left]
        /\ UNCHANGED lengthBytes

\* The answer of badCrc only decides what is printed.
mmpSempReadCrc(equal) ==
  /\ In("mmpSempReadCrc")
  /\ LET left == Decrement(scratchPad.bytesRemaining, UINT16) IN
     /\ scratchPad' = [scratchPad EXCEPT !.bytesRemaining = left]
     /\ \/ /\ left # 0 /\ Go("mmpSempReadCrc") /\ crc' = Computed
           /\ UNCHANGED <<declared, lengthBytes>>
        \/ /\ left = 0
           /\ End(Judged("SEMP", equal, equal, length + 1, scratchPad.crc.inverted))

\* A byte of an NMEA sentence outside its checksum.
Uncovered(next) == Go(next) /\ UNCHANGED <<crc, scratchPad, declared, lengthBytes>>

\* Mutant: the comma after the name is left out of the checksum.
mmpNmeaNameCommaUncovered(data) ==
  /\ data = Comma /\ scratchPad.sentenceNameLength # 0
  /\ Go("mmpNmeaFindAsterisk")
  /\ UNCHANGED <<crc, scratchPad, declared, lengthBytes>>

\* The comma after the name.
mmpNmeaNameComma(data) ==
  /\ data = Comma /\ scratchPad.sentenceNameLength # 0
  /\ Go("mmpNmeaFindAsterisk")
  /\ crc' = Absorb(crc)
  /\ UNCHANGED <<scratchPad, declared, lengthBytes>>

mmpNmeaFindFirstComma(data) ==
  /\ In("mmpNmeaFindFirstComma")
  /\ \/ mmpNmeaNameComma(data)
     \/ /\ data # Comma \/ scratchPad.sentenceNameLength = 0
        /\ \/ ~IsNameCharacter(data)
           \/ scratchPad.sentenceNameLength >= SEMP_SENTENCE_NAME_BYTES - 1
        /\ Restart(data)
     \/ /\ IsNameCharacter(data)
        /\ scratchPad.sentenceNameLength < SEMP_SENTENCE_NAME_BYTES - 1
        /\ Go("mmpNmeaFindFirstComma")
        /\ crc' = Absorb(crc)
        /\ scratchPad' = [scratchPad EXCEPT !.sentenceNameLength = @ + 1]
        /\ UNCHANGED <<declared, lengthBytes>>

mmpNmeaFindAsterisk(data) ==
  /\ In("mmpNmeaFindAsterisk")
  /\ \/ data = Asterisk /\ Uncovered("mmpNmeaChecksumByte1")
     \/ data # Asterisk /\ length + 1 + 5 > bufferLength /\ Restart(data)
     \/ /\ data # Asterisk /\ length + 1 + 5 <= bufferLength
        /\ Go("mmpNmeaFindAsterisk")
        /\ crc' = Absorb(crc)
        /\ UNCHANGED <<scratchPad, declared, lengthBytes>>

mmpNmeaChecksumByte(routine, next, data) ==
  /\ In(routine)
  /\ \/ semp_util_asciiToNibble(data) >= 0 /\ Uncovered(next)
     \/ semp_util_asciiToNibble(data) < 0 /\ Restart(data)

\* The checksum is right, or a badCrc callback answers false: the sentence is
\* delivered with CR and LF appended.
mmpNmeaValidateChecksum(equal, answeredFalse) ==
  LET accepted == equal \/ answeredFalse IN
  Judged("NMEA", accepted, equal, length + (IF accepted THEN 2 ELSE 0), crc.cover)

\* Mutant: a sentence without a line end is dropped.
mmpNmeaLineTerminationStrict(data, equal, answeredFalse) ==
  /\ In("mmpNmeaLineTermination")
  /\ answeredFalse => ~equal
  /\ \/ /\ data \in {CR, LF}
        /\ out' = mmpNmeaValidateChecksum(equal, answeredFalse)
        /\ state' = "mmpFirstByte"
        /\ length' = out'.len
        /\ answer' = TRUE
        /\ UNCHANGED <<bufferLength, type, computeCrc, crc, scratchPad, declared, lengthBytes>>
     \/ data \notin {CR, LF} /\ Restart(data)

\* The byte after the digits is not stored.  A line end is dropped, any other
\* byte may start the next frame.
mmpNmeaLineTermination(data, equal, answeredFalse) ==
  /\ In("mmpNmeaLineTermination")
  /\ answeredFalse => ~equal
  /\ out' = mmpNmeaValidateChecksum(equal, answeredFalse)
  /\ \/ /\ data \in {CR, LF}
        /\ state' = "mmpFirstByte"
        /\ length' = out'.len
        /\ answer' = TRUE
        /\ UNCHANGED <<bufferLength, type, computeCrc, crc, scratchPad, declared, lengthBytes>>
     \/ data \notin {CR, LF} /\ mmpFirstByte(data)

mmpUbloxSync2(data) ==
  /\ In("mmpUbloxSync2")
  /\ \/ data # 98 /\ Restart(data)
     \/ data = 98 /\ Uncovered("mmpUbloxReadClass")

mmpUbloxReadClass == In("mmpUbloxReadClass") /\ Uncovered("mmpUbloxReadMessageId")

\* checksumA and checksumB are how many bytes they have summed: class and id.
mmpUbloxReadMessageId ==
  /\ In("mmpUbloxReadMessageId")
  /\ Go("mmpUbloxReadLength")
  /\ scratchPad' = [scratchPad EXCEPT !.checksum = 2]
  /\ UNCHANGED <<crc, declared, lengthBytes>>

\* The length low byte, or the high byte if lengthBytes says that the low one
\* has been read.  If an earlier frame left it so, bytesRemaining still is what
\* the union holds.
mmpUbloxReadLength(data) ==
  /\ In("mmpUbloxReadLength")
  /\ UNCHANGED crc
  /\ \/ /\ lengthBytes = 0
        /\ Go("mmpUbloxReadLength")
        /\ scratchPad' = [scratchPad EXCEPT !.bytesRemaining = data, !.checksum = @ + 1]
        /\ declared' = data
        /\ lengthBytes' = 1
     \/ /\ lengthBytes = 1
        /\ \E left \in IF declared = Unset THEN MessageLengths ELSE {declared + 256 * data} :
             /\ Go(IF left = 0 THEN "mmpUbloxChecksumA" ELSE "mmpUbloxReadData")
             /\ scratchPad' = [scratchPad EXCEPT !.bytesRemaining = left, !.checksum = @ + 1]
             /\ declared' = IF declared = Unset THEN Unset ELSE left
        /\ lengthBytes' = 0

\* Mutant: the byte that brings the counter to zero is followed by one more.
mmpUbloxReadDataLate ==
  /\ In("mmpUbloxReadData")
  /\ UNCHANGED <<crc, declared, lengthBytes>>
  /\ LET left == Decrement(scratchPad.bytesRemaining, UINT16) IN
     /\ Go(IF scratchPad.bytesRemaining = 0 THEN "mmpUbloxChecksumA" ELSE "mmpUbloxReadData")
     /\ scratchPad' = [scratchPad EXCEPT !.bytesRemaining = left, !.checksum = @ + 1]

mmpUbloxReadData ==
  /\ In("mmpUbloxReadData")
  /\ UNCHANGED <<crc, declared, lengthBytes>>
  /\ LET left == Decrement(scratchPad.bytesRemaining, UINT16) IN
     /\ Go(IF left = 0 THEN "mmpUbloxChecksumA" ELSE "mmpUbloxReadData")
     /\ scratchPad' = [scratchPad EXCEPT !.bytesRemaining = left, !.checksum = @ + 1]

mmpUbloxChecksumA(equal) ==
  /\ In("mmpUbloxChecksumA")
  /\ \/ equal /\ Uncovered("mmpUbloxChecksumB")
     \/ /\ ~equal /\ UNCHANGED scratchPad
        /\ End(Judged("UBLOX", FALSE, FALSE, length + 1, scratchPad.checksum))

mmpUbloxChecksumB(equal) ==
  /\ In("mmpUbloxChecksumB")
  /\ UNCHANGED scratchPad
  /\ End(Judged("UBLOX", equal, equal, length + 1, scratchPad.checksum))

-----------------------------------------------------------------------------
\* Mutant: a byte that does not fit is dropped.
BufferFullDrops(data) == ~HasRoom /\ UNCHANGED vars

\* The buffer is full: the frame is given up.
BufferFull(data) ==
  ~HasRoom /\ mmpFirstByte(data) /\ out' = NoFrame

\* mmpProcessByte in the routines that look at the byte, ...
LooksAt(data) ==
  \/ BufferFull(data) \/ SearchByte(data)
  \/ mmpSempSync("mmpSempSync2", "mmpSempSync3", 68, data)
  \/ mmpSempSync("mmpSempSync3", "mmpSempReadHeader", 24, data)
  \/ mmpNmeaFindFirstComma(data) \/ mmpNmeaFindAsterisk(data)
  \/ mmpNmeaChecksumByte("mmpNmeaChecksumByte1", "mmpNmeaChecksumByte2", data)
  \/ mmpNmeaChecksumByte("mmpNmeaChecksumByte2", "mmpNmeaLineTermination", data)
  \/ \E equal, answeredFalse \in BOOLEAN : mmpNmeaLineTermination(data, equal, answeredFalse)
  \/ mmpUbloxSync2(data) \/ mmpUbloxReadLength(data)

\* ... and in those that only count it or compare it with a check.
PassesOver ==
  \/ mmpSempReadHeader \/ mmpSempReadData
  \/ mmpUbloxReadClass \/ mmpUbloxReadMessageId \/ mmpUbloxReadData
  \/ \E equal \in BOOLEAN :
       mmpSempReadCrc(equal) \/ mmpUbloxChecksumA(equal) \/ mmpUbloxChecksumB(equal)

mmpProcessByte == PassesOver \/ \E data \in Bytes : LooksAt(data)

Init ==
  /\ bufferLength \in {n \in BufferLengths : n >= MMP_MINIMUM_BUFFER_LENGTH}
  /\ state = "mmpFirstByte" /\ type = MMP_PROTOCOL_COUNT
  /\ computeCrc = FALSE /\ crc = CrcZero /\ length = 0
  /\ scratchPad = ScratchUnset /\ declared = Unset
  /\ lengthBytes = 0 /\ answer = FALSE /\ out = NoFrame

\* The parser is set up again, possibly within a frame; the statics stay.
mmpInitParser(n) ==
  /\ n >= MMP_MINIMUM_BUFFER_LENGTH
  /\ bufferLength' = n
  /\ state' = "mmpFirstByte" /\ type' = MMP_PROTOCOL_COUNT
  /\ computeCrc' = FALSE /\ crc' = CrcZero /\ length' = 0
  /\ scratchPad' = ScratchUnset /\ declared' = Unset
  /\ answer' = FALSE /\ out' = NoFrame
  /\ UNCHANGED lengthBytes

Next == mmpProcessByte \/ \E n \in BufferLengths : mmpInitParser(n)

Spec == Init /\ [][Next]_vars

\* Bytes keep arriving.
FairSpec == Spec /\ WF_vars(mmpProcessByte)

-----------------------------------------------------------------------------
(* Correctness.                                                            *)

SempRoutines ==
  {"mmpSempSync2", "mmpSempSync3", "mmpSempReadHeader", "mmpSempReadData", "mmpSempReadCrc"}
NmeaRoutines ==
  {"mmpNmeaFindFirstComma", "mmpNmeaFindAsterisk", "mmpNmeaChecksumByte1",
   "mmpNmeaChecksumByte2", "mmpNmeaLineTermination"}
UbloxRoutines ==
  {"mmpUbloxSync2", "mmpUbloxReadClass", "mmpUbloxReadMessageId", "mmpUbloxReadLength",
   "mmpUbloxReadData", "mmpUbloxChecksumA", "mmpUbloxChecksumB"}

ScratchPads ==
  [bytesRemaining : uint16_t \cup {Unset}, crc : CheckRegisters,
   sentenceNameLength : Unset .. SEMP_SENTENCE_NAME_BYTES - 1, checksum : Int]

\* Every field has its type; a frame, and a delivered sentence with its line
\* end, lies in the buffer.
TypeOK ==
  /\ bufferLength \in uint16_t /\ bufferLength >= MMP_MINIMUM_BUFFER_LENGTH
  /\ state \in {"mmpFirstByte"} \cup SempRoutines \cup NmeaRoutines \cup UbloxRoutines
  /\ type \in 0 .. MMP_PROTOCOL_COUNT
  /\ computeCrc \in BOOLEAN
  /\ crc \in CheckRegisters /\ scratchPad \in ScratchPads
  /\ length \in uint16_t /\ length <= bufferLength
  /\ declared = Unset \/ declared \in uint16_t
  /\ lengthBytes \in {0, 1} /\ answer \in BOOLEAN
  /\ out.len <= bufferLength

\* The active routine, parse->type and computeCrc belong to one protocol, and the
\* protocol that a callback names is the one mmpGetActiveProtocol reports: the
\* order of mmp_parserTable is that of MMP_PROTOCOL_TYPE.
TypeNamesProtocol ==
  /\ state \in SempRoutines => type = MMP_PROTOCOL.SEMP /\ computeCrc
  /\ state \in NmeaRoutines => type = MMP_PROTOCOL.NMEA /\ ~computeCrc
  /\ state \in UbloxRoutines => type = MMP_PROTOCOL.UBLOX /\ ~computeCrc
  /\ out.result # "none" => out.type = out.protocol

\* A binary frame ends where its length field says.  A u-blox frame whose length
\* field was not read, see LengthFieldRead, is left out.
FrameEndsWhereDeclared ==
  /\ state = "mmpSempReadData" =>
       scratchPad.bytesRemaining + length = MMP_SEMP_HEADER + declared
  /\ state = "mmpUbloxReadData" /\ declared # Unset =>
       scratchPad.bytesRemaining + length = 6 + declared
  /\ out.result = "delivered" /\ out.declared # Unset =>
       out.len = out.declared + (IF out.protocol = MMP_PROTOCOL.SEMP THEN 24 ELSE 8)

\* What was judged had been checked over exactly the bytes its protocol protects:
\* all but the CRC of a SEMP frame, what is between $ and * of a sentence, all but
\* sync bytes and checksum of a u-blox frame.
CheckCoversFrame ==
  out.result = "delivered" =>
    out.covered = out.len - (CASE out.protocol = MMP_PROTOCOL.SEMP  -> 4
                               [] out.protocol = MMP_PROTOCOL.NMEA  -> 6
                               [] out.protocol = MMP_PROTOCOL.UBLOX -> 4)

\* However the stream goes on, the parser comes back to the first byte of a frame.
Resynchronises == []<>(state = "mmpFirstByte" \/ length <= 1)

-----------------------------------------------------------------------------
(* The inductive invariant: how far the frame in the buffer has come.      *)

SempInv ==
  /\ state = "mmpSempSync2" => length = 1 /\ crc.cover = 1
  /\ state = "mmpSempSync3" => length = 2 /\ crc.cover = 2
  /\ state = "mmpSempReadHeader" => length \in 3 .. MMP_SEMP_HEADER - 1 /\ crc.cover = length
  /\ state = "mmpSempReadData" =>
       /\ declared \in MessageLengths /\ scratchPad.bytesRemaining \in 1 .. declared
       /\ scratchPad.bytesRemaining + length = MMP_SEMP_HEADER + declared
       /\ crc.cover = length
  /\ state = "mmpSempReadCrc" =>
       /\ declared \in MessageLengths /\ scratchPad.bytesRemaining \in 1 .. 4
       /\ scratchPad.bytesRemaining + length = MMP_SEMP_HEADER + declared + 4
       /\ scratchPad.crc.inverted = MMP_SEMP_HEADER + declared

\* From the first comma on there is room for *, two digits, CR and LF.
NmeaInv ==
  /\ state \in NmeaRoutines => declared = Unset
  /\ state = "mmpNmeaFindFirstComma" =>
       /\ scratchPad.sentenceNameLength >= 0
       /\ length = 1 + scratchPad.sentenceNameLength /\ crc.cover = length - 1
  /\ state = "mmpNmeaFindAsterisk" => length + 5 <= bufferLength /\ crc.cover = length - 1
  /\ state = "mmpNmeaChecksumByte1" => length + 4 <= bufferLength /\ crc.cover = length - 2
  /\ state = "mmpNmeaChecksumByte2" => length + 3 <= bufferLength /\ crc.cover = length - 3
  /\ state = "mmpNmeaLineTermination" => length + 2 <= bufferLength /\ crc.cover = length - 4

\* A u-blox frame that meets a stale lengthBytes has no declared length.
UbloxInv ==
  /\ state \in {"mmpUbloxSync2", "mmpUbloxReadClass", "mmpUbloxReadMessageId"} => declared = Unset
  /\ state = "mmpUbloxSync2" => length = 1
  /\ state = "mmpUbloxReadClass" => length = 2
  /\ state = "mmpUbloxReadMessageId" => length = 3
  /\ state = "mmpUbloxReadLength" =>
       \/ declared = Unset /\ length = 4 /\ scratchPad.checksum = 2
       \/ /\ declared \in uint8_t /\ lengthBytes = 1 /\ length = 5 /\ scratchPad.checksum = 3
  /\ state = "mmpUbloxReadData" =>
       /\ scratchPad.bytesRemaining > 0 /\ scratchPad.checksum = length - 2
       /\ declared # Unset => scratchPad.bytesRemaining + length = 6 + declared
  /\ state = "mmpUbloxChecksumA" =>
       scratchPad.checksum = length - 2 /\ (declared # Unset => length = 6 + declared)
  /\ state = "mmpUbloxChecksumB" =>
       scratchPad.checksum = length - 3 /\ (declared # Unset => length = 7 + declared)

\* While a routine is active, the bytes in the buffer, the bytes that are still to
\* come, the bytes under the check and the declared length agree on how far the frame
\* has come.
Inv == SempInv /\ NmeaInv /\ UbloxInv

-----------------------------------------------------------------------------
(* The promises that the protocols implement.                              *)

VerdictOn(protocol) ==
  IF out.result = "none" \/ out.protocol # MMP_PROTOCOL[protocol] \/ out.declared = Unset
  THEN "none"
  ELSE IF out.result = "delivered" THEN "delivered" ELSE "refused"

SempBytes == IF state \in SempRoutines THEN length ELSE 0

SempTotal ==
  IF state \in {"mmpSempReadData", "mmpSempReadCrc"} THEN MMP_SEMP_HEADER + declared + 4 ELSE -1

SempFramer ==
  INSTANCE LengthFramer
    WITH HeaderSizes <- {MMP_SEMP_HEADER}, Trailer <- 4, Lengths <- MessageLengths,
         room <- bufferLength, got <- SempBytes, total <- SempTotal,
         verdict <- VerdictOn("SEMP")

\* A u-blox frame whose length field is not read as such, see LengthFieldRead.
LengthSkipped ==
  /\ declared = Unset
  /\ \/ state = "mmpUbloxReadLength" /\ lengthBytes = 1
     \/ state \in {"mmpUbloxReadData", "mmpUbloxChecksumA", "mmpUbloxChecksumB"}

UbloxBytes == IF state \in UbloxRoutines /\ ~LengthSkipped THEN length ELSE 0

UbloxTotal ==
  IF /\ state \in {"mmpUbloxReadData", "mmpUbloxChecksumA", "mmpUbloxChecksumB"}
     /\ ~LengthSkipped
  THEN 6 + declared + 2 ELSE -1

UbloxFramer ==
  INSTANCE LengthFramer
    WITH HeaderSizes <- {6}, Trailer <- 2, Lengths <- {lo + 256 * hi : lo, hi \in Bytes},
         room <- bufferLength, got <- UbloxBytes, total <- UbloxTotal,
         verdict <- VerdictOn("UBLOX")

\* Seen as SEMP and as u-blox frames, the stream is framed by the length fields: a
\* frame whose header is complete ends at the byte that its length field names, or
\* when it outgrows the buffer, and is judged once, at one of its check bytes; no
\* byte of another protocol, and no text in between, disturbs that.
FramesSemp == SempFramer!Spec
FramesUblox == UbloxFramer!Spec

\* The same for NMEA sentences.  Their line end is over with its first byte; the LF of
\* CR LF is a byte of the search.
NmeaBytes == IF state \in NmeaRoutines THEN length ELSE 0

NmeaTotal ==
  CASE state = "mmpNmeaChecksumByte1" -> length + 2
    [] state = "mmpNmeaChecksumByte2" -> length + 1
    [] state = "mmpNmeaLineTermination" -> length
    [] OTHER -> -1

NmeaVerdict ==
  IF out.result = "none" \/ out.protocol # MMP_PROTOCOL.NMEA THEN "none"
  ELSE IF out.result = "delivered" THEN "delivered" ELSE "refused"

NmeaFramer ==
  INSTANCE SentenceFramer
    WITH Digits <- {2}, Reserve <- 5, room <- bufferLength, got <- NmeaBytes,
         total <- NmeaTotal, ended <- 0, verdict <- NmeaVerdict

\* Seen as NMEA sentences, the stream is one of complete sentences: what is judged had
\* its asterisk and its two digits, was judged once, at the very next byte, and that
\* byte is not lost when it begins the next frame.
FramesNmea == NmeaFramer!Spec

\* The zero byte that mmpNmeaValidateChecksum writes after CR and LF lies in the
\* buffer, as the comment on the room that mmpNmeaFindAsterisk keeps says.
ZeroByteInBuffer ==
  out.result = "delivered" /\ out.protocol = MMP_PROTOCOL.NMEA => out.len < bufferLength

\* A u-blox payload is read only after both bytes of its length: mmpInitParser
\* initialises the parser state.
LengthFieldRead == state = "mmpUbloxReadData" => declared # Unset

=============================================================================
