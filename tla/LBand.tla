-------------------------------- MODULE LBand --------------------------------
(***************************************************************************)
(* Two parsers of lib/ in a row, as the header describes them: the stream  *)
(* of an L-Band receiver goes to the SBF parser first, and what is no SBF  *)
(* is fed, from inside invalidDataCallback, to a SPARTN parser with a      *)
(* parse structure of its own.  Both advance by whole bytes: the SPARTN    *)
(* parser takes all that it is handed before the SBF parser sees the next  *)
(* byte.                                                                   *)
(***************************************************************************)
EXTENDS ParseSbf

CONSTANTS Headers   \* what a SPARTN frame header may say

ASSUME SpartnHeaders ==
  Headers \subseteq [payloadLength : 0 .. 1023, EAF : {0, 1}, crcBytes : 1 .. 4]

VARIABLES
  pipe,     \* bytes that the callback has still to feed to the SPARTN parser
  spBufferLength, spState, spLength,
  frameCount, payloadLength, EAF, crcBytes, TF007toTF016, embedded,
  frame     \* out of the SPARTN parser

Spartn == INSTANCE ParseSpartn WITH
  bufferLength <- spBufferLength, state <- spState, length <- spLength, out <- frame

spVars == <<spBufferLength, spState, spLength, frameCount, payloadLength, EAF, crcBytes,
            TF007toTF016, embedded, frame>>

vars == <<sbfVars, pipe, spVars>>

\* The callback feeds the buffer of the SBF parser to the SPARTN parser.
SbfByte ==
  /\ pipe = 0
  /\ sempParseNextByte
  /\ pipe' = IF out'.result = "invalid" /\ invalidDataCallback THEN out'.len ELSE 0
  /\ UNCHANGED spVars

SpartnByte ==
  /\ pipe > 0
  /\ Spartn!sempParseNextByte
  /\ pipe' = pipe - 1
  /\ UNCHANGED sbfVars

SetCallback ==
  /\ pipe = 0
  /\ \E set \in BOOLEAN : sempSbfSetInvalidDataCallback(set)
  /\ UNCHANGED <<pipe, spVars>>

Init == SbfInit /\ Spartn!SpartnInit /\ pipe = 0

Next == SbfByte \/ SpartnByte \/ SetCallback

Spec == Init /\ [][Next]_vars

\* Bytes keep coming; a callback that has begun runs to its end.
FairSpec == Spec /\ WF_vars(SbfByte) /\ WF_vars(SpartnByte)

-----------------------------------------------------------------------------

SbfRoutines ==
  {"sempFirstByte", "sempSbfPreamble2", "sempSbfCRC1", "sempSbfCRC2", "sempSbfID1",
   "sempSbfID2", "sempSbfLengthLSB", "sempSbfLengthMSB", "sempSbfReadBytes"}

SpartnRoutines ==
  {"sempFirstByte", "sempSpartnReadTF002TF006", "sempSpartnReadTF007",
   "sempSpartnReadTF009", "sempSpartnReadTF016", "sempSpartnReadTF017",
   "sempSpartnReadTF018"}

SbfType ==
  /\ bufferLength \in Nat /\ length \in uint16_t /\ length <= bufferLength
  /\ state \in SbfRoutines
  /\ sbfLength = Unset \/ sbfLength \in uint16_t
  /\ bytesRemaining = Unset \/ bytesRemaining \in uint16_t
  /\ invalidDataCallback \in BOOLEAN

SpartnType ==
  /\ spBufferLength \in Nat /\ spLength \in uint16_t /\ spLength <= spBufferLength
  /\ spState \in SpartnRoutines
  /\ frameCount = Unset \/ frameCount \in uint16_t

\* Both parse structures hold values of their fields' types, neither parser has
\* written past its buffer, and the callback feeds no more than the SBF buffer holds.
TypeOK == SbfType /\ SpartnType /\ pipe \in 0 .. length

-----------------------------------------------------------------------------
(* The inductive invariant: where in its frame each parser is.             *)

\* A block that declares no more than its header is over when its 16-bit counter has come
\* round, which only a buffer of 64 KiB has room for.
Endless == state = "sempSbfReadBytes" /\ sbfLength < 12

\* The bytes of the block so far, of which length has the low 16 bits.
BlockRead == computedCRC + 4

SbfInv ==
  /\ bufferLength >= SEMP_MINIMUM_BUFFER_LENGTH
  /\ state = "sempSbfPreamble2" => length = 1
  /\ state = "sempSbfCRC1" => length = 2
  /\ state = "sempSbfCRC2" => length = 3
  /\ state = "sempSbfID1" => length = 4 /\ computedCRC = 0
  /\ state = "sempSbfID2" => length = 5 /\ computedCRC = 1
  /\ state = "sempSbfLengthLSB" => length = 6 /\ computedCRC = 2
  /\ state = "sempSbfLengthMSB" => length = 7 /\ computedCRC = 3 /\ sbfLength \in uint8_t
  /\ state = "sempSbfReadBytes" =>
       /\ computedCRC \in Nat /\ BlockRead >= 8 /\ length = BlockRead % UINT16
       /\ sbfLength \in uint16_t /\ sbfLength % 4 = 0 /\ bytesRemaining \in uint16_t
       /\ \/ ~Endless /\ BlockRead + bytesRemaining = sbfLength /\ bytesRemaining > 0
          \/ Endless /\ BlockRead = 8 /\ bytesRemaining = 0 /\ sbfLength = 8
          \/ Endless /\ BlockRead + bytesRemaining = UINT16 + sbfLength /\ bytesRemaining > 0

HeaderRead == payloadLength \in 0 .. 1023 /\ EAF \in {0, 1} /\ crcBytes \in 1 .. 4

FieldsRead ==
  HeaderRead /\ TF007toTF016 \in {4, 6, 8} /\ embedded \in {0, 8, 12, 16, 32, 64}

SpartnInv ==
  /\ spBufferLength >= SEMP_MINIMUM_BUFFER_LENGTH
  /\ spState = "sempSpartnReadTF002TF006" => frameCount \in 0 .. 2 /\ spLength = 1 + frameCount
  /\ spState = "sempSpartnReadTF007" => HeaderRead /\ spLength = 4
  /\ spState = "sempSpartnReadTF009" =>
       /\ HeaderRead /\ TF007toTF016 \in {4, 6, 8}
       /\ frameCount \in 1 .. TF007toTF016 - 1 /\ spLength = 4 + frameCount
  /\ spState = "sempSpartnReadTF016" =>
       /\ FieldsRead /\ frameCount \in uint16_t
       /\ spLength = (4 + TF007toTF016 + frameCount) % UINT16
       /\ frameCount < payloadLength \/ payloadLength = 0
  /\ spState = "sempSpartnReadTF017" =>
       /\ FieldsRead /\ frameCount \in 0 .. embedded - 1
       /\ spLength = 4 + TF007toTF016 + payloadLength + frameCount
  /\ spState = "sempSpartnReadTF018" =>
       /\ FieldsRead /\ frameCount \in 0 .. crcBytes - 1
       /\ spLength = Spartn!numBytes + frameCount

-----------------------------------------------------------------------------

\* The SBF parser implements LengthFramer: a block has 8 bytes of header and ends at
\* the byte that its length declares, where alone it is judged.  A block whose length
\* is that of its header or less is none to the framer: it is followed until the buffer
\* is full or, in one of 64 KiB and more, to the byte where the 16-bit counter has come
\* round, and what is judged there is no frame that the stream contained.
BlockLengths == {n \in uint16_t : n >= 12 /\ n % 4 = 0}
BlockBytes == IF state = "sempFirstByte" \/ Endless THEN 0 ELSE length
BlockTotal == IF state = "sempSbfReadBytes" /\ ~Endless THEN sbfLength ELSE Unset
BlockVerdict ==
  IF out.declared < 12 THEN "none"
  ELSE IF out.result = "delivered" THEN "delivered" ELSE "refused"

SbfFramer == INSTANCE LengthFramer WITH
  HeaderSizes <- {8}, Trailer <- 1, Lengths <- {n - 9 : n \in BlockLengths},
  room <- bufferLength, got <- BlockBytes, total <- BlockTotal, verdict <- BlockVerdict

FramesSbf == SbfFramer!Spec

\* The SPARTN parser implements LengthFramer too: what is before the payload has 8, 10
\* or 12 bytes, for the time tag is short or long and authentication is there or not,
\* and it fixes where the frame ends, behind one to four CRC bytes.  A frame whose header
\* declares no payload is none to the framer: its bytes are counted until the buffer is
\* full or, in one of 64 KiB and more, until the 16-bit counter has come round.
PayloadOn == {"sempSpartnReadTF016", "sempSpartnReadTF017", "sempSpartnReadTF018"}
NoPayload == spState \in PayloadOn /\ payloadLength = 0
FrameBytes == IF spState = "sempFirstByte" \/ NoPayload THEN 0 ELSE spLength
FrameTotal ==
  IF spState \in PayloadOn /\ ~NoPayload THEN Spartn!numBytes + crcBytes ELSE Unset
FrameVerdict ==
  IF payloadLength = 0 THEN "none"
  ELSE IF frame.result = "badCrc" THEN "refused" ELSE frame.result

SpartnFramer == INSTANCE LengthFramer WITH
  HeaderSizes <- {8, 10, 12}, Trailer <- 1, Lengths <- 1 .. 1023 + 64 + 3,
  room <- spBufferLength, got <- FrameBytes, total <- FrameTotal, verdict <- FrameVerdict

FramesSpartn == SpartnFramer!Spec

\* The CRC that judges an SBF block has absorbed everything behind the CRC field: of a
\* block that is no longer than its header and yet came to an end, 64 KiB more than the
\* length that is reported.
SbfCheckCoversBlock ==
  out.declared # Unset =>
    out.covered = (IF out.declared < 12 THEN UINT16 + out.len ELSE out.len) - 4

\* sempSpartnReadTF018 looks for the CRC at numBytes, which it computes from the header;
\* the bytes that were counted field by field end exactly behind that CRC.
SpartnCheckIsLast == frame.result # "none" => frame.len = frame.crcAt + frame.crcLen

\* Bytes that the SBF parser keeps for a block, and bytes that the last one released to
\* the application or to the SPARTN parser.
Kept == IF state = "sempFirstByte" THEN 0 ELSE length
Released == IF out.result = "delivered" THEN out.len ELSE pipe

Accounted == Kept + 1 = Kept' + Released'

\* The byte has a place in the buffer, and a number.
Fitting == HasRoom /\ length + 1 < UINT16

\* Once the callback is set, every byte of the stream is in the block that is being
\* read, in a block that was delivered, or has been handed on to the SPARTN parser, and
\* none is handed on twice, as long as blocks fit into the buffer and into 16 bits.
NoByteLost ==
  [][SbfByte /\ invalidDataCallback /\ (Fitting \/ Kept = 0) => Accounted]_vars

\* Whatever lengths the stream declares, the SBF parser is back at a first byte again
\* and again, and so is the SPARTN parser as long as bytes reach it.
LBandResynchronises ==
  /\ []<>(length <= 1)
  /\ []<>(pipe > 0) => []<>(spLength <= 1)

=============================================================================
