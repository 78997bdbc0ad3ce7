----------------------------- MODULE SingleParser -----------------------------
(***************************************************************************)
(* The single-protocol parser of single_parser/semp_parser.c: AA 44 18,    *)
(* the rest of a 20-byte header, the data, a CRC-32, into a buffer that    *)
(* its caller provides.                                                    *)
(*                                                                         *)
(* It differs from ParseCustom in four ways that matter.  A frame longer   *)
(* than the buffer is not given up: its bytes are read but no longer       *)
(* stored.  The CRC is not run over its own bytes: the last four bytes of  *)
(* the buffer are compared with the saved register.  sempFirstByte does    *)
(* not select a state.  And a whole array can be handed over at once       *)
(* (sempProcessBuffer), which stops at the first byte answered with false. *)
(***************************************************************************)
EXTENDS SempWord

CONSTANTS
  Bytes,           \* the byte values that arrive
  MaxLengths,      \* values of the maxLength argument of sempInitParser
  MessageLengths,  \* values of the 16-bit length field of a header
  ArrayLengths,    \* values of the length argument of sempProcessBuffer
  CoverBound       \* the bytes of a frame that its CRC is followed for

ASSUME SingleBytes == Bytes \subseteq uint8_t
ASSUME SingleBuffers == MaxLengths \subseteq uint16_t
ASSUME SingleLengths == MessageLengths \subseteq uint16_t
ASSUME SingleArrays == ArrayLengths \subseteq uint16_t
ASSUME SingleCover ==
  CoverBound \in Nat /\ CoverBound > 20 /\ \A n \in MessageLengths : 20 + n < CoverBound

VARIABLES
  maxLength,
  state,            \* the routine parse->state points to
  length,           \* bytes in the buffer
  crc,
  bytesRemaining,   \* scratchPad->bluetooth.bytesRemaining
  saved,            \* scratchPad->bluetooth.crc
  declared,         \* messageLength of the header in the buffer
  answer,           \* what the last routine returned
  out,              \* the callback made by the last byte
  left,             \* sempProcessBuffer: bytes of the array not yet handed on
  processed,        \* its result so far
  consumed          \* how many bytes of the array have been parsed

frame == <<maxLength, state, length, crc, bytesRemaining, saved, declared>>
array == <<left, processed, consumed>>
vars  == <<maxLength, state, length, crc, bytesRemaining, saved, declared,
           answer, out, left, processed, consumed>>

SEMP_HEADER == 20   \* sizeof(SEMP_MESSAGE_HEADER)
SEMP_CRC_SIZE == 4

Quiet == [result |-> "none", len |-> 0, sum |-> CrcZero, declared |-> Unset]

\* Mutants: the test for room is missing, and it keeps one byte free.
StoredAlways == length + 1
StoredShort == IF length + 1 < maxLength THEN length + 1 ELSE length

\* parse->length after a byte that is stored as long as there is room.
Stored == IF length < maxLength THEN length + 1 ELSE length

\* sempBluetoothComputeCrc.  The count of bytes saturates at CoverBound, which no
\* frame reaches whose header is ever complete.
ComputeCrc(c) == IF c.cover < CoverBound THEN Absorb(c) ELSE c

\* The routine takes the byte into the frame and asks for more.
Take(routine, c) ==
  /\ state' = routine
  /\ length' = Stored
  /\ crc' = c
  /\ answer' = TRUE
  /\ out' = Quiet
  /\ UNCHANGED maxLength

\* The frame is forgotten; sempBluetoothPreamble begins one at an 0xAA.  At any
\* other byte parse->state stays as it is, also when a sync routine gave up.
sempFirstByte(data) ==
  /\ \/ /\ data = 170
        /\ state' = "sempBluetoothSync2"
        /\ length' = IF 0 < maxLength THEN 1 ELSE 0
        /\ crc' = ComputeCrc(CrcOnes)
        /\ answer' = TRUE
     \/ /\ data # 170
        /\ length' = 0
        /\ crc' = CrcZero
        /\ answer' = FALSE
        /\ UNCHANGED state
  /\ out' = Quiet
  /\ UNCHANGED <<maxLength, bytesRemaining, saved, declared>>

sempBluetoothSync2(data) ==
  /\ state = "sempBluetoothSync2"
  /\ \/ data # 68 /\ sempFirstByte(data)
     \/ /\ data = 68
        /\ Take("sempBluetoothSync3", ComputeCrc(crc))
        /\ UNCHANGED <<bytesRemaining, saved, declared>>

sempBluetoothSync3(data) ==
  /\ state = "sempBluetoothSync3"
  /\ \/ data # 24 /\ sempFirstByte(data)
     \/ /\ data = 24
        /\ Take("sempBluetoothReadHeader", ComputeCrc(crc))
        /\ UNCHANGED <<bytesRemaining, saved, declared>>

\* The data is complete: the register is complemented and kept for comparison.
ExpectCrc ==
  /\ Take("sempBluetoothReadCrc", Complement(ComputeCrc(crc)))
  /\ bytesRemaining' = SEMP_CRC_SIZE
  /\ saved' = Complement(ComputeCrc(crc))

\* Mutant: a message without data is not treated apart.
HeaderAcceptedPlain ==
  /\ declared' \in MessageLengths
  /\ Take("sempBluetoothReadData", ComputeCrc(crc))
  /\ bytesRemaining' = declared'
  /\ UNCHANGED saved

\* Mutant: the routine does not select the next one.
HeaderAcceptedStays ==
  /\ declared' \in MessageLengths
  /\ Take("sempBluetoothReadHeader", ComputeCrc(crc))
  /\ bytesRemaining' = declared'
  /\ UNCHANGED saved

\* The header says how much data follows; with none, the CRC is next.
HeaderAccepted ==
  /\ declared' \in MessageLengths
  /\ \/ declared' = 0 /\ ExpectCrc
     \/ /\ declared' # 0
        /\ Take("sempBluetoothReadData", ComputeCrc(crc))
        /\ bytesRemaining' = declared'
        /\ UNCHANGED saved

\* The headerLength byte is not 0x14.
HeaderRejected ==
  /\ state' = "sempFirstByte"
  /\ length' = Stored
  /\ crc' = ComputeCrc(crc)
  /\ answer' = FALSE
  /\ out' = Quiet
  /\ UNCHANGED <<maxLength, bytesRemaining, saved, declared>>

sempBluetoothReadHeader ==
  /\ state = "sempBluetoothReadHeader"
  /\ \/ /\ Stored < SEMP_HEADER
        /\ Take("sempBluetoothReadHeader", ComputeCrc(crc))
        /\ UNCHANGED <<bytesRemaining, saved, declared>>
     \/ Stored >= SEMP_HEADER /\ HeaderRejected
     \/ Stored >= SEMP_HEADER /\ HeaderAccepted

sempBluetoothReadData ==
  /\ state = "sempBluetoothReadData"
  /\ UNCHANGED declared
  /\ LET rest == Decrement(bytesRemaining, UINT16) IN
     \/ rest = 0 /\ ExpectCrc
     \/ /\ rest # 0
        /\ Take("sempBluetoothReadData", ComputeCrc(crc))
        /\ bytesRemaining' = rest
        /\ UNCHANGED saved

\* `equal' is whether the last four bytes of the buffer, which are those of the
\* CRC only if the frame fits, equal the saved register.
sempBluetoothReadCrc(equal) ==
  /\ state = "sempBluetoothReadCrc"
  /\ UNCHANGED <<saved, declared>>
  /\ LET rest == Decrement(bytesRemaining, UINT16) IN
     /\ bytesRemaining' = rest
     /\ \/ rest # 0 /\ Take("sempBluetoothReadCrc", crc)
        \/ /\ rest = 0
           /\ state' = "sempFirstByte"
           /\ length' = Stored
           /\ answer' = FALSE
           /\ out' = [result |-> IF equal THEN "delivered" ELSE "badCrc",
                      len |-> Stored, sum |-> saved, declared |-> declared]
           /\ UNCHANGED <<maxLength, crc>>

\* parse->state(parse, data)
sempProcessByte ==
  \/ state = "sempFirstByte" /\ \E data \in Bytes : sempFirstByte(data)
  \/ \E data \in Bytes : sempBluetoothSync2(data) \/ sempBluetoothSync3(data)
  \/ sempBluetoothReadHeader
  \/ sempBluetoothReadData
  \/ \E equal \in BOOLEAN : sempBluetoothReadCrc(equal)

-----------------------------------------------------------------------------
(* The application.                                                        *)

Init ==
  /\ maxLength \in MaxLengths
  /\ state = "sempFirstByte" /\ length = 0 /\ crc = CrcZero
  /\ bytesRemaining = 0 /\ saved = CrcZero
  /\ declared = Unset
  /\ answer = TRUE /\ out = Quiet
  /\ left = 0 /\ processed = 0 /\ consumed = 0

\* Between two calls the application can start over, with any buffer.
sempInitParser(n) ==
  /\ left = 0
  /\ maxLength' = n
  /\ state' = "sempFirstByte" /\ length' = 0 /\ crc' = CrcZero
  /\ bytesRemaining' = 0 /\ saved' = CrcZero
  /\ declared' = Unset
  /\ answer' = TRUE /\ out' = Quiet
  /\ left' = 0 /\ processed' = 0 /\ consumed' = 0

OneByte == left = 0 /\ sempProcessByte /\ UNCHANGED array

\* sempProcessBuffer is called with an array of n bytes, ...
sempProcessBuffer(n) ==
  /\ left = 0 /\ n > 0
  /\ left' = n /\ processed' = 0 /\ consumed' = 0
  /\ UNCHANGED <<frame, answer, out>>

\* ... and hands them on one by one until a routine answers false.
ArrayByte ==
  /\ left > 0
  /\ sempProcessByte
  /\ consumed' = consumed + 1
  /\ \/ answer' /\ processed' = processed + 1 /\ left' = left - 1
     \/ ~answer' /\ left' = 0 /\ UNCHANGED processed

Next ==
  \/ \E n \in MaxLengths : sempInitParser(n)
  \/ OneByte
  \/ \E n \in ArrayLengths : sempProcessBuffer(n)
  \/ ArrayByte

Spec == Init /\ [][Next]_vars

\* The stream goes on, byte by byte or in arrays.
FairSpec == Spec /\ WF_vars(OneByte) /\ WF_vars(ArrayByte)

-----------------------------------------------------------------------------
(* Correctness.                                                            *)

\* The routines that run once all three sync bytes have been seen.
Frames ==
  {"sempBluetoothReadHeader", "sempBluetoothReadData", "sempBluetoothReadCrc"}

\* The parse structure and the callback.
ParserType ==
  /\ maxLength \in uint16_t
  /\ state \in Frames \cup {"sempFirstByte", "sempBluetoothSync2", "sempBluetoothSync3"}
  /\ length \in uint16_t /\ length <= maxLength
  /\ crc \in CheckRegisters /\ saved \in CheckRegisters
  /\ bytesRemaining \in uint16_t
  /\ declared = Unset \/ declared \in uint16_t
  /\ answer \in BOOLEAN
  /\ out.result \in {"none", "delivered", "badCrc"} /\ out.len \in uint16_t

\* Every field has its type, the buffer is never overrun, and the counts of
\* sempProcessBuffer do not wrap.
TypeOK ==
  /\ ParserType
  /\ left \in uint16_t /\ processed \in uint16_t /\ consumed \in uint16_t

\* How much of n bytes is in the buffer.
Room(n) == IF n < maxLength THEN n ELSE maxLength

\* In each routine the CRC, the bytes left and the buffer agree on how far the
\* frame has come, as far as the buffer reaches.
FrameInv ==
  /\ state \in {"sempBluetoothSync2", "sempBluetoothSync3", "sempBluetoothReadHeader"} =>
       length = Room(crc.cover)
  /\ state = "sempBluetoothSync2" => crc.cover < 2
  /\ state = "sempBluetoothSync3" => crc.cover < 3
  /\ state = "sempBluetoothReadHeader" => length < SEMP_HEADER
  /\ state = "sempBluetoothReadData" =>
       /\ declared \in MessageLengths
       /\ bytesRemaining > 0 /\ bytesRemaining <= declared
       /\ crc.cover = (SEMP_HEADER + declared) - bytesRemaining
       /\ length = Room(crc.cover)
  /\ state = "sempBluetoothReadCrc" =>
       /\ declared \in MessageLengths
       /\ bytesRemaining > 0 /\ bytesRemaining <= SEMP_CRC_SIZE
       /\ saved.cover = SEMP_HEADER + declared /\ saved.inverted = saved.cover
       /\ length = Room((SEMP_HEADER + declared + SEMP_CRC_SIZE) - bytesRemaining)

\* What was true of the frame that the last byte ended.
ReportInv ==
  out.result # "none" =>
    /\ out.declared \in MessageLengths
    /\ out.sum.cover = SEMP_HEADER + out.declared
    /\ out.sum.inverted = out.sum.cover
    /\ out.len = Room(SEMP_HEADER + out.declared + SEMP_CRC_SIZE)

\* The inductive invariant.  sempProcessBuffer's result misses at most the byte
\* that stopped it.
Inv ==
  /\ TypeOK /\ FrameInv /\ ReportInv
  /\ left + consumed \in uint16_t
  /\ left > 0 => processed = consumed
  /\ processed <= consumed /\ consumed <= processed + 1

\* A frame ends where its length field says, also one without data and one that
\* is longer than the buffer: no routine reads past the data, and the CRC that is
\* compared covers the header and the declared data.
FrameEndsWhereDeclared ==
  /\ state = "sempBluetoothReadData" => crc.cover < SEMP_HEADER + declared
  /\ out.result # "none" =>
       /\ out.sum.cover = SEMP_HEADER + out.declared
       /\ out.sum.inverted = out.sum.cover

\* A frame that fits in the buffer is judged with all its bytes in it, so that
\* the four bytes compared are those of its CRC.
FittingFrameIsWhole ==
  out.result # "none" /\ SEMP_HEADER + out.declared + SEMP_CRC_SIZE <= maxLength =>
    out.len = SEMP_HEADER + out.declared + SEMP_CRC_SIZE

-----------------------------------------------------------------------------
(* The promise that the parser implements.                                 *)

\* The bytes of the frame so far.  A buffer that cannot hold a header never
\* leads to a frame, and bytes that were not begun by 0xAA count from where the
\* register started.
FrameBytes ==
  IF maxLength < SEMP_HEADER \/ state = "sempFirstByte" THEN 0
  ELSE IF state = "sempBluetoothReadCrc"
       THEN (SEMP_HEADER + declared + SEMP_CRC_SIZE) - bytesRemaining
       ELSE crc.cover

FrameTotal ==
  IF maxLength >= SEMP_HEADER /\ state \in {"sempBluetoothReadData", "sempBluetoothReadCrc"}
  THEN SEMP_HEADER + declared + SEMP_CRC_SIZE
  ELSE -1

Verdict ==
  CASE out.result = "delivered" -> "delivered"
    [] out.result = "badCrc"    -> "refused"
    [] OTHER                    -> "none"

\* A frame longer than the buffer is followed all the same: there always is room.
EndlessRoom == 2 * UINT16

Framer ==
  INSTANCE LengthFramer
    WITH HeaderSizes <- {SEMP_HEADER}, Trailer <- SEMP_CRC_SIZE, Lengths <- MessageLengths,
         room <- EndlessRoom, got <- FrameBytes, total <- FrameTotal, verdict <- Verdict

\* The parser is a framer: whatever bytes, arrays and buffers it is given, a frame
\* whose header is complete is followed to the byte its length field names, and
\* judged at that byte and never elsewhere; only sempInitParser takes a frame away.
ImplementsFramer == Framer!Spec

\* The frame that is being read began with the preamble byte 0xAA: after a bad
\* sync byte the parser, as the comment in sempBluetoothSync2 says, starts
\* searching again.
FrameHasPreamble == state \in Frames => crc.seed = "ones"

\* With a buffer that holds a header the parser keeps coming back to the search
\* for a preamble, whatever lengths the frames declare.
Resynchronises == []<>(maxLength < SEMP_HEADER \/ state \notin Frames)

=============================================================================
