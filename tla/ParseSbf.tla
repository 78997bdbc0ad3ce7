------------------------------- MODULE ParseSbf -------------------------------
(***************************************************************************)
(* Septentrio SBF, lib/Parse_SBF.cpp: $ @, CRC, block number, length, the  *)
(* rest of the block.  The CRC is in front, and covers what follows it.    *)
(* What turns out not to be SBF is handed to invalidDataCallback, with the *)
(* buffer holding it.                                                      *)
(*                                                                         *)
(* computedCRC is how many bytes it has absorbed; a field of the scratch   *)
(* pad is Unset until the frame writes it.                                 *)
(***************************************************************************)
EXTENDS LibCore

CONSTANTS SbfBytes   \* the byte values that arrive

ASSUME SbfBytesAreBytes == SbfBytes \subseteq uint8_t

VARIABLES
  computedCRC,
  sbfLength,             \* scratchPad->sbf.length
  bytesRemaining,
  invalidDataCallback,   \* whether the application has set it
  out                    \* what the last byte decided

scratch == <<computedCRC, sbfLength, bytesRemaining>>
sbfVars == <<bufferLength, state, length, computedCRC, sbfLength, bytesRemaining,
             invalidDataCallback, out>>

Undecided == [result |-> "none", len |-> 0, covered |-> 0, declared |-> Unset]

\* The bytes in the buffer are no SBF block.
Invalid(n) == [Undecided EXCEPT !.result = "invalid", !.len = n]

\* sempSbfPreamble, called by sempFirstByte.
Restart(data) ==
  /\ sempFirstByte(data = 36, "sempSbfPreamble2")
  /\ out' = IF data = 36 THEN Undecided ELSE Invalid(1)
  /\ computedCRC' = Unset /\ sbfLength' = Unset /\ bytesRemaining' = Unset

Continue(routine) == Go(routine) /\ out' = Undecided

\* The block is over and the byte belonged to it.
End(verdict) == Go("sempFirstByte") /\ out' = verdict

\* Mutant: the two bytes are dropped.
sempSbfPreamble2Drops(data) ==
  /\ In("sempSbfPreamble2")
  /\ UNCHANGED scratch
  /\ \/ data = 64 /\ Continue("sempSbfCRC1")
     \/ data # 64 /\ End(Undecided)

sempSbfPreamble2(data) ==
  /\ In("sempSbfPreamble2")
  /\ UNCHANGED scratch
  /\ \/ data = 64 /\ Continue("sempSbfCRC1")
     \/ data # 64 /\ End(Invalid(length'))

sempSbfCRC1 == In("sempSbfCRC1") /\ Continue("sempSbfCRC2") /\ UNCHANGED scratch

sempSbfCRC2 ==
  /\ In("sempSbfCRC2") /\ Continue("sempSbfID1")
  /\ computedCRC' = 0
  /\ UNCHANGED <<sbfLength, bytesRemaining>>

sempSbfID(routine, next) ==
  /\ In(routine) /\ Continue(next)
  /\ computedCRC' = computedCRC + 1
  /\ UNCHANGED <<sbfLength, bytesRemaining>>

\* Mutant: the byte is not absorbed.
sempSbfLengthLSBUncovered(data) ==
  /\ In("sempSbfLengthLSB") /\ Continue("sempSbfLengthMSB")
  /\ sbfLength' = data
  /\ UNCHANGED <<computedCRC, bytesRemaining>>

sempSbfLengthLSB(data) ==
  /\ In("sempSbfLengthLSB") /\ Continue("sempSbfLengthMSB")
  /\ computedCRC' = computedCRC + 1
  /\ sbfLength' = data
  /\ UNCHANGED bytesRemaining

\* Mutant: the header is not taken off.
sempSbfLengthMSBWhole(data) ==
  /\ In("sempSbfLengthMSB")
  /\ computedCRC' = computedCRC + 1
  /\ sbfLength' = sbfLength + 256 * data
  /\ \/ /\ sbfLength' % 4 = 0
        /\ bytesRemaining' = sbfLength'
        /\ Continue("sempSbfReadBytes")
     \/ sbfLength' % 4 # 0 /\ End(Invalid(length')) /\ UNCHANGED bytesRemaining

\* The length is that of the block with its 8 header bytes; the subtraction is in
\* 16 bits.
sempSbfLengthMSB(data) ==
  /\ In("sempSbfLengthMSB")
  /\ computedCRC' = computedCRC + 1
  /\ sbfLength' = sbfLength + 256 * data
  /\ \/ /\ sbfLength' % 4 = 0
        /\ bytesRemaining' = (sbfLength' - 8) % UINT16
        /\ Continue("sempSbfReadBytes")
     \/ sbfLength' % 4 # 0 /\ End(Invalid(length')) /\ UNCHANGED bytesRemaining

\* The CRC is right, or badCrc says so: accepted.
sempSbfReadBytes(accepted) ==
  /\ In("sempSbfReadBytes")
  /\ computedCRC' = computedCRC + 1
  /\ bytesRemaining' = Decrement(bytesRemaining, UINT16)
  /\ \/ bytesRemaining' # 0 /\ Continue("sempSbfReadBytes")
     \/ /\ bytesRemaining' = 0
        /\ End([result |-> IF accepted THEN "delivered" ELSE "invalid", len |-> length',
                covered |-> computedCRC', declared |-> sbfLength])
  /\ UNCHANGED sbfLength

\* Mutant: a byte that does not fit is dropped.
BufferFullDrops(data) ==
  ~HasRoom /\ out' = Undecided /\ UNCHANGED <<bufferLength, state, length, scratch>>

\* The buffer is full: the block is given up, its bytes are handed to nobody.
BufferFull(data) == ~HasRoom /\ Restart(data)

sempParseNextByte ==
  /\ \/ \E data \in SbfBytes :
          \/ BufferFull(data)
          \/ In("sempFirstByte") /\ Restart(data)
          \/ sempSbfPreamble2(data) \/ sempSbfLengthLSB(data) \/ sempSbfLengthMSB(data)
     \/ sempSbfCRC1 \/ sempSbfCRC2
     \/ sempSbfID("sempSbfID1", "sempSbfID2") \/ sempSbfID("sempSbfID2", "sempSbfLengthLSB")
     \/ \E accepted \in BOOLEAN : sempSbfReadBytes(accepted)
  /\ UNCHANGED invalidDataCallback

\* The application sets the callback, or takes it away.
sempSbfSetInvalidDataCallback(set) ==
  /\ invalidDataCallback' = set
  /\ UNCHANGED <<bufferLength, state, length, computedCRC, sbfLength, bytesRemaining, out>>

SbfInit ==
  /\ sempBeginParser
  /\ computedCRC = Unset /\ sbfLength = Unset /\ bytesRemaining = Unset
  /\ invalidDataCallback = FALSE
  /\ out = Undecided

=============================================================================
