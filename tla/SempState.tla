------------------------------ MODULE SempState ------------------------------
(***************************************************************************)
(* The parse structure of my_parser (SEMP_PARSE_STATE, Message_Parser.h)   *)
(* and the operations every protocol handler is built from.                *)
(*                                                                         *)
(* One parser instance consumes a byte stream: sempParseNextByte stores    *)
(* the byte and calls the routine that parse->state points to.  Here the   *)
(* function pointer is the string `state' and each routine is an action.   *)
(*                                                                         *)
(* Data abstraction.                                                       *)
(*   buffer     its contents are kept only where the code reads them back: *)
(*              `declared' is the length field of a binary header and      *)
(*              `agree' counts the received check bytes as long as they    *)
(*              equal the computed check value.                            *)
(*   crc        a symbolic register: its seed, how many bytes of the frame *)
(*              it has absorbed, where it was complemented.  Which bytes a *)
(*              check covers is what the properties tell apart; the tables *)
(*              themselves are data.  A table-driven CRC register of W     *)
(*              bytes is zero after the check field exactly when each of   *)
(*              the W check bytes equalled the byte the register shifts    *)
(*              out, which is agree = W.                                   *)
(*   scratchPad a union of the protocols' areas.  A field the current      *)
(*              frame has not written holds whatever another protocol left *)
(*              there and is Unset.                                        *)
(***************************************************************************)
EXTENDS SempWord, Sequences, FiniteSets

CONSTANTS
  Bytes,           \* the byte values that arrive
  ParserTable,     \* parsers_table: the protocols in the order they are asked
  BufferRequests,  \* values of the bufferLength argument of sempBeginParser
  MessageLengths,  \* values of the 16-bit length field of a binary header
  BadCrcCallback   \* whether badCrcCallback is set (BOOLEAN)

Protocols ==
  {"Custom", "NMEA", "RTCM", "UBLOX", "UnicoreBinary", "UnicoreHash"}

ASSUME BytesAssumption == Bytes \subseteq uint8_t
ASSUME TableAssumption ==
  /\ ParserTable \in Seq(Protocols)
  /\ Len(ParserTable) \in uint8_t \ {0}
ASSUME RequestAssumption == BufferRequests \subseteq uint16_t
ASSUME LengthAssumption == MessageLengths \subseteq uint16_t
ASSUME BadCrcAssumption == BadCrcCallback \in BOOLEAN

SEMP_MINIMUM_BUFFER_LENGTH == 256

VARIABLES
  parse,          \* the caller's pointer: "nullptr" or "allocated"
  buffer_length,
  state,          \* the routine parse->state points to
  parser_type,    \* index in ParserTable, counted from 0
  msg_length,
  computeCrc,     \* the routine parse->computeCrc points to
  crc,
  scratchPad,
  declared,       \* length field of the frame in the buffer
  agree,          \* check bytes received and found equal, or Mismatch
  out             \* the callbacks made by the last call

instance == <<parse, buffer_length>>
fields   == <<scratchPad, declared, agree>>
vars     == <<parse, buffer_length, state, parser_type, msg_length,
              computeCrc, crc, scratchPad, declared, agree, out>>

-----------------------------------------------------------------------------
(* The check register and its routine.                                     *)

\* The value of `agree' once a check byte was different.
Mismatch == -1

\* sempUnicoreBinaryComputeCrc has no return statement: the value its caller
\* stores in parse->crc is whatever the build leaves in the result register.
Garbage(c) == [c EXCEPT !.seed = "undefined"]

\* parse->computeCrc(parse, data), when it is set.
Compute(routine, c) ==
  CASE routine = "nullptr" -> c
    [] routine = "sempUnicoreBinaryComputeCrc" -> Garbage(c)
    [] OTHER -> Absorb(c)

-----------------------------------------------------------------------------
(* The scratch pad.                                                        *)

ScratchUnset ==
  [bytesRemaining |-> Unset, sentenceNameLength |-> Unset,
   checksumBytes |-> Unset, ck |-> Unset]

ScratchZero ==
  [bytesRemaining |-> 0, sentenceNameLength |-> 0, checksumBytes |-> 0, ck |-> 0]

-----------------------------------------------------------------------------
(* Callbacks.                                                              *)

Silent ==
  [result |-> "none", proto |-> "none", type |-> 0, len |-> 0, sum |-> CrcZero,
   declared |-> Unset, width |-> 0]

\* A check that came out as ok: eomCallback is called when the check holds or
\* when badCrc, if there is one, overrules it.
Result(ok, overruled) ==
  CASE ok -> "passed"
    [] ~ok /\ ~BadCrcCallback -> "unreported"
    [] ~ok /\ BadCrcCallback /\ overruled -> "overruled"
    [] OTHER -> "refused"

\* The results with which a frame goes to eomCallback.
Delivered == {"passed", "overruled"}

\* The end of a frame with a check of `width' bytes.  `sum' is the check value
\* that was compared, `len' the msg_length that the application sees.
Verdict(proto, width, result, len, sum) ==
  [result |-> result, proto |-> proto, type |-> parser_type, len |-> len,
   sum |-> sum, declared |-> declared, width |-> width]

-----------------------------------------------------------------------------
(* sempParseNextByte up to the call of parse->state(parse, data).          *)

\* The byte fits in the buffer and `routine' is called with it.
Called(routine) ==
  state = routine /\ parse # "nullptr" /\ msg_length < buffer_length

\* The byte has been stored; the handler leaves c in parse->crc and selects
\* `routine' for the next byte without calling the application.
Continue(routine, c) ==
  /\ state' = routine
  /\ msg_length' = msg_length + 1
  /\ crc' = c
  /\ out' = Silent
  /\ UNCHANGED <<instance, parser_type, computeCrc>>

\* parse->crc after the byte that is being parsed.
Crc == Compute(computeCrc, crc)

\* The comparison of one more byte of the check field.
Agreed(match) == IF match /\ agree # Mismatch THEN agree + 1 ELSE Mismatch

=============================================================================
