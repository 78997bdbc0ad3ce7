# A TLA+ model of the my_parser message parsers

The repository parses byte streams of GNSS receivers and Bluetooth links into
messages. A parser is a state machine driven by one byte at a time: it stores
the byte, calls the routine its `state` pointer names, and that routine moves on,
gives the byte back to the search for a preamble, or ends the frame and calls
the application. The modules here model those state machines, TLC checks them
on small instances, and TLAPS proves the main invariants for every instance.

## The system

| Part | Source | State | Operations |
| --- | --- | --- | --- |
| Parser core | `my_parser/Message_Parser.c`, `.h` | `SEMP_PARSE_STATE`: state, parser_type, msg_length, buffer, crc, computeCrc, scratchPad | sempBeginParser, sempParseNextByte, sempFirstByte, sempStopParser |
| Custom (BT) | `my_parser/Parse_Custom.c` | bytesRemaining, CRC-32 | preamble, sync 2-3, header, data, CRC |
| NMEA | `my_parser/Parse_NMEA.c` | sentence name, checksum | preamble, first comma, asterisk, two digits, three line-end routines, validation |
| RTCM3 | `my_parser/Parse_RTCM.c` | bytesRemaining, CRC-24Q | preamble, two length bytes, message number, data, CRC |
| u-blox | `my_parser/Parse_UBLOX.c` | bytesRemaining, ck_a, ck_b | preamble, sync 2, class, id, length, payload, CK_A, CK_B |
| Unicore binary | `my_parser/Parse_Unicore_Binary.c` | bytesRemaining, CRC | as Custom, with a 24-byte header |
| Unicore hash | `my_parser/Parse_Unicore_Hash.c` | name, digits left, CRC-32 or checksum | as NMEA, with two or eight check digits |
| Single-protocol parser | `single_parser/semp_parser.c` | its own structure | init, byte, buffer |
| Multi-protocol parser | `single_parser/multi_protocol_parser.c` | its own structure, statistics, two function statics | init, byte, buffer, statistics |
| Receiver | `single_parser/multi_protocol_example.c` | one multi-protocol parser | UART, DMA, network and Bluetooth handlers, set-up |
| SBF and SPARTN | `lib/Parse_SBF.cpp`, `lib/Parse_SPARTN.cpp` and the core of `lib/` | a structure each | begin, next byte, the routines, the callback for invalid data |
| Rest of the original library | `lib/` | - | the code my_parser was ported from |
| Field splitter | `my_parser/Message_Parser.c` | its local variables | semp_util_parse_delimited_fields |
| Demos and tools | `my_parser/demo`, `single_parser/*_demo.c`, ... | - | feed byte arrays, print |

What interacts: the byte stream and the active routine; the routines of different
protocols, through the union scratch pad and through `crc`, `computeCrc` and
`parser_type`, which survive a frame; the core's buffer limit and the line
protocols, which append bytes of their own; the application, which can overrule
a failed check. In the receiver four sources feed one parser; in `lib/` one parser
feeds another with what it cannot use.

What is hard here: 16-bit counters decremented before they are tested, room
that one routine reserves and another uses, fields of a union read after another
protocol wrote it, a line end that is recognised only at the byte after it, a
stream that never brings the byte a routine waits for, and a line that loses,
changes or adds bytes.

Correctness, in one paragraph: a frame never leaves its buffer; what is
delivered is attributed to the protocol that parsed it, has been checked over
exactly the bytes the protocol protects and ends where its length field says; no
routine works with another frame's leftovers; a frame that the line leaves alone
arrives once, whatever happened to the one before; no byte is lost between two
parsers; and a parser always finds back to the start of a frame.

## Modules

| Module | Models |
| --- | --- |
| `SempWord` | what all parsers share: machine words, the symbolic check register, the characters of the line protocols |
| `SempState` | the parse structure, the scratch pad, what a callback sees, the part of sempParseNextByte before the routine is called |
| `SempScan` | the six preamble routines and sempFirstByte |
| `SempText` | what the line protocols share |
| `ParseCustom`, `ParseNmea`, `ParseRtcm`, `ParseUblox`, `ParseUnicore` | one action per routine of the protocol |
| `MessageParser` | begin, stop, next byte; their composition; the properties |
| `ParserInvariant` | the inductive invariant `Inv` |
| `ParserLemmas`, `BinaryProofs`, `TextProofs`, `MessageParserProofs` | its proofs |
| `LengthFramer` | what a length-delimited protocol promises: header, declared length, end, one verdict |
| `SentenceFramer` | what a line protocol promises: text, asterisk, check digits, line end, one verdict |
| `ParserFraming` | `MessageParser` as six framers: the refinement mappings for Custom, RTCM, u-blox, Unicore binary, NMEA and Unicore hash |
| `SingleParser`, `SingleParserProofs` | `single_parser/semp_parser.c`, its properties and their proofs |
| `MultiParser`, `MultiParserProofs` | `single_parser/multi_protocol_parser.c`, its properties and their proofs |
| `Receiver` | the application of `multi_protocol_example.c`: a parser fed by bytes and by arrays |
| `Link`, `LinkProofs` | a sender, a line with faults and the receiver; its properties and their proofs |
| `LibCore`, `ParseSbf`, `ParseSpartn` | the core of `lib/` and two of its protocols |
| `LBand`, `LBandProofs` | the SBF parser feeding the SPARTN parser, its properties and their proofs |
| `FieldSplit` | the field splitter of Message_Parser.c |
| `MCParser`, `MCSingle`, `MCMulti`, `MCLink`, `MCLBand` | instances for TLC |

### Correspondence

`state` is the routine the function pointer names, as a string, and each routine
is an action of the same name. `Called(r)` is the entry of sempParseNextByte:
the byte fits and `r` is called. `Continue` stores the byte and stays in the
frame, `Restart` hands the byte to sempFirstByte, `Finish` ends a binary frame
and `FinishLine` a sentence. sempParseNextByte's first test, the full buffer, is
its first disjunct. sempUbloxCkA is only called by sempUbloxPayload, so it is the
second alternative of that action.

Data is abstract where the properties do not depend on it:

- The buffer's contents are kept only where the code reads them back: the
  declared length (`declared`, chosen from `MessageLengths` when the header of a
  Custom or Unicore binary frame is complete, computed from the bytes for RTCM
  and u-blox) and the check bytes (`agree` counts those that equalled the
  computed value).
- The check register `crc` is symbolic: what it was seeded with, how many bytes
  it absorbed, where it was complemented. A table-driven CRC whose register is
  zero after its own check bytes is `agree` = their number.
- A scratch-pad field that the current frame has not written is `Unset`,
  whatever bytes of the union another protocol left there.
- sempUnicoreBinaryComputeCrc has no return statement. The value is undefined,
  so whether the register is zero at the end of the frame is a free choice.
- `valid` and `allocated` stand for the argument tests of sempBeginParser and for
  malloc; `overruled` is what badCrc answers.
- `out` records the callback made by the last call, for the properties.

`SingleParser` and `MultiParser` follow the same conventions, with the names of
their sources. In `SingleParser`, `Take` stores a byte if there is room and goes
on, and sempProcessBuffer is a call (`left` bytes to go) followed by one
`ArrayByte` per turn of its loop; `consumed` counts those turns. Whether the
last four stored bytes equal the saved CRC is a free choice. In `MultiParser`,
`In(r)` is mmpProcessByte up to the call of `r`, `Restart` the call of
mmpFirstByte from a routine, `End` the end of a frame. mmpInitParser may come at
any byte and leaves `lengthBytes` alone; if that makes the parser read a length
from a single byte, bytesRemaining is any of `MessageLengths`, because the rest
of it is what the union held.

`LengthFramer` knows only how many bytes of a frame have come (`got`), how many it
will have (`total`, once the header is complete) and the verdict. The refinement
mappings read `got` and `total` off the concrete state: in `MessageParser` from
`msg_length` and `declared` while a routine of the protocol is active (`GotOf`,
`TotalOf`), in `SingleParser` from what the CRC has covered, in `MultiParser` (once for
SEMP, once for u-blox) from `length` and `declared`, in `LBand` from the SBF block and from
the SPARTN frame. `HeaderSizes` has more than one element only for SPARTN, whose fields
before the payload take 8, 10 or 12 bytes. A frame of `MessageParser` with less data than its counter handles (see `zero_length`),
an SBF block that declares no more than its header (`Endless`: its counter wraps, so that the
full buffer ends it or, in a buffer beyond 64 KiB, 65536 further bytes), a SPARTN frame without
payload (`NoPayload`, likewise), and a u-blox frame whose length field was not read after a
second set-up (`LengthSkipped`, see `multi_restart`), are no frames to the mapping.

`SentenceFramer` is its counterpart for the line protocols, which have no length field:
the asterisk fixes `total`, two or eight digits later, and the line end (`ended`) is not
stored. It says how far text may come near the end of the buffer (`Reserve`), that the
digits are counted exactly, that a sentence whose digits have come is judged once, and that
only the byte that shows its line end to be over, or no room, can end it. The mappings take
`got` from `msg_length` (the routines take a CR or LF back out of it), `total` from the digits
that the routine or its counter still waits for, and `ended` from the routine.

`Receiver` adds the loop of mmpProcessBuffer: `left` bytes of the array to go, and
`skipped`, the bytes behind the one that made it return, which its callers drop.
The handlers run one after the other, as `main` calls them. In `Link` the sender's
frames are those of multi_protocol_demo.c with data of any length, in the run a short
one; the sentence has `data` characters between its comma and its asterisk. Beside sync
and length bytes, each byte of a SEMP or u-blox frame is any of `Contents`, so that a payload, a
class or a check can look like the beginning of a frame to a parser that is out of step. What the bytes of an
undisturbed frame say is the sender's: the header is one, it has the sender's length, the check
is right (`Reads`); once a fault has touched the frame both are free. A fault is a
byte lost, changed or inserted, an array instead of single bytes, or a set-up in the
middle of the stream; SetUpAgain leaves out the middle of a u-blox length field, which
is `multi_restart`.

In `LBand` the two parsers have a structure each, as the comment on
SEMP_INVALID_DATA_CALLBACK describes. The callback runs inside the SBF parser's step, so
its loop over the buffer (`pipe` bytes to go) finishes before the next SBF byte. The
SBF bytes are values, because preamble and length depend on them; those that reach
the SPARTN parser are free, what a complete header says is one of `Headers`. That
loses the dependence of the second stream on the first, so everything shown of the
SPARTN parser holds for any bytes. sempBeginParser with refused arguments and
sempStopParser of `lib/` are left out. The buffer's length is a size_t there while `length`
has 16 bits, so `length` is counted modulo 65536 and buffers may be longer than that.

`FieldSplit` chooses each character of the sentence when the loop reads it.

Widths are the code's own: `msg_length` and `bytesRemaining` wrap at 65536, the
digit counter of the hash protocol at 256.

## Runs

| Run | Instance | Shows |
| --- | --- | --- |
| `stress` | the five-protocol table of `demo/stress_test.c`, buffer 256, 13 byte values | all safety properties, `FrameAdvances`, `LengthFramer` implemented by RTCM, u-blox and Unicore binary, and `SentenceFramer` by Unicore hash |
| `resync` | Custom (`demo/func_test.c`) before Unicore binary and NMEA, buffers 256 and 257, no badCrc, fair | the Custom protocol at the edges of the buffer and of the length field, in one table with the other protocol that begins with 0xAA; `Resynchronises`; `LengthFramer` implemented by Custom and `SentenceFramer` by NMEA |
| `zero_length` | Custom | violated: a Custom frame without data does not end after its CRC |
| `hash_buffer` | Unicore hash alone, the bytes of `stress` | violated: a two-digit hash sentence can be delivered longer than the buffer |
| `single` | buffers 0 to 27, lengths 0 to 6, arrays up to 30, fair | the single-protocol parser: safety, `Resynchronises`, and `LengthFramer` implemented |
| `single_preamble` | same | violated: a frame can begin at its second or third sync byte |
| `multi` | buffer 256, 15 byte values, fair | the multi-protocol parser: safety, `Resynchronises`, `LengthFramer` implemented by SEMP and by u-blox, and `SentenceFramer` by NMEA |
| `multi_zero_byte` | same | violated: the zero byte after the longest sentence is past the buffer |
| `multi_restart` | same | violated: after mmpInitParser a u-blox length can be read from one byte |
| `link` | three frames with contents that look like preambles, noise, one fault, arrays of 3, buffer 256, fair | how the parser keeps in step with the sender, and what arrives over a bad line |
| `lband` | buffers of 32 for both, 6 byte values, 3 SPARTN headers, fair | SBF and SPARTN in a row: safety, nothing lost in between, `LengthFramer` implemented by SBF and by SPARTN, both find back |
| `field_split` | up to 3 fields of up to 4 characters | violated: a field past the array is written and counted |

Properties of `MessageParser`; `TypeOK`, `FrameEndsWhereDeclared`, `CheckCoversFrame`
and `Resynchronises` mean the same in the parsers of `single_parser`. The runs check all of
them but `FrameEndsWhereDeclared` and `InStepWithoutFaults`, which the refinements and
`ParserFollows` contain; these two are proved.

- `TypeOK`: every field has its C type.
- `TypeNamesParser`: the active routine, parser_type and computeCrc belong to the
  same protocol, and the type in a callback is its table index.
- `FrameInBuffer`: a frame, and a delivered sentence with its CR, LF and zero
  byte, lie in the buffer. Two-digit hash sentences are excluded and are the
  subject of `HashSentenceInBuffer`.
- `ScratchPadWritten`: no routine reads a field its frame has not written.
- `CheckCoversFrame`: an accepted frame was checked over the right bytes.
- `FrameEndsWhereDeclared`: a binary frame ends where its length says, for
  lengths the counters handle (RTCM from 3, Custom and Unicore binary from 1).
- `FrameAdvances`: each byte ends a frame, starts one or brings it nearer its end.
- `Resynchronises`: the parser is at the start of a frame again and again.
- `FittingFrameIsWhole` (single): a frame that fits is judged with all its bytes in
  the buffer, so that its own CRC bytes are compared.
- `TypeNamesProtocol` (multi): routine, type and CRC routine belong together, and
  the table index is the enum value that the callback gets.
- `FramesCustom`, `FramesRtcm`, `FramesUblox`, `FramesUnicoreBinary`, `ImplementsFramer` (single),
  `FramesSemp`, `FramesUblox` (multi), `FramesSbf`, `FramesSpartn` (lband): seen through one binary protocol, the
  parser is a `LengthFramer`. A frame whose header is complete ends at the byte its length
  names or when it outgrows the buffer, it is judged once, and nothing is judged
  that was not framed.
- `FramesNmea` (resync and multi), `FramesUnicoreHash`: seen through one line protocol, the parser is
  a `SentenceFramer`.
- `ParserFollows` (link): while a frame is sent that the parser took the first byte of, that
  fits the buffer and that no fault touches, the parser holds exactly the bytes sent so
  far, is in the routine for the next one and has read the sender's length; after its
  last byte it searches. As long as nothing has failed, every frame is such a frame.
- `UndisturbedFrameDelivered` (link): a frame whose first byte the parser takes for
  one, that fits, and which no fault touches, is delivered once, at its last byte, under its
  protocol and with all its bytes.
- `InStepWithoutFaults` (link): without faults, and if all frames fit, the first byte of
  every frame is taken for one, and noise is never judged.
- `StaysInStep` (link): from any point where the parser follows a frame, or searches where
  the sender is between frames, it stays in step until the next fault, also after faults.
- `ReturnsBetweenFrames` (link): where mmpProcessBuffer gives the rest of an array
  back, no frame is under way.
- `Recovers` (link): frames are delivered again and again, however a fault has put the parser
  out of step, unless bytes within frames are taken for preambles for ever (`FalseStart`).
  The exception is needed: mmpFirstByte takes the first preamble it meets, so a sender that
  repeats a u-blox frame whose payload is the beginning of another one can lead a parser that
  lost one byte past the true start every time. What remains is about the rest of the parser:
  no false frame, false length, full buffer, dropped array or second set-up keeps it from the
  frames that follow.
- `SbfCheckCoversBlock`, `SpartnCheckIsLast` (lband): the SBF check covers all that follows
  it (65536 bytes more than the reported length for an `Endless` block that came to its end);
  the SPARTN check is read where its bytes are, at the end.
- `NoByteLost` (lband): each byte is in the block under way, in a delivered block, or
  has been handed to the SPARTN parser once. A block that outgrows the buffer is
  excepted: the code drops it, though the header says that any invalid data is
  passed on. So is the byte at which the 16-bit `length` comes round in a buffer beyond 64 KiB.
- `LBandResynchronises` (lband): both parsers come back to a first byte.

Bounds. The buffer is 256 bytes, the smallest the parser allocates, so it is a
real size and short enough that frames overflow it. The byte sets hold every
value a routine tests for and one it does not; more bytes behave like the latter.
Lengths are none, the shortest, the longest that fits, one more, and 65535, which
with 0 makes the counters wrap. A name character (68, 'D') and its repetition
reach the name limit of 16. The single-protocol parser takes any buffer, so its
buffers are none, shorter than a header, and around the lengths of short frames;
`CoverBound` caps the bytes counted by the CRC in a header that never completes
because the buffer is too short, which is also why its `Resynchronises` asks for 20
bytes. The link sends a SEMP frame without data, a u-blox frame with one byte and a short
sentence; the length a damaged SEMP header declares is 0 or more than the buffer.
The contents are a byte that is nothing to the parser, `$`, and both sync bytes of u-blox. One
fault is enough to put the parser out of step; what it meets there, false starts with false
lengths included, is in the contents. That a later fault does no harm to what the parser
has recognised is proved for any number of them; `Recovers`, which is only model-checked, is shown after one. `lband` uses the smallest
buffer of `lib/`, 32 bytes, which SBF lengths from 0 to 12 and 36 wrap, fit and
overflow; its SPARTN headers include a payload of 0. Buffers beyond 64 KiB are out of TLC's
reach and are left to the proofs. Deadlock is checked in every run: a parser can always
be begun, fed or stopped.

Fairness. `FairSpec` is weak fairness of sempParseNextByte: bytes keep arriving.
For the other parsers it is weak fairness of mmpProcessByte, and of a byte handed
over alone or in an array; in `link`, of the sender; in `lband`, of a byte for the SBF
parser and of the callback's loop. Without it nothing has to happen; that is the only assumption, and callbacks
return because they are part of the step.

## Proofs

`MessageParserProofs` proves, for every table, byte set, buffer request, length
set and callback setting that the assumptions of `SempState` allow:

| Theorem | Statement |
| --- | --- |
| `InvariantHolds` | `Spec => []Inv` |
| `TypeCorrect` | `Spec => []TypeOK` |
| `FramesFit` | `Spec => []FrameInBuffer` |
| `ChecksCover` | `Spec => []CheckCoversFrame` |
| `TypeIsRight` | `Spec => []TypeNamesParser` |
| `ScratchPadsWritten` | `Spec => []ScratchPadWritten` |
| `FramesEnd` | `Spec => []FrameEndsWhereDeclared` |
| `FramesAdvance` | `Spec => FrameAdvances` |
| `FramesCustomFrames` | `Spec => FramesCustom` |
| `FramesRtcmFrames` | `Spec => FramesRtcm` |
| `FramesUbloxFrames` | `Spec => FramesUblox` |
| `FramesUnicoreFrames` | `Spec => FramesUnicoreBinary` |
| `FramesNmeaSentences` | `Spec => FramesNmea` |
| `FramesHashSentences` | `Spec => FramesUnicoreHash` |

The four theorems on binary frames are one argument. For each protocol a lemma (`CustomCalls`, `RtcmCalls`,
`UbloxCalls`, `UnicoreBinaryCalls`, `NmeaCalls`, `UnicoreHashCalls`) says what a call of its
routines can do: let its own frame grow, with the length field read once, when the
header is complete; judge it; or hand the byte to sempFirstByte, which a binary
routine does only before the length is known. `Inv` after the call then tells how far
the frame is from its header's and from its own end (`AfterCall`), so that the call
is a step of the protocol's framer (`OwnCall`); a call of any other protocol's routine is
one outside of frames (`ForeignCall`). This holds for every table, also when
Custom and Unicore binary, which share a first byte, are both in it.

The two theorems on sentences go routine by routine (`NmeaSentences`, `UnicoreHashSentences`),
because a sentence may be handed back at any byte up to its last digit and its end is in no
field: every routine behind the asterisk has its own number of digits due. `Inv` gives that a
hash sentence's counter is not zero while digits come, so that it does not wrap.

`SingleParserProofs` proves the same way, for every buffer size (also none), length
and stream, `SingleInvariant` (`[]Inv`), `SingleTypeCorrect`, `SingleFramesEnd` and
`SingleFramesWhole`. Its `Inv` says that CRC, bytes left and buffer agree on how far
the frame has come: the buffer holds the first `maxLength` bytes of what the CRC has
seen.

It also proves `SingleImplementsFramer`, `Spec => ImplementsFramer`: the initial states map
to initial states of `LengthFramer`, and each action to a step of it or a stutter,
with `SingleParser`'s `Inv` as the invariant.

`MultiParserProofs` proves, for every buffer from 256 to 65535 bytes, byte set, set of
length fields and stream, `MultiProgress` (`[]Inv`), `MultiTypes` (`[]TypeOK`),
`MultiTypeNamesProtocol`, `MultiFrameEnds` (`[]FrameEndsWhereDeclared`),
`MultiCheckCovers` (`[]CheckCoversFrame`), and that the parser implements `LengthFramer`
seen as SEMP (`MultiFramesSemp`) and as u-blox (`MultiFramesUblox`), and `SentenceFramer`
seen as NMEA (`MultiFramesNmea`). `Inv` has one
conjunct per protocol (`SempInv`, `NmeaInv`, `UbloxInv`): where each routine stands in
its frame, what the check has covered, and for NMEA that the rest of a sentence still
fits. The induction needs, beside it, the types, that routine and protocol belong
together (`Owner`), and what holds of the last report (`ReportInv`). A u-blox frame that
meets a stale lengthBytes has no declared length: `Inv` lets it pass, and the
refinement maps it to no frame.

`LinkProofs` proves, for every buffer, every set of SEMP, NMEA and u-blox frames, any
number of faults and arrays of any length:

| Theorem | Statement |
| --- | --- |
| `LinkParserFollows` | `LinkSpec => []ParserFollows` |
| `LinkDelivers` | `LinkSpec => []UndisturbedFrameDelivered` |
| `LinkInStep` | `LinkSpec => []InStepWithoutFaults` |
| `LinkStaysInStep` | `LinkSpec => StaysInStep` |
| `LinkLengthFieldRead` | `LinkSpec => []LengthFieldRead` |
| `LinkReturnsBetweenFrames` | `LinkSpec => ReturnsBetweenFrames` |

That a frame arrives says nothing of the bytes before its last one, so it is not
inductive. The invariant `LinkInv` adds the induction invariant of `MultiParser`, the
types of the line, and `ParserFollows`: the sender's place in the frame is the parser's.
From there one byte is a case of the frame's protocol (`SempFollows`, `UbloxFollows`,
`NmeaFollows`): the byte that the sender's position dictates is the one the routine waits
for, the counters of `MultiParser`'s `Inv` give the length, and the length field, sent as
two bytes, reads back as the number that was sent (`LengthSplit`). A fault ends
`intact` and has nothing to preserve but the parser's own invariant. That without
faults every frame is followed needs that noise leaves the parser between frames: its
bytes are no preambles (`LinkNoise`, an assumption on the constants, as the streams of
the demos are).

`LinkStaysInStep` needs one case more than `LinkInStep`: a parser that is in step after
faults need not have a frame behind it, and the first byte of the next one is taken for one
because a parser that searches takes every preamble (`FirstByteTaken`).
`LinkLengthFieldRead` is the other side of `multi_restart`: that lengthBytes survives
mmpInitParser is the only way to read a u-blox length from one byte. It holds for a
receiver that is not set up again within a length field, and lengthBytes is then 1 only
there.

`LBandProofs` proves `LBandType` (`[]TypeOK`), `SbfCheckCovers` (`[]SbfCheckCoversBlock`),
`SpartnCheckLast` (`[]SpartnCheckIsLast`), `BytesAccounted` (`NoByteLost`),
`SbfImplementsFramer` (`FramesSbf`) and `SpartnImplementsFramer` (`FramesSpartn`), for buffers of any length, all bytes and all headers. Two
invariants carry it: `SbfInv` relates, routine by routine, the buffer, the bytes
absorbed by the CRC, the declared length and the bytes remaining. The bytes of the block
(`BlockRead`) are counted by the CRC, for `length` has only their low 16 bits: in a buffer beyond 64 KiB
an `Endless` block ends after 65536 bytes more than it declares, and `SbfInv` says that
`length` and `bytesRemaining` then come round together. `SpartnInv` relates `length` to the fields
already read, modulo 65536 while a payload of 0 is counted, so that the position
computed from the declared lengths and the bytes counted one by one agree at TF018. The
refinement of SPARTN shows that this position is fixed when the last field before the
payload has been read, and that each routine after it brings the frame one byte nearer.

The assumptions are the C types of the arguments: bytes are 8 bits; lengths and buffers of
`my_parser` and `single_parser` 16; buffers of `lib/`, a size_t, any natural number; the table
has between 1 and 255 entries of the six protocols.

None of the properties is inductive: that a frame ends where declared needs how
far it has come, and that its check covers it needs how many bytes the register
had absorbed by then. `Inv` adds, for each routine, how msg_length, the bytes left,
the declared length and the check register relate while it is active (`FrameInv`),
and what was true of the frame that the last callback saw (`CallbackInv`). The
proof has one lemma per routine, in `BinaryProofs` and `TextProofs`, on the common
lemmas of `ParserLemmas` about Continue, Finish and sempFirstByte. TLC checks `Inv`
in the runs `stress` and `resync`, that of `SingleParser` in `single`, that of `MultiParser` in
`multi`, and `ParserFollows` in `link`.

Every invariant and every action property that a passing run checks is also a
theorem. Only model-checked: liveness (`Resynchronises` of the three parsers,
`LBandResynchronises`, `Recovers`), which needs fairness and ENABLED, beyond this
prover; and the violated properties, for which a counterexample is what there is to
show.

## Not modelled

Printing and names; callbacks that re-enter the parser (none in the repository
does); the CRC polynomials and tables; the other string helpers of
Message_Parser.c, which no parser calls; the statistics report; several
multi-protocol parsers, which would share the static scratch pad and lengthBytes;
interrupts that preempt each other (the programs call the handlers in turn); the
parsers of `lib/` that my_parser's were ported from; the remaining demos, which only
print. The reasons are in PROJECT.json.

Seen on the way, without a run of their own:

- sempUnicoreBinaryComputeCrc has no return statement: whether a Unicore binary frame
  passes does not depend on its CRC bytes.
- sempUnicoreHashValidateCrc prints when a CRC-32 is wrong and does not call badCrc, which
  Message_Parser.h says is called when the default check fails.
- mmpNmeaValidateChecksum delivers a bad sentence when badCrc answers false; the callback of
  multi_protocol_example.c answers false to discard it.
- mmpProcessBuffer stops at the first byte outside a frame, and testStreamData of
  multi_protocol_demo.c, whose comment says that the whole stream is processed, drops
  what is behind its first frame.
- sempProcessBuffer's result does not count the byte that stops it (`Inv` of
  `SingleParser` says so), though `semp_parser.h` calls it the number of bytes processed.
- A byte outside a frame is added to totalBytes by mmpProcessByte and again by
  mmpFirstByte.
- onMessageComplete of multi_protocol_example.c copies up to 1024 bytes into 512.
- sempInitParser of the single-protocol parser takes any buffer; with less than 20 bytes the
  header is never complete and the parser stays in it.
- In `lib/`, `$ $ @` is not found as the start of an SBF block; invalidDataCallback lies in
  the union of scratch areas, so SBF must not share a structure with another parser;
  `length` has 16 bits and bufferLength 32, so that in a buffer beyond 64 KiB a block that declares
  no more than its header, or a SPARTN frame without payload, is judged after 65536 further bytes.
- scratchPadBytes close to 65535 is aligned to 0 in 16 bits and then raised to the
  minimum; a leading zero byte makes the field splitter read behind an empty
  sentence.

## Plan

1. Two instances of `MultiParser` that share the static scratch pad and lengthBytes.
2. Callbacks that stop the parser.
