--------------------------------- MODULE Link ---------------------------------
(***************************************************************************)
(* A sender, a line and the receiver.  The sender sends SEMP, NMEA and     *)
(* u-blox frames one after the other, with noise in between, as the        *)
(* streams of multi_protocol_demo.c and multi_protocol_example.c do.  The  *)
(* line loses, changes and inserts bytes, the receiver gives up the rest   *)
(* of an array or is set up again: a bounded number of faults.             *)
(*                                                                         *)
(* Header, payload and check bytes other than sync bytes and u-blox        *)
(* lengths are any of Contents, preamble and sync bytes among them; what   *)
(* they say to a parser that follows the frame is said by `Reads'.         *)
(***************************************************************************)
EXTENDS Receiver

CONSTANTS
  Frames,      \* the frames sent: a protocol and the length of its data
  Contents,    \* bytes within SEMP and u-blox frames
  Noise,       \* bytes between frames
  MaxFaults    \* bound on the faults of a behaviour

ASSUME LinkFrames ==
  \A f \in Frames :
    /\ f.protocol \in {"SEMP", "NMEA", "UBLOX"} /\ f.data \in uint16_t
    /\ f.protocol = "SEMP" => f.data \in MessageLengths
ASSUME LinkContents == Contents \subseteq uint8_t
ASSUME LinkNoise == Noise \subseteq uint8_t /\ Noise \cap {170, 36, 181} = {}
ASSUME LinkFaults == MaxFaults \in Nat

VARIABLES
  frame,    \* the frame that is being sent, or was sent last
  sent,     \* how many bytes of it
  intact,   \* the parser took its first byte for one, and no fault touched it
  faults

linkVars == <<receiverVars, frame, sent, intact, faults>>

Silence == [protocol |-> "none", data |-> 0]

FrameLength(f) ==
  [SEMP |-> MMP_SEMP_HEADER + f.data + 4, UBLOX |-> 6 + f.data + 2,
   NMEA |-> 3 + f.data + 5, none |-> 0][f.protocol]

sempTestData(i, content) == IF i <= 3 THEN <<170, 68, 24>>[i] ELSE content

\* $G, and the data, one 0 after the other, and *00 CR LF
nmeaTestData(f, i) ==
  IF i <= 3 THEN <<36, 71, Comma>>[i]
  ELSE IF i <= 3 + f.data THEN 48 ELSE <<Asterisk, 48, 48, CR, LF>>[i - (3 + f.data)]

ubloxTestData(f, i, content) ==
  CASE i <= 2 -> <<181, 98>>[i]
    [] i = 5  -> f.data % UINT8
    [] i = 6  -> f.data \div UINT8
    [] OTHER  -> content

\* Byte i of the frame on the line, where `content' is the byte if the sender is free to
\* choose it.
ByteOf(f, i, content) ==
  CASE f.protocol = "SEMP"  -> sempTestData(i, content)
    [] f.protocol = "UBLOX" -> ubloxTestData(f, i, content)
    [] f.protocol = "NMEA"  -> nmeaTestData(f, i)

-----------------------------------------------------------------------------
\* The receiver gets a byte, from a handler or in an array.
Receive(data) == (LooksAt(data) \/ PassesOver) /\ (OneByte \/ BlockByte)

\* The bytes of an intact frame are what the sender made them: the header is one
\* and has its length, the check is right.
Reads(f) ==
  /\ out'.result # "none" => out'.equal
  /\ state = "mmpSempReadHeader" /\ length + 1 = MMP_SEMP_HEADER =>
       state' # "mmpFirstByte" /\ declared' = f.data

\* The parser takes the byte for the first of such a frame.
Begins(f) ==
  /\ length' = 1
  /\ state' = CASE f.protocol = "SEMP"  -> "mmpSempSync2"
                [] f.protocol = "UBLOX" -> "mmpUbloxSync2"
                [] f.protocol = "NMEA"  -> "mmpNmeaFindFirstComma"

Between == sent = FrameLength(frame)

\* The sender goes on to its next byte.
Turn == frame' \in (IF Between THEN Frames ELSE {frame}) /\ sent' = (IF Between THEN 1 ELSE sent + 1)

\* The byte arrives.
SendByte ==
  /\ skipped = 0 /\ Turn
  /\ \E content \in Contents : Receive(ByteOf(frame', sent', content))
  /\ ~Between /\ intact => Reads(frame)
  /\ intact' = IF Between THEN Begins(frame') ELSE intact
  /\ UNCHANGED faults

\* The byte is in the rest of an array that mmpProcessBuffer returned early on.
SkipByte ==
  /\ skipped > 0 /\ Turn
  /\ skipped' = skipped - 1
  /\ intact' = FALSE
  /\ UNCHANGED <<vars, left, faults>>

Sends == SendByte \/ SkipByte

\* Noise between frames, such as FF 00 55 in testStreamData.
SendNoise ==
  /\ Between /\ skipped = 0
  /\ frame' = Silence /\ sent' = 0 /\ intact' = FALSE
  /\ \E data \in Noise : Receive(data)
  /\ UNCHANGED faults

Fault == faults < MaxFaults /\ faults' = faults + 1 /\ skipped = 0 /\ intact' = FALSE

LoseByte == Fault /\ Turn /\ UNCHANGED receiverVars

ChangeByte ==
  /\ Fault /\ Turn
  /\ \E content \in Contents :
       \E data \in Bytes \ {ByteOf(frame', sent', content)} : Receive(data)

\* A byte more, for instance one of another source that feeds the same parser.
InsertByte ==
  /\ Fault /\ UNCHANGED <<frame, sent>>
  /\ \E data \in Bytes : Receive(data)

\* The next n bytes come as an array.
ReceiveBlock ==
  /\ Fault /\ UNCHANGED <<frame, sent>>
  /\ \E n \in BlockLengths : mmpProcessBuffer(n)

\* initMultiProtocolSystem again, but not within a u-blox length field.
SetUpAgain ==
  /\ Fault /\ UNCHANGED <<frame, sent, block>>
  /\ lengthBytes = 0 /\ left = 0
  /\ \E n \in BufferLengths : mmpInitParser(n)

LinkInit == ReceiverInit /\ frame = Silence /\ sent = 0 /\ intact = FALSE /\ faults = 0

LinkNext ==
  Sends \/ SendNoise \/ LoseByte \/ ChangeByte \/ InsertByte \/ ReceiveBlock \/ SetUpAgain

LinkSpec == LinkInit /\ [][LinkNext]_linkVars

\* The sender keeps sending.
FairLink == LinkSpec /\ WF_linkVars(Sends)

-----------------------------------------------------------------------------
(* Correctness.                                                            *)

\* Where a frame is complete for the parser: a sentence at its CR.
Complete(f) == IF f.protocol = "NMEA" THEN FrameLength(f) - 1 ELSE FrameLength(f)

Fits(f) == FrameLength(f) <= bufferLength

\* A frame whose first byte the parser takes for one, that fits into the buffer and is
\* not disturbed, is delivered once, at the byte that completes it, under its protocol
\* and with all its bytes, whatever happened to the stream before.  (Its first byte may
\* judge a sentence that lost its line end.)
UndisturbedFrameDelivered ==
  intact /\ Fits(frame) =>
    /\ sent > 1 /\ out.result # "none" => sent = Complete(frame)
    /\ sent = Complete(frame) =>
         /\ out.result = "delivered"
         /\ out.protocol = MMP_PROTOCOL[frame.protocol]
         /\ out.len = FrameLength(frame)

\* Without faults, and with room for every frame, the parser is never out of step: the
\* first byte of every frame is taken for one, noise or not, and nothing is judged that
\* was not sent.
InStepWithoutFaults ==
  faults = 0 /\ left = 0 /\ (\A f \in Frames : Fits(f)) =>
    /\ sent > 0 => intact
    /\ sent = 0 => out.result = "none"

\* The parser is in step: it follows an undisturbed frame that fits, or it searches where
\* the sender is between frames.
InStep ==
  \/ intact /\ Fits(frame)
  \/ Between /\ state = "mmpFirstByte"

\* Once in step, as after any delivered frame, the parser stays in step until the next
\* fault: noise does not draw it off, and the first byte of every frame that fits is
\* taken for one.
StaysInStep ==
  [][InStep /\ skipped = 0 /\ faults' = faults /\ Fits(frame)' => InStep']_linkVars

\* A byte that is not the first of its frame is taken for the first of one: a payload or
\* check byte that looks like a preamble, to a parser that is out of step.
FalseStart ==
  skipped = 0 /\ sent' # 1 /\ length' = 1 /\ state' # "mmpFirstByte"

\* However faults have put the parser out of step, frames are delivered again and again,
\* unless false starts go on for ever: once the bytes within the frames no longer look
\* like preambles to the parser, it finds back, whatever false frame, length or array it
\* is in by then.  (With them it need not: mmpFirstByte takes the first preamble it
\* meets, and a frame that contains the beginning of another can lead it past its own
\* start every time.)
Recovers == []<>(out.result = "delivered") \/ []<><<FalseStart>>_linkVars

-----------------------------------------------------------------------------
(* The inductive invariant: the sender's place in the frame is the parser's. *)

\* The routine that waits for the next byte of a frame, and the length it has read.
AtSemp ==
  /\ state \in SempRoutines
  /\ state \in {"mmpSempReadData", "mmpSempReadCrc"} => declared = frame.data

AtUblox ==
  /\ state \in UbloxRoutines
  /\ state = "mmpUbloxReadLength" /\ sent = 5 => declared = frame.data % UINT8
  /\ state \in {"mmpUbloxReadData", "mmpUbloxChecksumA", "mmpUbloxChecksumB"} =>
       declared = frame.data

AtNmea ==
  \/ sent <= 2 /\ state = "mmpNmeaFindFirstComma"
  \/ sent \in 3 .. 3 + frame.data /\ state = "mmpNmeaFindAsterisk"
  \/ sent = 4 + frame.data /\ state = "mmpNmeaChecksumByte1"
  \/ sent = 5 + frame.data /\ state = "mmpNmeaChecksumByte2"
  \/ sent = 6 + frame.data /\ state = "mmpNmeaLineTermination"

Followed ==
  /\ length = sent
  /\ frame.protocol = "SEMP" => AtSemp
  /\ frame.protocol = "UBLOX" => AtUblox
  /\ frame.protocol = "NMEA" => AtNmea

\* While an undisturbed frame is sent that fits, the parser holds the bytes sent so far,
\* is in the routine for the next one, and has the frame's length field as it was sent;
\* after its last byte it searches.  lengthBytes is set only within a length field, and
\* as long as nothing has failed, every frame is such a frame.
ParserFollows ==
  /\ lengthBytes = 1 => state = "mmpUbloxReadLength" /\ declared # Unset
  /\ intact => frame \in Frames /\ sent > 0
  /\ intact /\ Fits(frame) =>
       IF sent < Complete(frame) THEN Followed ELSE state = "mmpFirstByte"
  /\ faults = 0 => left = 0 /\ skipped = 0
  /\ faults = 0 /\ (\A f \in Frames : Fits(f)) =>
       /\ sent > 0 => intact
       /\ sent = 0 => state = "mmpFirstByte" /\ out.result = "none"

=============================================================================
