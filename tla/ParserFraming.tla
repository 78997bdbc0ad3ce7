---------------------------- MODULE ParserFraming ----------------------------
(***************************************************************************)
(* MessageParser, seen as one parser per protocol, in the midst of the     *)
(* other protocols of the table: Custom, RTCM, u-blox and Unicore binary   *)
(* each implement LengthFramer, NMEA and Unicore hash SentenceFramer.      *)
(***************************************************************************)
EXTENDS ParserInvariant

HeaderOf(p) == [Custom |-> 20, UnicoreBinary |-> 24, RTCM |-> 3, UBLOX |-> 6][p]
TrailerOf(p) == [Custom |-> 4, UnicoreBinary |-> 4, RTCM |-> 3, UBLOX |-> 2][p]

\* The length of an RTCM message is ten bits wide.
LengthsOf(p) ==
  [Custom |-> MessageLengths, UnicoreBinary |-> MessageLengths, RTCM |-> 0 .. 1023,
   UBLOX |-> uint16_t][p]

\* The frame in the buffer is one of p's.  A frame with less data than Shortest, whose
\* counter wraps, is not followed as a frame: see ZeroLengthFrameEnds.
InFrame(p) == state \in StatesOf(p) /\ (declared = Unset \/ declared >= Shortest(p))

GotOf(p) == IF InFrame(p) THEN msg_length ELSE 0

TotalOf(p) == IF InFrame(p) /\ declared # Unset THEN Envelope(p) + declared ELSE -1

VerdictOn(p) ==
  IF out.proto # p THEN "none"
  ELSE IF out.result \in Delivered THEN "delivered" ELSE "refused"

CustomFramer ==
  INSTANCE LengthFramer
    WITH HeaderSizes <- {HeaderOf("Custom")}, Trailer <- TrailerOf("Custom"),
         Lengths <- LengthsOf("Custom"), room <- buffer_length, got <- GotOf("Custom"),
         total <- TotalOf("Custom"), verdict <- VerdictOn("Custom")

RtcmFramer ==
  INSTANCE LengthFramer
    WITH HeaderSizes <- {HeaderOf("RTCM")}, Trailer <- TrailerOf("RTCM"),
         Lengths <- LengthsOf("RTCM"), room <- buffer_length, got <- GotOf("RTCM"),
         total <- TotalOf("RTCM"), verdict <- VerdictOn("RTCM")

UbloxFramer ==
  INSTANCE LengthFramer
    WITH HeaderSizes <- {HeaderOf("UBLOX")}, Trailer <- TrailerOf("UBLOX"),
         Lengths <- LengthsOf("UBLOX"), room <- buffer_length, got <- GotOf("UBLOX"),
         total <- TotalOf("UBLOX"), verdict <- VerdictOn("UBLOX")

UnicoreBinaryFramer ==
  INSTANCE LengthFramer
    WITH HeaderSizes <- {HeaderOf("UnicoreBinary")}, Trailer <- TrailerOf("UnicoreBinary"),
         Lengths <- LengthsOf("UnicoreBinary"), room <- buffer_length, got <- GotOf("UnicoreBinary"),
         total <- TotalOf("UnicoreBinary"), verdict <- VerdictOn("UnicoreBinary")

\* Seen as frames of one binary protocol, the stream is framed by the length fields:
\* a frame whose header is complete ends at the byte that its length field names, or
\* when it outgrows the buffer, and is judged once, there; no routine of another
\* protocol, no text and no other preamble in between disturbs that.
FramesCustom == CustomFramer!Spec
FramesRtcm == RtcmFramer!Spec
FramesUblox == UbloxFramer!Spec
FramesUnicoreBinary == UnicoreBinaryFramer!Spec

-----------------------------------------------------------------------------
(* The line protocols.                                                     *)

LineProtocols == {"NMEA", "UnicoreHash"}

\* The routines that run behind the asterisk, and those that run behind the first byte
\* of a line end.
AfterAsterisk(p) ==
  [NMEA |-> {"sempNmeaChecksumByte1", "sempNmeaChecksumByte2", "sempNmeaLineTermination",
             "sempNmeaLineFeed", "sempNmeaCarriageReturn"},
   UnicoreHash |-> {"sempUnicoreHashChecksumByte", "sempUnicoreHashLineTermination",
                    "sempUnicoreHashLineFeed", "sempUnicoreHashCarriageReturn"}][p]
InLineEnd(p) ==
  [NMEA |-> {"sempNmeaLineFeed", "sempNmeaCarriageReturn"},
   UnicoreHash |-> {"sempUnicoreHashLineFeed", "sempUnicoreHashCarriageReturn"}][p]

\* Check digits of the sentence that have not come.
DigitsDue ==
  CASE state = "sempNmeaChecksumByte1" -> 2
    [] state = "sempNmeaChecksumByte2" -> 1
    [] state = "sempUnicoreHashChecksumByte" -> scratchPad.bytesRemaining
    [] OTHER -> 0

SentenceBytes(p) == IF state \in StatesOf(p) THEN msg_length ELSE 0

SentenceTotal(p) == IF state \in AfterAsterisk(p) THEN msg_length + DigitsDue ELSE -1

LineEndBytes(p) == IF state \in InLineEnd(p) THEN 1 ELSE 0

NmeaFramer ==
  INSTANCE SentenceFramer
    WITH Digits <- {2}, Reserve <- NMEA_BUFFER_OVERHEAD, room <- buffer_length,
         got <- SentenceBytes("NMEA"), total <- SentenceTotal("NMEA"),
         ended <- LineEndBytes("NMEA"), verdict <- VerdictOn("NMEA")

UnicoreHashFramer ==
  INSTANCE SentenceFramer
    WITH Digits <- {2, 8}, Reserve <- UNICORE_HASH_BUFFER_OVERHEAD, room <- buffer_length,
         got <- SentenceBytes("UnicoreHash"), total <- SentenceTotal("UnicoreHash"),
         ended <- LineEndBytes("UnicoreHash"), verdict <- VerdictOn("UnicoreHash")

\* Seen as sentences of one line protocol, the stream is one of complete sentences: what
\* is judged had its asterisk and then exactly its check digits, and is judged once, one
\* or two bytes later, whichever line end it has; that byte is not lost when it begins
\* the next frame.
FramesNmea == NmeaFramer!Spec
FramesUnicoreHash == UnicoreHashFramer!Spec

=============================================================================
