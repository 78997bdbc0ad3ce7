----------------------------- MODULE LengthFramer -----------------------------
(***************************************************************************)
(* What the parsers of length-prefixed binary protocols promise, whatever  *)
(* their tables, buffers and checks: bytes that may begin a frame are      *)
(* collected up to the end of the header; the header fixes where the frame *)
(* ends; from then on the frame is followed to exactly that byte, unless   *)
(* it outgrows the room for it, and it is judged once, there or, if it is  *)
(* turned down, at one of its check bytes.                                 *)
(*                                                                         *)
(* MessageParser (four times), SingleParser, MultiParser (twice) and the   *)
(* SBF and SPARTN parsers in LBand implement it, each through a refinement *)
(* mapping of its own.                                                     *)
(***************************************************************************)
EXTENDS Integers

CONSTANTS
  HeaderSizes,   \* bytes that a header can have, length field included
  Trailer,       \* check bytes at the end of a frame
  Lengths        \* the lengths of data that a header can declare

VARIABLES
  room,      \* bytes that the parser can follow a frame for
  got,       \* bytes of the frame so far, 0 outside a frame
  total,     \* bytes of the whole frame once its header has been read
  verdict    \* what the last byte decided about a frame

vars == <<room, got, total, verdict>>

Unknown == -1

Init == room \in Nat /\ got = 0 /\ total = Unknown /\ verdict = "none"

\* The application sets the parser up again.
Reset == room' \in Nat /\ got' = 0 /\ total' = Unknown /\ verdict' = "none"

\* The byte belongs to no frame, or it is the first byte of the next one.
Elsewhere == got' \in {0, 1} /\ total' = Unknown

\* While the header is incomplete, any byte can show that it is none.
Search == total = Unknown /\ Elsewhere /\ verdict' = "none"

Collect ==
  /\ total = Unknown /\ got > 0 /\ \E size \in HeaderSizes : got + 1 < size
  /\ got' = got + 1 /\ total' = Unknown /\ verdict' = "none"

\* The header is complete and declares n bytes of data.
Learn ==
  /\ total = Unknown /\ got + 1 \in HeaderSizes
  /\ got' = got + 1
  /\ \E n \in Lengths : total' = got' + n + Trailer
  /\ verdict' = "none"

Fill ==
  /\ total # Unknown /\ got + 1 < total
  /\ got' = got + 1 /\ total' = total /\ verdict' = "none"

\* The last byte of the frame.
Deliver ==
  /\ total # Unknown /\ got + 1 = total
  /\ got' = 0 /\ total' = Unknown /\ verdict' = "delivered"

\* A check byte is wrong.
Refuse ==
  /\ total # Unknown /\ got + 1 > total - Trailer /\ got + 1 <= total
  /\ got' = 0 /\ total' = Unknown /\ verdict' = "refused"

\* There is no room for the rest of the frame.
GiveUp == total # Unknown /\ got >= room /\ Elsewhere /\ verdict' = "none"

Byte == Search \/ Collect \/ Learn \/ Fill \/ Deliver \/ Refuse \/ GiveUp

Next == Reset \/ (Byte /\ room' = room)

Spec == Init /\ [][Next]_vars

=============================================================================
