---------------------------- MODULE SentenceFramer ----------------------------
(***************************************************************************)
(* What the parsers of text sentences promise: after a preamble byte, text *)
(* is collected up to an asterisk, as long as Reserve bytes stay free      *)
(* behind it; the asterisk fixes how many check digits end the sentence;   *)
(* with the last of them the sentence is complete, and it is judged once,  *)
(* at the byte that shows that its line end is over.  The line end is not  *)
(* kept and has at most two bytes; where it is missing, the byte that is   *)
(* there instead may begin the next frame.                                 *)
(*                                                                         *)
(* The NMEA and Unicore hash parsers of MessageParser and the NMEA parser  *)
(* of MultiParser implement it.                                            *)
(***************************************************************************)
EXTENDS Integers

CONSTANTS
  Digits,    \* how many check digits a sentence can have
  Reserve    \* bytes that the text leaves free in the buffer

VARIABLES
  room,      \* bytes of the buffer
  got,       \* bytes of the sentence so far, 0 outside a sentence
  total,     \* bytes of the whole sentence once its asterisk has come
  ended,     \* bytes of its line end
  verdict    \* what the last byte decided about a sentence

vars == <<room, got, total, ended, verdict>>

Unknown == -1

Between == got = 0 /\ total = Unknown /\ ended = 0 /\ verdict = "none"

Init == room \in Nat /\ Between

\* The application sets the parser up again.
Reset == room' \in Nat /\ Between'

\* The byte belongs to no sentence, or it is the first byte of the next one.
Elsewhere == got' \in {0, 1} /\ total' = Unknown /\ ended' = 0

\* Until the last digit has come, any byte can show that this is no sentence.
Drop == (total = Unknown \/ got < total) /\ Elsewhere /\ verdict' = "none"

Grow == got > 0 /\ got' = got + 1 /\ ended' = 0 /\ verdict' = "none"

Text == total = Unknown /\ Grow /\ got' + Reserve <= room /\ total' = Unknown

Asterisk == total = Unknown /\ Grow /\ \E n \in Digits : total' = got' + n

Digit == total # Unknown /\ got < total /\ Grow /\ total' = total

\* CR or LF right behind the last digit.
LineEnd ==
  /\ got = total /\ ended = 0
  /\ ended' = 1 /\ verdict' = "none" /\ UNCHANGED <<got, total>>

\* The line end is complete, or the byte is none of it.
Judge == got = total /\ Elsewhere /\ verdict' \in {"delivered", "refused"}

\* There is no room for another byte.
GiveUp == got >= room /\ Elsewhere /\ verdict' = "none"

Byte == Drop \/ Text \/ Asterisk \/ Digit \/ LineEnd \/ Judge \/ GiveUp

Next == Reset \/ (Byte /\ room' = room)

Spec == Init /\ [][Next]_vars

=============================================================================
