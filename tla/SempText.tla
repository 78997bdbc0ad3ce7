------------------------------- MODULE SempText -------------------------------
(***************************************************************************)
(* What the two line-oriented protocols (NMEA and Unicore hash) share: the *)
(* end of a line.                                                          *)
(***************************************************************************)
EXTENDS SempScan

\* Mutant: the length is reduced although the byte was not counted.
AwaitLineEndShrinks(routine) ==
  /\ state' = routine
  /\ msg_length' = msg_length - 1
  /\ out' = Silent
  /\ UNCHANGED <<instance, parser_type, computeCrc, crc, fields>>

\* A line-end byte is not kept in the buffer; the routine waits for the other.
AwaitLineEnd(routine) ==
  /\ state' = routine
  /\ out' = Silent
  /\ UNCHANGED <<instance, parser_type, computeCrc, msg_length, crc, fields>>

\* msg_length, 16 bits wide, once CR and LF have been appended.
LengthWithLineEnd == (msg_length + 2) % UINT16

\* The line is complete.  An accepted sentence has had CR LF appended to it.
FinishLine(verdict) ==
  /\ Finish(IF verdict.result \in Delivered THEN verdict.len ELSE msg_length, crc, verdict)
  /\ UNCHANGED fields

=============================================================================
