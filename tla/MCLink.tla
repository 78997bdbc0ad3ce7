-------------------------------- MODULE MCLink --------------------------------
(***************************************************************************)
(* Instances of Receiver and Link for TLC.                                 *)
(***************************************************************************)
EXTENDS Link

\* What changes a byte into: a preamble byte of each protocol, or none.
LineBytes == {0, 36, 170, 181}

\* The smallest buffer.
LineBuffer == {256}

\* A message without data, and one that outgrows the buffer.
LineLengths == {0, 65535}

\* A SEMP frame without data, a u-blox frame and a sentence.
LineFrames ==
  {[protocol |-> "SEMP", data |-> 0], [protocol |-> "UBLOX", data |-> 1],
   [protocol |-> "NMEA", data |-> 1]}

\* A byte that is nothing to the parser, the one that begins a sentence and the two that
\* begin a u-blox frame.
LineContents == {0, 36, 98, 181}

LineNoise == {255}

\* Less than a frame.
LineBlocks == {3}

\* One fault: the contents of the frames can do the rest.
LineFaults == 1

=============================================================================
