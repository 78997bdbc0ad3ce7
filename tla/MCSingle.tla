------------------------------- MODULE MCSingle -------------------------------
(***************************************************************************)
(* Instances of SingleParser for TLC.                                      *)
(***************************************************************************)
EXTENDS SingleParser

\* The three sync bytes and another one.
SyncBytes == {0, 24, 68, 170}

\* No buffer at all, one that cannot hold a header, one that holds a header but
\* no CRC, and buffers for messages of one and three bytes.
Buffers == {0, 19, 21, 25, 27}

\* No data, messages that fit some of the buffers, one that fits none.
Lengths == {0, 1, 3, 6}

\* Nothing, a byte, a whole frame and more than a frame.
Arrays == {0, 1, 25, 30}

\* More than a header and the longest message.
Cover == 28

=============================================================================
