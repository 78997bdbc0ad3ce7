------------------------------- MODULE MCMulti -------------------------------
(***************************************************************************)
(* Instances of MultiParser for TLC.                                       *)
(***************************************************************************)
EXTENDS MultiParser

\* Every byte some routine tests for, a byte that is a name character but no
\* digit of a checksum (71, G), and the u-blox lengths 0, 248 (the longest that
\* fits) and 249.
MultiStream == {0, 10, 24, 36, 42, 44, 48, 68, 71, 98, 170, 181, 211, 248, 249}

\* A buffer that is refused and the smallest that is accepted.
MultiBufferSizes == {255, 256}

\* No data, one byte, the longest message that fits, one more, the largest.
MultiMessages == {0, 1, 232, 233, 65535}

=============================================================================
