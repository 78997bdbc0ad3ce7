------------------------------- MODULE MCParser -------------------------------
(***************************************************************************)
(* Instances of MessageParser for TLC.  Lengths and headers are the code's *)
(* own; the buffer is the smallest the parser allocates, 256 bytes.        *)
(***************************************************************************)
EXTENDS ParserFraming

SmallestBuffer == {256}

\* demo/stress_test.c.
StressTable == <<"NMEA", "RTCM", "UBLOX", "UnicoreBinary", "UnicoreHash">>

\* Every byte that a preamble, sync or field test looks for, two hexadecimal
\* letters, the length bytes 0 and 3.  Of the two bytes that begin an NMEA
\* sentence '$' is here; LineBytes has '!' as well.
StressBytes == {0, 3, 10, 13, 35, 36, 42, 44, 68, 98, 170, 181, 211}

\* Data lengths: none, the shortest, the longest that fits 256 bytes with its
\* envelope of 28, one more, and the largest value of the field.
StressLengths == {0, 1, 2, 228, 229, 65535}

\* The Unicore hash sentences of that stream.
HashTable == <<"UnicoreHash">>

\* demo/func_test.c, with a buffer of odd size as well.
CustomTable == <<"Custom">>
CustomBytes == {0, 24, 68, 170}
CustomLengths == {0, 1, 2, 231, 232, 233, 65535}
CustomBuffers == {0, 257}

\* A line protocol and the two binary ones that claim 170: a text without end, a
\* counter that wraps, and a protocol whose frames the first entry takes away.
LineTable == <<"Custom", "UnicoreBinary", "NMEA">>
LineBytes == {10, 13, 24, 33, 36, 42, 44, 68, 170, 181}

=============================================================================
