------------------------------- MODULE MCLBand -------------------------------
(***************************************************************************)
(* The L-Band pair for TLC: the smallest buffers the library allocates;    *)
(* blocks that declare 0, 8 (no end), 12, 36 (more than the buffer)        *)
(* and 37 (no multiple of 4) bytes; SPARTN payloads of 0, 1 and 2 bytes.   *)
(***************************************************************************)
EXTENDS LBand

LBandBuffers == {0}
LBandBytes == {0, 8, 12, 36, 37, 64}
LBandHeaders ==
  {[payloadLength |-> 0, EAF |-> 0, crcBytes |-> 1],
   [payloadLength |-> 1, EAF |-> 1, crcBytes |-> 4],
   [payloadLength |-> 2, EAF |-> 0, crcBytes |-> 3]}

=============================================================================
