------------------------------- MODULE Receiver -------------------------------
(***************************************************************************)
(* The application of multi_protocol_example.c: one multi-protocol parser  *)
(* that is fed by a UART interrupt and by network packets byte by byte,    *)
(* and by a DMA buffer and by Bluetooth data through mmpProcessBuffer.     *)
(* The handlers run one after the other, as in the program's main; the     *)
(* ring buffer of the UART is never filled (that branch is commented out), *)
(* so backgroundProcessTask finds nothing to do.                           *)
(***************************************************************************)
EXTENDS MultiParser

CONSTANTS BlockLengths   \* lengths of the arrays given to mmpProcessBuffer

ASSUME ReceiverBlocks == BlockLengths \subseteq uint16_t

VARIABLES
  left,      \* mmpProcessBuffer: bytes of the array not yet looked at
  skipped    \* bytes of the last array that it returned without looking at

block == <<left, skipped>>
receiverVars == <<vars, left, skipped>>

\* UART1_IRQHandler, and each turn of the loop in processNetworkPacket: the
\* answer of the parser is ignored.
OneByte == left = 0 /\ UNCHANGED block

\* Mutant: the test of the answer is inverted.
BlockByteInverted ==
  /\ left > 0
  /\ \/ ~answer' /\ left' = left - 1 /\ UNCHANGED skipped
     \/ answer' /\ left' = 0 /\ skipped' = left - 1

\* A turn of the loop in mmpProcessBuffer; the first answer false ends it.
BlockByte ==
  /\ left > 0
  /\ \/ answer' /\ left' = left - 1 /\ UNCHANGED skipped
     \/ ~answer' /\ left' = 0 /\ skipped' = left - 1

\* mmpProcessBuffer is called with n bytes, by DMA1_IRQHandler or by
\* processBluetoothData.
mmpProcessBuffer(n) ==
  /\ left = 0 /\ n > 0
  /\ left' = n /\ skipped' = 0
  /\ UNCHANGED vars

ReceiverInit == Init /\ left = 0 /\ skipped = 0

-----------------------------------------------------------------------------
\* Where mmpProcessBuffer gives the rest of an array back, no frame is under way:
\* the rest can be handed over again, or lost, without cutting the frame in two.
ReturnsBetweenFrames ==
  [][left > 1 /\ left' = 0 => state' = "mmpFirstByte"]_receiverVars

=============================================================================
