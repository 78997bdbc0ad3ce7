------------------------------- MODULE SempScan -------------------------------
(***************************************************************************)
(* The preamble routines of the six protocols, and sempFirstByte, which    *)
(* asks them in table order whether a byte begins a frame.                 *)
(***************************************************************************)
EXTENDS SempState

\* A preamble routine is the set of bytes it claims and what it leaves in the
\* parse structure when it claims one.
sempCustomPreamble ==
  [claims |-> {170}, state |-> "sempCustomSync2",
   computeCrc |-> "sempCustomComputeCrc",
   crc |-> Compute("sempCustomComputeCrc", CrcOnes), scratchPad |-> ScratchUnset]

\* Mutant: sentenceNameLength keeps what an earlier frame left in the union.
sempNmeaPreambleStale ==
  [claims |-> {36, 33}, state |-> "sempNmeaFindFirstComma",
   computeCrc |-> "nullptr", crc |-> CrcZero, scratchPad |-> ScratchUnset]

sempNmeaPreamble ==
  [claims |-> {36, 33}, state |-> "sempNmeaFindFirstComma",
   computeCrc |-> "nullptr", crc |-> CrcZero,
   scratchPad |-> [ScratchUnset EXCEPT !.sentenceNameLength = 0]]

sempRtcmPreamble ==
  [claims |-> {211}, state |-> "sempRtcmReadLength1",
   computeCrc |-> "sempRtcmComputeCrc24q",
   crc |-> Compute("sempRtcmComputeCrc24q", CrcZero), scratchPad |-> ScratchUnset]

sempUbloxPreamble ==
  [claims |-> {181}, state |-> "sempUbloxSync2",
   computeCrc |-> "nullptr", crc |-> CrcZero, scratchPad |-> ScratchUnset]

sempUnicoreBinaryPreamble ==
  [claims |-> {170}, state |-> "sempUnicoreBinarySync2",
   computeCrc |-> "sempUnicoreBinaryComputeCrc",
   crc |-> Compute("sempUnicoreBinaryComputeCrc", CrcZero),
   scratchPad |-> ScratchUnset]

\* Mutant: the routine is a copy of the NMEA one that still selects its state.
sempUnicoreHashPreambleCopied == [sempNmeaPreamble EXCEPT !.claims = {35}]

sempUnicoreHashPreamble ==
  [claims |-> {35}, state |-> "sempUnicoreHashFindFirstComma",
   computeCrc |-> "nullptr", crc |-> CrcZero,
   scratchPad |-> [ScratchUnset EXCEPT !.sentenceNameLength = 0]]

Preamble(p) ==
  CASE p = "Custom"        -> sempCustomPreamble
    [] p = "NMEA"          -> sempNmeaPreamble
    [] p = "RTCM"          -> sempRtcmPreamble
    [] p = "UBLOX"         -> sempUbloxPreamble
    [] p = "UnicoreBinary" -> sempUnicoreBinaryPreamble
    [] p = "UnicoreHash"   -> sempUnicoreHashPreamble

\* The table entries, counted from 1, whose preamble routine claims the byte.
Claimants(data) ==
  {i \in 1 .. Len(ParserTable) : data \in Preamble(ParserTable[i]).claims}

\* The byte becomes the only byte of the buffer and the first routine of the
\* table that claims it becomes the active parser.
sempFirstByte(data) ==
  /\ msg_length' = 1
  /\ declared' = Unset
  /\ agree' = 0
  /\ \/ /\ Claimants(data) = {}
        /\ state' = "sempFirstByte"
        /\ parser_type' = Len(ParserTable)
        /\ computeCrc' = "nullptr"
        /\ crc' = CrcZero
        /\ scratchPad' = ScratchUnset
     \/ \E i \in Claimants(data) :
          /\ \A j \in Claimants(data) : i <= j
          /\ parser_type' = i - 1
          /\ state' = Preamble(ParserTable[i]).state
          /\ computeCrc' = Preamble(ParserTable[i]).computeCrc
          /\ crc' = Preamble(ParserTable[i]).crc
          /\ scratchPad' = Preamble(ParserTable[i]).scratchPad
  /\ UNCHANGED instance

\* A handler gives up on its frame without calling the application.
Restart(data) == sempFirstByte(data) /\ out' = Silent

\* The end of a binary frame: the application has been called or not, the
\* parser looks for the next preamble.  The buffer keeps `length' bytes.
Finish(length, c, verdict) ==
  /\ state' = "sempFirstByte"
  /\ msg_length' = length
  /\ crc' = c
  /\ out' = verdict
  /\ UNCHANGED <<instance, parser_type, computeCrc>>

=============================================================================
