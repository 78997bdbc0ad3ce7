----------------------------- MODULE ParseSpartn -----------------------------
(***************************************************************************)
(* SPARTN, lib/Parse_SPARTN.cpp: a preamble byte, three bytes of frame     *)
(* header with a 4-bit CRC of their own, the time tag and authentication   *)
(* fields (TF007 to TF015), the payload (TF016), the embedded              *)
(* authentication (TF017) and a CRC of one to four bytes (TF018).          *)
(*                                                                         *)
(* What header bytes say is chosen where the code has read them all.       *)
(***************************************************************************)
EXTENDS LibCore

CONSTANTS Headers   \* what a frame header may say

VARIABLES
  frameCount,      \* bytes of the field that is being read
  payloadLength,
  EAF,             \* encryption and authentication flag
  crcBytes,
  TF007toTF016,    \* bytes from TF007 up to the payload
  embedded,        \* scratchPad->spartn.embeddedApplicationLengthBytes
  out              \* the frame that the last byte judged

fields == <<payloadLength, EAF, crcBytes, TF007toTF016, embedded>>

Nothing == [result |-> "none", len |-> 0, crcAt |-> 0, crcLen |-> 0]

Continue(routine, count) ==
  Go(routine) /\ frameCount' = count /\ out' = Nothing

\* sempSpartnPreamble, called by sempFirstByte with a byte that is 0x73 or not.
Restart(claimed) ==
  /\ sempFirstByte(claimed, "sempSpartnReadTF002TF006")
  /\ frameCount' = IF claimed THEN 0 ELSE Unset
  /\ payloadLength' = Unset /\ EAF' = Unset /\ crcBytes' = Unset
  /\ TF007toTF016' = Unset /\ embedded' = Unset
  /\ out' = Nothing

\* The third byte completes the header, and the CRC over it decides.
sempSpartnReadTF002TF006 ==
  /\ In("sempSpartnReadTF002TF006")
  /\ UNCHANGED <<TF007toTF016, embedded>>
  /\ \/ /\ frameCount < 2
        /\ Continue("sempSpartnReadTF002TF006", frameCount + 1)
        /\ UNCHANGED <<payloadLength, EAF, crcBytes>>
     \/ /\ frameCount = 2
        /\ \E h \in Headers :
             /\ payloadLength' = h.payloadLength
             /\ EAF' = h.EAF
             /\ crcBytes' = h.crcBytes
        /\ \/ Continue("sempSpartnReadTF007", 3)
           \/ Continue("sempFirstByte", 2)

\* The time tag has 16 or 32 bits; with EAF two bytes of authentication follow.
sempSpartnReadTF007 ==
  /\ In("sempSpartnReadTF007") /\ Continue("sempSpartnReadTF009", 1)
  /\ \E timeTag \in {4, 6} : TF007toTF016' = timeTag + 2 * EAF
  /\ UNCHANGED <<payloadLength, EAF, crcBytes, embedded>>

sempSpartnReadTF009 ==
  /\ In("sempSpartnReadTF009")
  /\ UNCHANGED <<payloadLength, EAF, crcBytes, TF007toTF016>>
  /\ \/ /\ frameCount + 1 # TF007toTF016
        /\ Continue("sempSpartnReadTF009", frameCount + 1)
        /\ UNCHANGED embedded
     \/ /\ frameCount + 1 = TF007toTF016
        /\ embedded' \in (IF EAF = 0 THEN {0} ELSE {0, 8, 12, 16, 32, 64})
        /\ Continue("sempSpartnReadTF016", 0)

\* A 16-bit counter that is incremented and compared with the length of the field.
sempSpartnReadField(routine, size, next) ==
  /\ In(routine)
  /\ UNCHANGED fields
  /\ LET count == (frameCount + 1) % UINT16 IN
     \/ count # size /\ Continue(routine, count)
     \/ count = size /\ Continue(next, 0)

\* Mutant: the embedded authentication is not read.
sempSpartnReadTF016Plain ==
  sempSpartnReadField("sempSpartnReadTF016", payloadLength, "sempSpartnReadTF018")

sempSpartnReadTF016 ==
  sempSpartnReadField("sempSpartnReadTF016", payloadLength,
    IF embedded > 0 THEN "sempSpartnReadTF017" ELSE "sempSpartnReadTF018")

sempSpartnReadTF017 ==
  sempSpartnReadField("sempSpartnReadTF017", embedded, "sempSpartnReadTF018")

\* Where TF018 is taken to be: numBytes.
numBytes == 4 + TF007toTF016 + payloadLength + embedded

\* The CRC over what is between the preamble and TF018 is right, or badCrc says so.
sempSpartnReadTF018(valid) ==
  /\ In("sempSpartnReadTF018")
  /\ UNCHANGED fields
  /\ \/ frameCount + 1 # crcBytes /\ Continue("sempSpartnReadTF018", frameCount + 1)
     \/ /\ frameCount + 1 = crcBytes
        /\ Go("sempFirstByte")
        /\ frameCount' = frameCount + 1
        /\ out' = [result |-> IF valid THEN "delivered" ELSE "badCrc", len |-> length',
                   crcAt |-> numBytes, crcLen |-> crcBytes]

sempParseNextByte ==
  \/ \E claimed \in BOOLEAN :
       Restart(claimed) /\ (~HasRoom \/ In("sempFirstByte"))
  \/ sempSpartnReadTF002TF006 \/ sempSpartnReadTF007 \/ sempSpartnReadTF009
  \/ sempSpartnReadTF016 \/ sempSpartnReadTF017
  \/ \E valid \in BOOLEAN : sempSpartnReadTF018(valid)

SpartnInit ==
  /\ sempBeginParser
  /\ frameCount = Unset /\ payloadLength = Unset /\ EAF = Unset /\ crcBytes = Unset
  /\ TF007toTF016 = Unset /\ embedded = Unset
  /\ out = Nothing

=============================================================================
