----------------------------- MODULE BinaryProofs -----------------------------
(***************************************************************************)
(* The handlers of the four binary protocols preserve Inv.  They share one *)
(* argument: Counting follows the data, Closing the check bytes, and       *)
(* FrameFinished the callback.                                             *)
(***************************************************************************)
EXTENDS ParserLemmas

\* How long a prover may take for one leaf.
USE SMTT(30), ZenonT(30)

USE DEF SEMP_MINIMUM_BUFFER_LENGTH, Unset, Mismatch, SEMP_SENTENCE_NAME_BYTES

\* bytesRemaining as an integer.
LEMMA Remainder ==
  ASSUME Inv, parse # "nullptr"
  PROVE  \E rem \in Int :
           /\ rem = scratchPad.bytesRemaining /\ rem < UINT16
           /\ scratchPad.bytesRemaining # Unset => 0 <= rem
<1>1. scratchPad \in ScratchPads BY CallFacts DEF Typed
<1>. QED BY <1>1, ScratchFields

\* A handler that assigns bytesRemaining and nothing else of the scratch pad.
LEMMA SetTo ==
  ASSUME Inv, parse # "nullptr", NEW n \in uint16_t,
         scratchPad' = [scratchPad EXCEPT !.bytesRemaining = n]
  PROVE  /\ scratchPad' \in ScratchPads /\ scratchPad'.bytesRemaining = n
         /\ scratchPad'.sentenceNameLength = scratchPad.sentenceNameLength
         /\ scratchPad'.checksumBytes = scratchPad.checksumBytes
         /\ scratchPad'.ck = scratchPad.ck
<1>1. scratchPad \in ScratchPads BY CallFacts DEF Typed
<1>. QED BY <1>1, SetRemaining

\* A data byte of a binary frame that is not the last (--bytesRemaining is not 0).
LEMMA CountedOn ==
  ASSUME Inv, parse # "nullptr", msg_length < buffer_length,
         NEW header \in Nat, NEW shortest \in Nat, Counting(header, shortest),
         Decrement(scratchPad.bytesRemaining, UINT16) # 0 \/ declared < shortest,
         scratchPad' = [scratchPad EXCEPT !.bytesRemaining = Decrement(scratchPad.bytesRemaining, UINT16)],
         msg_length' = msg_length + 1, declared' = declared, agree' = agree
  PROVE  /\ scratchPad' \in ScratchPads
         /\ scratchPad'.sentenceNameLength = scratchPad.sentenceNameLength
         /\ Counting(header, shortest)'
<1>1. Typed
  BY CallFacts
<1>2. /\ msg_length \in Int /\ msg_length < UINT16 /\ UINT16 \in Int
      /\ declared \in Int /\ -1 <= declared
  BY <1>1 DEF Typed
<1>3. PICK rem \in Int : rem = scratchPad.bytesRemaining /\ 0 <= rem /\ rem < UINT16
  BY Remainder DEF Counting
<1>4. /\ declared # -1 /\ agree = 0
      /\ \/ declared >= shortest /\ rem >= 1 /\ msg_length + rem = header + declared
         \/ /\ declared < shortest
            /\ \/ msg_length + rem = header + declared
               \/ msg_length + rem = header + declared + UINT16
  BY <1>3 DEF Counting
<1>5. PICK left \in Int :
        /\ left = Decrement(rem, UINT16)
        /\ left \in uint16_t /\ 0 <= left /\ left < UINT16
        /\ rem > 0 => left = rem - 1
        /\ rem = 0 => left = UINT16 - 1
  BY <1>3, Remaining
<1>6. left # 0 \/ declared < shortest
  BY <1>3, <1>5
<1>7. \/ declared >= shortest /\ left >= 1 /\ msg_length + 1 + left = header + declared
      \/ /\ declared < shortest
         /\ \/ msg_length + 1 + left = header + declared
            \/ msg_length + 1 + left = header + declared + UINT16
  BY <1>2, <1>3, <1>4, <1>5, <1>6
<1>8. /\ scratchPad' \in ScratchPads /\ scratchPad'.bytesRemaining = left
      /\ scratchPad'.sentenceNameLength = scratchPad.sentenceNameLength
  BY <1>3, <1>5, SetTo
<1>. QED BY <1>4, <1>5, <1>7, <1>8 DEF Counting

\* The last data byte of a binary frame: --bytesRemaining is 0 and the counter is
\* set to the number of check bytes.  A counter that has wrapped cannot get there,
\* for the buffer is full before.
LEMMA CountedOut ==
  ASSUME Inv, parse # "nullptr", msg_length < buffer_length,
         NEW header \in Nat, NEW shortest \in Nat, NEW n \in Nat, n >= 1, n <= 8,
         Counting(header, shortest), msg_length >= header + shortest - 1,
         Decrement(scratchPad.bytesRemaining, UINT16) = 0,
         scratchPad' = [scratchPad EXCEPT !.bytesRemaining = n],
         msg_length' = msg_length + 1, declared' = declared, agree' = agree
  PROVE  /\ scratchPad' \in ScratchPads
         /\ scratchPad'.sentenceNameLength = scratchPad.sentenceNameLength
         /\ scratchPad'.bytesRemaining = n
         /\ Closing(header, shortest, n)'
<1>1. Typed
  BY CallFacts
<1>2. /\ msg_length \in Int /\ msg_length < UINT16 - 1 /\ UINT16 \in Int /\ UINT16 > 1100
      /\ declared \in Int /\ -1 <= declared
  BY <1>1 DEF Typed
<1>3. PICK rem \in Int : rem = scratchPad.bytesRemaining /\ 0 <= rem /\ rem < UINT16
  BY Remainder DEF Counting
<1>4. /\ declared # -1 /\ agree = 0
      /\ \/ declared >= shortest /\ rem >= 1 /\ msg_length + rem = header + declared
         \/ /\ declared < shortest
            /\ \/ msg_length + rem = header + declared
               \/ msg_length + rem = header + declared + UINT16
  BY <1>3 DEF Counting
<1>5. PICK left \in Int :
        /\ left = Decrement(rem, UINT16)
        /\ left \in uint16_t /\ 0 <= left /\ left < UINT16
        /\ rem > 0 => left = rem - 1
        /\ rem = 0 => left = UINT16 - 1
  BY <1>3, Remaining
<1>6. left = 0
  BY <1>3, <1>5
<1>7. declared >= shortest /\ msg_length + 1 = header + declared
  BY <1>2, <1>3, <1>4, <1>5, <1>6
<1>8. n \in uint16_t
  BY <1>2, Uint16
<1>9. /\ scratchPad' \in ScratchPads /\ scratchPad'.bytesRemaining = n
      /\ scratchPad'.sentenceNameLength = scratchPad.sentenceNameLength
  BY <1>8, SetTo
<1>. QED BY <1>2, <1>4, <1>7, <1>9 DEF Closing, AtMost

\* A check byte of a binary frame, the last or not.
LEMMA ClosedOn ==
  ASSUME Inv, parse # "nullptr", msg_length < buffer_length,
         NEW header \in Nat, NEW shortest \in Nat, NEW n \in Nat, n <= 8,
         NEW match \in BOOLEAN, Closing(header, shortest, n),
         scratchPad' = [scratchPad EXCEPT !.bytesRemaining = Decrement(scratchPad.bytesRemaining, UINT16)],
         declared' = declared, agree' = Agreed(match)
  PROVE  /\ scratchPad' \in ScratchPads
         /\ scratchPad'.sentenceNameLength = scratchPad.sentenceNameLength
         /\ agree' \in Int /\ -1 <= agree' /\ agree' <= 8
         /\ declared' \in Int /\ -1 <= declared' /\ declared' < UINT16
         /\ scratchPad'.bytesRemaining = scratchPad.bytesRemaining - 1
         /\ scratchPad.bytesRemaining \in Int
         /\ Decrement(scratchPad.bytesRemaining, UINT16) = 0 =>
              /\ scratchPad.bytesRemaining = 1
              /\ msg_length + 1 = header + n + declared
         /\ Decrement(scratchPad.bytesRemaining, UINT16) # 0 /\ msg_length' = msg_length + 1 =>
              Closing(header, shortest, n)'
<1>1. Typed
  BY CallFacts
<1>2. /\ msg_length \in Int /\ UINT16 \in Int /\ UINT16 > 1100
      /\ declared \in Int /\ -1 <= declared /\ declared < UINT16 /\ agree \in Int
  BY <1>1 DEF Typed
<1>3. PICK rem \in Int : rem = scratchPad.bytesRemaining
  BY Remainder
<1>4. /\ declared >= shortest /\ 1 <= rem /\ rem <= n
      /\ msg_length + rem = header + n + declared /\ agree <= n - rem
  BY <1>3 DEF Closing, AtMost
<1>5. PICK left \in Int :
        /\ left = Decrement(rem, UINT16)
        /\ left \in uint16_t /\ 0 <= left /\ left < UINT16
        /\ rem > 0 => left = rem - 1
        /\ rem = 0 => left = UINT16 - 1
  BY <1>2, <1>3, <1>4, Remaining
<1>6. /\ scratchPad' \in ScratchPads /\ scratchPad'.bytesRemaining = left
      /\ scratchPad'.sentenceNameLength = scratchPad.sentenceNameLength
  BY <1>3, <1>5, SetTo
<1>7. agree < 8
  BY <1>2, <1>4
<1>8. /\ agree' \in Int /\ -1 <= agree' /\ agree' <= 8
      /\ agree' = agree + 1 \/ agree' = -1
  BY <1>7, Agreement
<1>9. left = rem - 1
  BY <1>4, <1>5
<1>10. agree' <= n - left
  BY <1>2, <1>4, <1>8, <1>9
<1>11. ASSUME left # 0, msg_length' = msg_length + 1 PROVE Closing(header, shortest, n)'
  BY <1>2, <1>4, <1>6, <1>9, <1>10, <1>11 DEF Closing, AtMost
<1>12. left = 0 => rem = 1 /\ msg_length + 1 = header + n + declared
  BY <1>2, <1>4, <1>9
<1>. QED BY <1>2, <1>3, <1>5, <1>6, <1>8, <1>9, <1>11, <1>12

\* The end of a binary frame: the callback sees a frame of the declared length that
\* lies in the buffer and was checked over its protected bytes.
LEMMA FrameFinished ==
  ASSUME Inv, parse # "nullptr", msg_length < buffer_length,
         NEW p \in BinaryProtocols, NEW w \in 0 .. 8, NEW n \in uint16_t,
         NEW r \in {"passed", "overruled", "refused", "unreported"},
         NEW c \in CheckRegisters, NEW s \in CheckRegisters,
         Active(p), declared # Unset, msg_length + 1 = Envelope(p) + declared,
         (s.seed = "ones" /\ s.cover = msg_length + 1 /\ s.inverted = msg_length + 1 - 4)
           \/ p # "Custom",
         (s.seed = "zeros" /\ s.cover = msg_length + 1 /\ s.inverted = 0) \/ p # "RTCM",
         (s.seed = "zeros" /\ s.cover = msg_length + 1 - 4 /\ s.inverted = 0) \/ p # "UBLOX",
         Finish(n, c, Verdict(p, w, r, msg_length + 1, s)),
         scratchPad' \in ScratchPads, scratchPad'.sentenceNameLength < 16,
         declared' = declared,
         agree' \in Int, -1 <= agree', agree' <= 8
  PROVE  Inv'
<1>1. Typed
  BY CallFacts
<1>2. out' = [result |-> r, proto |-> p, type |-> parser_type, len |-> msg_length + 1,
              sum |-> s, declared |-> declared, width |-> w]
  BY DEF Finish, Verdict
<1>3. out' \in Callbacks
  <2>1. parser_type \in 0 .. Len(ParserTable) /\ msg_length + 1 \in uint16_t
    BY <1>1, Uint16 DEF Typed
  <2>2. declared \in uint16_t \cup {Unset}
    BY <1>1, Uint16 DEF Typed
  <2>3. p \in Protocols
    BY DEF BinaryProtocols, Protocols
  <2>4. r \in {"passed", "overruled", "refused", "unreported", "dropped"}
    OBVIOUS
  <2>. QED BY <1>2, <2>1, <2>2, <2>3, <2>4, VerdictType, ZenonT(30)
<1>4. CallbackInv'
  <2>1. /\ out'.result = r /\ out'.proto = p /\ out'.type = parser_type
        /\ out'.len = msg_length + 1 /\ out'.sum = s /\ out'.declared = declared
    BY <1>2
  <2>2. p # "UnicoreHash" /\ p # "NMEA" /\ buffer_length' = buffer_length
    BY DEF BinaryProtocols, Finish, instance
  <2>3. parser_type < Len(ParserTable) /\ ParserTable[parser_type + 1] = p
    BY DEF Active
  <2>4. CheckCoversFrame'
    <3>0. msg_length \in Int /\ (msg_length + 1) % UINT16 = msg_length + 1
      BY <1>1, Unwrapped DEF Typed
    <3>1. CASE p = "Custom"
      <4>1. Unchecked' = 0 BY <2>1, <3>1 DEF Unchecked, TwoDigitHash
      <4>2. s.cover + Unchecked' = msg_length + 1 BY <3>0, <3>1, <4>1
      <4>. QED BY <2>1, <3>0, <3>1, <4>2 DEF CheckCoversFrame
    <3>2. CASE p = "RTCM"
      <4>1. Unchecked' = 0 BY <2>1, <3>2 DEF Unchecked, TwoDigitHash
      <4>2. s.cover + Unchecked' = msg_length + 1 BY <3>0, <3>2, <4>1
      <4>. QED BY <2>1, <3>0, <3>2, <4>2 DEF CheckCoversFrame
    <3>3. CASE p = "UBLOX"
      <4>1. Unchecked' = 4 BY <2>1, <3>3 DEF Unchecked, TwoDigitHash
      <4>2. s.cover + Unchecked' = msg_length + 1 BY <3>0, <3>3, <4>1
      <4>. QED BY <2>1, <3>0, <3>3, <4>2 DEF CheckCoversFrame
    <3>4. CASE p = "UnicoreBinary"
      BY <2>1, <3>4 DEF CheckCoversFrame
    <3>. QED BY <3>1, <3>2, <3>3, <3>4 DEF BinaryProtocols
  <2>5. Footprint' = msg_length + 1
    BY <1>1, <2>1, <2>2 DEF Footprint, Typed
  <2>6. Envelope(out'.proto) = Envelope(p)
    BY <2>1
  <2>. QED BY <1>1, <2>1, <2>2, <2>3, <2>4, <2>5, <2>6 DEF CallbackInv, Typed
<1>. QED BY <1>1, <1>3, <1>4, Finished DEF Finish, Typed

\* The routine computeCrc points to in a custom frame covers one more byte.
LEMMA CustomCrc ==
  ASSUME Inv, parse # "nullptr", CustomInv
  PROVE  /\ Crc \in CheckRegisters
         /\ Crc.seed = "ones" /\ Crc.cover = msg_length + 1 /\ Crc.inverted = crc.inverted
<1>1. Crc = Absorb(crc) BY DEF Crc, Compute, CustomInv
<1>. QED BY ZenonT(30), <1>1, CallFacts, RegisterUpdates DEF CustomInv, Typed

\* The routines of Parse_Custom.c preserve the invariant.
LEMMA CustomStep == ASSUME Inv, CustomHandler PROVE Inv'
<1>1. ASSUME NEW data \in Bytes, sempCustomSync2(data) PROVE Inv'
  <2>0. parse # "nullptr" /\ msg_length < buffer_length /\ state = "sempCustomSync2"
    BY <1>1 DEF sempCustomSync2, Called
  <2>t. Typed
    BY <2>0, CallFacts
  <2>1. CustomInv
    BY <2>0 DEF Inv, FrameInv, CustomStates
  <2>2. CASE Restart(data)
    BY <2>0, <2>2, Restarted
  <2>3. CASE Continue("sempCustomSync3", Crc) /\ UNCHANGED fields
    <3>1. CustomInv' /\ state' \in CustomStates
      BY <2>0, <2>1, <2>3, <2>t, CustomCrc
      DEF Typed, CustomInv, Active, Undeclared, CustomStates, Continue, fields
    <3>. QED BY <2>0, <2>1, <2>3, <3>1, <2>t, CustomCrc, Continued DEF Typed, Continue, fields
  <2>. QED BY <1>1, <2>2, <2>3 DEF sempCustomSync2
<1>2. ASSUME NEW data \in Bytes, sempCustomSync3(data) PROVE Inv'
  <2>0. parse # "nullptr" /\ msg_length < buffer_length /\ state = "sempCustomSync3"
    BY <1>2 DEF sempCustomSync3, Called
  <2>t. Typed
    BY <2>0, CallFacts
  <2>1. CustomInv
    BY <2>0 DEF Inv, FrameInv, CustomStates
  <2>2. CASE Restart(data)
    BY <2>0, <2>2, Restarted
  <2>3. CASE Continue("sempCustomReadHeader", Crc) /\ UNCHANGED fields
    <3>1. CustomInv' /\ state' \in CustomStates
      BY <2>0, <2>1, <2>3, <2>t, CustomCrc
      DEF Typed, CustomInv, Active, Undeclared, CustomStates, Continue, fields
    <3>. QED BY <2>0, <2>1, <2>3, <3>1, <2>t, CustomCrc, Continued DEF Typed, Continue, fields
  <2>. QED BY <1>2, <2>2, <2>3 DEF sempCustomSync3
<1>3. ASSUME sempCustomReadHeader PROVE Inv'
  <2>0. /\ parse # "nullptr" /\ msg_length < buffer_length /\ state = "sempCustomReadHeader"
        /\ agree' = agree
    BY <1>3 DEF sempCustomReadHeader, Called
  <2>t. Typed
    BY <2>0, CallFacts
  <2>1. CustomInv
    BY <2>0 DEF Inv, FrameInv, CustomStates
  <2>2. CASE /\ msg_length + 1 < SEMP_CUSTOM_HEADER
             /\ Continue("sempCustomReadHeader", Crc)
             /\ UNCHANGED <<scratchPad, declared>>
    <3>1. CustomInv' /\ state' \in CustomStates
      BY <2>0, <2>1, <2>2, <2>t, CustomCrc
      DEF Typed, CustomInv, Active, Undeclared, CustomStates, Continue, SEMP_CUSTOM_HEADER
    <3>. QED BY <2>0, <2>1, <2>2, <3>1, <2>t, CustomCrc, Continued DEF Typed, Continue
  <2>3. CASE /\ msg_length + 1 >= SEMP_CUSTOM_HEADER
             /\ Continue("sempCustomReadData", Crc)
             /\ declared' \in MessageLengths
             /\ scratchPad' = [scratchPad EXCEPT !.bytesRemaining = declared']
    <3>0. declared' \in uint16_t
      BY <2>3, LengthAssumption
    <3>1. declared' \in Int /\ 0 <= declared' /\ declared' < UINT16
      BY <3>0, Uint16
    <3>2. /\ scratchPad' \in ScratchPads /\ scratchPad'.bytesRemaining = declared'
          /\ scratchPad'.sentenceNameLength = scratchPad.sentenceNameLength
      BY <2>0, <2>3, <3>0, SetTo
    <3>3. CustomInv' /\ state' \in CustomStates
      BY <2>0, <2>1, <2>3, <3>1, <3>2, <2>t, CustomCrc
      DEF Typed, CustomInv, Active, Undeclared, Counting, CustomStates, Continue, SEMP_CUSTOM_HEADER
    <3>. QED BY <2>0, <2>1, <2>3, <3>1, <3>2, <3>3, <2>t, CustomCrc, Continued DEF Typed, Continue
  <2>. QED BY <1>3, <2>0, <2>2, <2>3 DEF sempCustomReadHeader
<1>4. ASSUME sempCustomReadData PROVE Inv'
  <2>0. /\ parse # "nullptr" /\ msg_length < buffer_length /\ state = "sempCustomReadData"
        /\ declared' = declared /\ agree' = agree
    BY <1>4 DEF sempCustomReadData, Called
  <2>t. Typed
    BY <2>0, CallFacts
  <2>1. CustomInv /\ msg_length >= 20 /\ Counting(20, 1)
    BY <2>0 DEF Inv, FrameInv, CustomStates, CustomInv
  <2> DEFINE left == Decrement(scratchPad.bytesRemaining, UINT16)
  <2>2. CASE /\ left # 0 /\ Continue("sempCustomReadData", Crc)
             /\ scratchPad' = [scratchPad EXCEPT !.bytesRemaining = left]
    <3>1. /\ scratchPad' \in ScratchPads
          /\ scratchPad'.sentenceNameLength = scratchPad.sentenceNameLength
          /\ Counting(20, 1)'
      <4>1. 20 \in Nat /\ 1 \in Nat
        OBVIOUS
      <4>2. msg_length' = msg_length + 1 BY <2>2 DEF Continue
      <4>. QED BY <2>0, <2>1, <2>2, <4>1, <4>2, CountedOn, ZenonT(30)
    <3>2. CustomInv' /\ state' \in CustomStates
      BY <2>0, <2>1, <2>2, <3>1, <2>t, CustomCrc DEF Typed, CustomInv, Active, CustomStates, Continue
    <3>. QED BY <2>0, <2>1, <2>2, <3>1, <3>2, <2>t, CustomCrc, Continued DEF Typed, Continue
  <2>3. CASE /\ left = 0 /\ Continue("sempCustomReadCrc", Complement(Crc))
             /\ scratchPad' = [scratchPad EXCEPT !.bytesRemaining = 4]
    <3>1. /\ scratchPad' \in ScratchPads
          /\ scratchPad'.sentenceNameLength = scratchPad.sentenceNameLength
          /\ scratchPad'.bytesRemaining = 4
          /\ Closing(20, 1, 4)'
      <4>1. /\ 20 \in Nat /\ 1 \in Nat /\ 4 \in Nat /\ 4 >= 1 /\ 4 <= 8
            /\ msg_length >= 20 + 1 - 1
        BY <2>1
      <4>2. msg_length' = msg_length + 1 BY <2>3 DEF Continue
      <4>. QED BY <2>0, <2>1, <2>3, <4>1, <4>2, CountedOut, ZenonT(30)
    <3>2. /\ crc' \in CheckRegisters /\ crc'.seed = "ones"
          /\ crc'.cover = msg_length + 1 /\ crc'.inverted = msg_length + 1
      BY <2>0, <2>1, <2>3, CustomCrc, RegisterUpdates DEF Continue
    <3>3. CustomInv' /\ state' \in CustomStates
      BY <2>0, <2>1, <2>3, <3>1, <3>2, <2>t DEF Typed, CustomInv, Active, CustomStates, Continue
    <3>. QED BY <2>0, <2>1, <2>3, <3>1, <3>2, <3>3, <2>t, Continued DEF Typed, Continue
  <2>. QED BY <1>4, <2>2, <2>3 DEF sempCustomReadData
<1>5. ASSUME NEW match \in BOOLEAN, NEW overruled \in BOOLEAN,
             sempCustomReadCrc(match, overruled)
      PROVE  Inv'
  <2>0. /\ parse # "nullptr" /\ msg_length < buffer_length /\ state = "sempCustomReadCrc"
        /\ declared' = declared /\ agree' = Agreed(match)
        /\ scratchPad' = [scratchPad EXCEPT !.bytesRemaining = Decrement(scratchPad.bytesRemaining, UINT16)]
    BY <1>5 DEF sempCustomReadCrc, Called
  <2>t. Typed
    BY <2>0, CallFacts
  <2>1. CustomInv /\ Closing(20, 1, 4) /\ crc.inverted = msg_length + scratchPad.bytesRemaining - 4
    BY <2>0 DEF Inv, FrameInv, CustomStates, CustomInv
  <2> DEFINE left == Decrement(scratchPad.bytesRemaining, UINT16)
  <2>2. /\ scratchPad' \in ScratchPads
        /\ scratchPad'.sentenceNameLength = scratchPad.sentenceNameLength
        /\ agree' \in Int /\ -1 <= agree' /\ agree' <= 8
        /\ declared' \in Int /\ -1 <= declared' /\ declared' < UINT16
        /\ scratchPad'.bytesRemaining = scratchPad.bytesRemaining - 1
        /\ scratchPad.bytesRemaining \in Int
        /\ left = 0 => scratchPad.bytesRemaining = 1 /\ msg_length + 1 = 20 + 4 + declared
        /\ left # 0 /\ msg_length' = msg_length + 1 => Closing(20, 1, 4)'
    <3>1. 20 \in Nat /\ 1 \in Nat /\ 4 \in Nat /\ 4 <= 8
      OBVIOUS
    <3>. QED BY <2>0, <2>1, <3>1, ClosedOn, ZenonT(30)
  <2> HIDE DEF left
  <2>3. CASE left # 0 /\ Continue("sempCustomReadCrc", Crc)
    <3>1. Closing(20, 1, 4)'
      BY <2>2, <2>3 DEF Continue
    <3>2. crc'.inverted = msg_length' + scratchPad'.bytesRemaining - 4
      <4>1. crc'.inverted = crc.inverted /\ msg_length' = msg_length + 1 /\ msg_length \in Int
        BY <2>0, <2>1, <2>3, <2>t, CustomCrc DEF Typed, Continue
      <4>. QED BY <2>1, <2>2, <4>1
    <3>3. CustomInv' /\ state' \in CustomStates
      BY <2>0, <2>1, <2>3, <3>1, <3>2, <2>t, CustomCrc DEF Typed, CustomInv, Active, CustomStates, Continue
    <3>. QED BY <2>0, <2>1, <2>2, <2>3, <3>3, <2>t, CustomCrc, Continued DEF Typed, Continue
  <2>4. CASE /\ left = 0
             /\ Finish(msg_length + 1, Crc,
                       Verdict("Custom", 4, Result(agree' = 4, overruled), msg_length + 1, Crc))
    <3>1. PICK r \in {"passed", "overruled", "refused", "unreported"} :
            Finish(msg_length + 1, Crc, Verdict("Custom", 4, r, msg_length + 1, Crc))
      BY <2>4 DEF Result
    <3>2. /\ Crc \in CheckRegisters /\ Crc.seed = "ones" /\ Crc.cover = msg_length + 1
          /\ Crc.inverted = msg_length + 1 - 4
      BY <2>0, <2>1, <2>2, <2>4, <2>t, CustomCrc DEF Typed
    <3>3. /\ msg_length + 1 \in uint16_t /\ declared # Unset /\ Active("Custom")
          /\ msg_length + 1 = Envelope("Custom") + declared
      <4>1. Envelope("Custom") = 24 BY DEF Envelope
      <4>2. Active("Custom") /\ declared # Unset BY <2>1, <2>t DEF CustomInv, Closing, Typed
      <4>3. msg_length + 1 \in uint16_t BY <2>0, <2>t, Uint16 DEF Typed
      <4>. QED BY <2>2, <2>4, <2>t, <4>1, <4>2, <4>3 DEF Typed
    <3>4. "Custom" \in BinaryProtocols /\ 4 \in 0 .. 8
      BY DEF BinaryProtocols
    <3>5. scratchPad'.sentenceNameLength < 16
      BY <2>2, <2>t DEF Typed
    <3>. QED BY <2>0, <2>2, <3>1, <3>2, <3>3, <3>4, <3>5, FrameFinished, ZenonT(30)
  <2>. QED BY <1>5, <2>3, <2>4 DEF sempCustomReadCrc, left
<1>. QED BY <1>1, <1>2, <1>3, <1>4, <1>5 DEF CustomHandler

\* The register in a Unicore binary frame has no defined value but has its type.
LEMMA UnicoreBinaryCrc ==
  ASSUME Inv, parse # "nullptr", UnicoreBinaryInv
  PROVE  Crc \in CheckRegisters
<1>1. Crc = Garbage(crc) BY DEF Crc, Compute, UnicoreBinaryInv
<1>. QED BY <1>1, CallFacts, RegisterUpdates DEF Typed

\* The routines of Parse_Unicore_Binary.c preserve the invariant.
LEMMA UnicoreBinaryStep == ASSUME Inv, UnicoreBinaryHandler PROVE Inv'
<1>1. ASSUME NEW data \in Bytes, sempUnicoreBinarySync2(data) PROVE Inv'
  <2>0. parse # "nullptr" /\ msg_length < buffer_length /\ state = "sempUnicoreBinarySync2"
    BY <1>1 DEF sempUnicoreBinarySync2, Called
  <2>t. Typed
    BY <2>0, CallFacts
  <2>1. UnicoreBinaryInv
    BY <2>0 DEF Inv, FrameInv, UnicoreBinaryStates
  <2>2. CASE Restart(data)
    BY <2>0, <2>2, Restarted
  <2>3. CASE Continue("sempUnicoreBinarySync3", Crc) /\ UNCHANGED fields
    <3>1. UnicoreBinaryInv' /\ state' \in UnicoreBinaryStates
      BY <2>0, <2>1, <2>3, <2>t, UnicoreBinaryCrc
      DEF Typed, UnicoreBinaryInv, Active, Undeclared, UnicoreBinaryStates, Continue, fields
    <3>. QED BY <2>0, <2>1, <2>3, <3>1, <2>t, UnicoreBinaryCrc, Continued DEF Typed, Continue, fields
  <2>. QED BY <1>1, <2>2, <2>3 DEF sempUnicoreBinarySync2
<1>2. ASSUME NEW data \in Bytes, sempUnicoreBinarySync3(data) PROVE Inv'
  <2>0. parse # "nullptr" /\ msg_length < buffer_length /\ state = "sempUnicoreBinarySync3"
    BY <1>2 DEF sempUnicoreBinarySync3, Called
  <2>t. Typed
    BY <2>0, CallFacts
  <2>1. UnicoreBinaryInv
    BY <2>0 DEF Inv, FrameInv, UnicoreBinaryStates
  <2>2. CASE Restart(data)
    BY <2>0, <2>2, Restarted
  <2>3. CASE Continue("sempUnicoreBinaryReadHeader", Crc) /\ UNCHANGED fields
    <3>1. UnicoreBinaryInv' /\ state' \in UnicoreBinaryStates
      BY <2>0, <2>1, <2>3, <2>t, UnicoreBinaryCrc
      DEF Typed, UnicoreBinaryInv, Active, Undeclared, UnicoreBinaryStates, Continue, fields
    <3>. QED BY <2>0, <2>1, <2>3, <3>1, <2>t, UnicoreBinaryCrc, Continued DEF Typed, Continue, fields
  <2>. QED BY <1>2, <2>2, <2>3 DEF sempUnicoreBinarySync3
<1>3. ASSUME sempUnicoreBinaryReadHeader PROVE Inv'
  <2>0. /\ parse # "nullptr" /\ msg_length < buffer_length /\ state = "sempUnicoreBinaryReadHeader"
        /\ agree' = agree
    BY <1>3 DEF sempUnicoreBinaryReadHeader, Called
  <2>t. Typed
    BY <2>0, CallFacts
  <2>1. UnicoreBinaryInv
    BY <2>0 DEF Inv, FrameInv, UnicoreBinaryStates
  <2>2. CASE /\ msg_length + 1 < SEMP_UNICORE_HEADER
             /\ Continue("sempUnicoreBinaryReadHeader", Crc)
             /\ UNCHANGED <<scratchPad, declared>>
    <3>1. UnicoreBinaryInv' /\ state' \in UnicoreBinaryStates
      BY <2>0, <2>1, <2>2, <2>t, UnicoreBinaryCrc
      DEF Typed, UnicoreBinaryInv, Active, Undeclared, UnicoreBinaryStates, Continue, SEMP_UNICORE_HEADER
    <3>. QED BY <2>0, <2>1, <2>2, <3>1, <2>t, UnicoreBinaryCrc, Continued DEF Typed, Continue
  <2>3. CASE /\ msg_length + 1 >= SEMP_UNICORE_HEADER
             /\ Continue("sempUnicoreBinaryReadData", Crc)
             /\ declared' \in MessageLengths
             /\ scratchPad' = [scratchPad EXCEPT !.bytesRemaining = declared']
    <3>0. declared' \in uint16_t
      BY <2>3, LengthAssumption
    <3>1. declared' \in Int /\ 0 <= declared' /\ declared' < UINT16
      BY <3>0, Uint16
    <3>2. /\ scratchPad' \in ScratchPads /\ scratchPad'.bytesRemaining = declared'
          /\ scratchPad'.sentenceNameLength = scratchPad.sentenceNameLength
      BY <2>0, <2>3, <3>0, SetTo
    <3>3. UnicoreBinaryInv' /\ state' \in UnicoreBinaryStates
      BY <2>0, <2>1, <2>3, <3>1, <3>2, <2>t, UnicoreBinaryCrc
      DEF Typed, UnicoreBinaryInv, Active, Undeclared, Counting, UnicoreBinaryStates, Continue, SEMP_UNICORE_HEADER
    <3>. QED BY <2>0, <2>1, <2>3, <3>1, <3>2, <3>3, <2>t, UnicoreBinaryCrc, Continued DEF Typed, Continue
  <2>. QED BY <1>3, <2>0, <2>2, <2>3 DEF sempUnicoreBinaryReadHeader
<1>4. ASSUME sempUnicoreBinaryReadData PROVE Inv'
  <2>0. /\ parse # "nullptr" /\ msg_length < buffer_length /\ state = "sempUnicoreBinaryReadData"
        /\ declared' = declared /\ agree' = agree
    BY <1>4 DEF sempUnicoreBinaryReadData, Called
  <2>t. Typed
    BY <2>0, CallFacts
  <2>1. UnicoreBinaryInv /\ msg_length >= 24 /\ Counting(24, 1)
    BY <2>0 DEF Inv, FrameInv, UnicoreBinaryStates, UnicoreBinaryInv
  <2> DEFINE left == Decrement(scratchPad.bytesRemaining, UINT16)
  <2>2. CASE /\ left # 0 /\ Continue("sempUnicoreBinaryReadData", Crc)
             /\ scratchPad' = [scratchPad EXCEPT !.bytesRemaining = left]
    <3>1. /\ scratchPad' \in ScratchPads
          /\ scratchPad'.sentenceNameLength = scratchPad.sentenceNameLength
          /\ Counting(24, 1)'
      <4>1. 24 \in Nat /\ 1 \in Nat
        OBVIOUS
      <4>2. msg_length' = msg_length + 1 BY <2>2 DEF Continue
      <4>. QED BY <2>0, <2>1, <2>2, <4>1, <4>2, CountedOn, ZenonT(30)
    <3>2. UnicoreBinaryInv' /\ state' \in UnicoreBinaryStates
      BY <2>0, <2>1, <2>2, <3>1, <2>t, UnicoreBinaryCrc DEF Typed, UnicoreBinaryInv, Active, UnicoreBinaryStates, Continue
    <3>. QED BY <2>0, <2>1, <2>2, <3>1, <3>2, <2>t, UnicoreBinaryCrc, Continued DEF Typed, Continue
  <2>3. CASE /\ left = 0 /\ Continue("sempUnicoreBinaryReadCrc", Crc)
             /\ scratchPad' = [scratchPad EXCEPT !.bytesRemaining = 4]
    <3>1. /\ scratchPad' \in ScratchPads
          /\ scratchPad'.sentenceNameLength = scratchPad.sentenceNameLength
          /\ scratchPad'.bytesRemaining = 4
          /\ Closing(24, 1, 4)'
      <4>1. /\ 24 \in Nat /\ 1 \in Nat /\ 4 \in Nat /\ 4 >= 1 /\ 4 <= 8
            /\ msg_length >= 24 + 1 - 1
        BY <2>1
      <4>2. msg_length' = msg_length + 1 BY <2>3 DEF Continue
      <4>. QED BY <2>0, <2>1, <2>3, <4>1, <4>2, CountedOut, ZenonT(30)
    <3>2. crc' \in CheckRegisters
      BY <2>0, <2>1, <2>3, UnicoreBinaryCrc DEF Continue
    <3>3. UnicoreBinaryInv' /\ state' \in UnicoreBinaryStates
      BY <2>0, <2>1, <2>3, <3>1, <3>2, <2>t DEF Typed, UnicoreBinaryInv, Active, UnicoreBinaryStates, Continue
    <3>. QED BY <2>0, <2>1, <2>3, <3>1, <3>2, <3>3, <2>t, Continued DEF Typed, Continue
  <2>. QED BY <1>4, <2>2, <2>3 DEF sempUnicoreBinaryReadData
<1>5. ASSUME NEW match \in BOOLEAN, NEW zero \in BOOLEAN, NEW overruled \in BOOLEAN,
             sempUnicoreBinaryReadCrc(match, zero, overruled)
      PROVE  Inv'
  <2>0. /\ parse # "nullptr" /\ msg_length < buffer_length /\ state = "sempUnicoreBinaryReadCrc"
        /\ declared' = declared /\ agree' = Agreed(match)
        /\ scratchPad' = [scratchPad EXCEPT !.bytesRemaining = Decrement(scratchPad.bytesRemaining, UINT16)]
    BY <1>5 DEF sempUnicoreBinaryReadCrc, Called
  <2>t. Typed
    BY <2>0, CallFacts
  <2>1. UnicoreBinaryInv /\ Closing(24, 1, 4)
    BY <2>0 DEF Inv, FrameInv, UnicoreBinaryStates, UnicoreBinaryInv
  <2> DEFINE left == Decrement(scratchPad.bytesRemaining, UINT16)
  <2>2. /\ scratchPad' \in ScratchPads
        /\ scratchPad'.sentenceNameLength = scratchPad.sentenceNameLength
        /\ agree' \in Int /\ -1 <= agree' /\ agree' <= 8
        /\ declared' \in Int /\ -1 <= declared' /\ declared' < UINT16
        /\ scratchPad'.bytesRemaining = scratchPad.bytesRemaining - 1
        /\ scratchPad.bytesRemaining \in Int
        /\ left = 0 => scratchPad.bytesRemaining = 1 /\ msg_length + 1 = 24 + 4 + declared
        /\ left # 0 /\ msg_length' = msg_length + 1 => Closing(24, 1, 4)'
    <3>1. 24 \in Nat /\ 1 \in Nat /\ 4 \in Nat /\ 4 <= 8
      OBVIOUS
    <3>. QED BY <2>0, <2>1, <3>1, ClosedOn, ZenonT(30)
  <2> HIDE DEF left
  <2>3. CASE left # 0 /\ Continue("sempUnicoreBinaryReadCrc", Crc)
    <3>1. Closing(24, 1, 4)'
      BY <2>2, <2>3 DEF Continue
    <3>3. UnicoreBinaryInv' /\ state' \in UnicoreBinaryStates
      BY <2>0, <2>1, <2>3, <3>1, <2>t, UnicoreBinaryCrc DEF Typed, UnicoreBinaryInv, Active, UnicoreBinaryStates, Continue
    <3>. QED BY <2>0, <2>1, <2>2, <2>3, <3>3, <2>t, UnicoreBinaryCrc, Continued DEF Typed, Continue
  <2>4. CASE /\ left = 0
             /\ Finish(msg_length + 1, Crc,
                       Verdict("UnicoreBinary", 4, Result(zero, overruled), msg_length + 1, Crc))
    <3>1. PICK r \in {"passed", "overruled", "refused", "unreported"} :
            Finish(msg_length + 1, Crc, Verdict("UnicoreBinary", 4, r, msg_length + 1, Crc))
      BY <2>4 DEF Result
    <3>2. Crc \in CheckRegisters
      BY <2>0, <2>1, UnicoreBinaryCrc
    <3>3. /\ msg_length + 1 \in uint16_t /\ declared # Unset /\ Active("UnicoreBinary")
          /\ msg_length + 1 = Envelope("UnicoreBinary") + declared
      <4>1. Envelope("UnicoreBinary") = 28 BY DEF Envelope
      <4>2. Active("UnicoreBinary") /\ declared # Unset BY <2>1, <2>t DEF UnicoreBinaryInv, Closing, Typed
      <4>3. msg_length + 1 \in uint16_t BY <2>0, <2>t, Uint16 DEF Typed
      <4>. QED BY <2>2, <2>4, <2>t, <4>1, <4>2, <4>3 DEF Typed
    <3>4. "UnicoreBinary" \in BinaryProtocols /\ 4 \in 0 .. 8
      BY DEF BinaryProtocols
    <3>5. scratchPad'.sentenceNameLength < 16
      BY <2>2, <2>t DEF Typed
    <3>. QED BY <2>0, <2>2, <3>1, <3>2, <3>3, <3>4, <3>5, FrameFinished, ZenonT(30)
  <2>. QED BY <1>5, <2>3, <2>4 DEF sempUnicoreBinaryReadCrc, left
<1>. QED BY <1>1, <1>2, <1>3, <1>4, <1>5 DEF UnicoreBinaryHandler

\* The routine computeCrc points to in an RTCM frame covers one more byte.
LEMMA RtcmCrc ==
  ASSUME Inv, parse # "nullptr", RtcmInv
  PROVE  /\ Crc \in CheckRegisters
         /\ Crc.seed = "zeros" /\ Crc.cover = msg_length + 1 /\ Crc.inverted = 0
<1>1. Crc = Absorb(crc) BY DEF Crc, Compute, RtcmInv
<1>2. crc \in CheckRegisters BY CallFacts DEF Typed
<1>. QED BY <1>1, <1>2, RegisterUpdates DEF RtcmInv

\* The routines of Parse_RTCM.c preserve the invariant.
LEMMA RtcmStep == ASSUME Inv, RtcmHandler PROVE Inv'
<1>1. ASSUME NEW data \in Bytes, sempRtcmReadLength1(data) PROVE Inv'
  <2>0. parse # "nullptr" /\ msg_length < buffer_length /\ state = "sempRtcmReadLength1"
    BY <1>1 DEF sempRtcmReadLength1, Called
  <2>t. Typed
    BY <2>0, CallFacts
  <2>1. RtcmInv
    BY <2>0 DEF Inv, FrameInv, RtcmStates
  <2>2. CASE Restart(data)
    BY <2>0, <2>2, Restarted
  <2>3. CASE /\ data \in 0 .. 3
             /\ Continue("sempRtcmReadLength2", Crc)
             /\ scratchPad' = [scratchPad EXCEPT !.bytesRemaining = 256 * data]
             /\ UNCHANGED <<declared, agree>>
    <3>1. 256 * data \in Int /\ 0 <= 256 * data /\ 256 * data <= 768
      BY <2>3
    <3>2. 256 * data \in uint16_t
      BY <3>1, Widths, Uint16
    <3>3. /\ scratchPad' \in ScratchPads /\ scratchPad'.bytesRemaining = 256 * data
          /\ scratchPad'.sentenceNameLength = scratchPad.sentenceNameLength
      BY <2>0, <2>3, <3>2, SetTo
    <3>4. RtcmInv' /\ state' \in RtcmStates
      BY <2>0, <2>1, <2>3, <3>1, <3>3, <2>t, RtcmCrc
      DEF Typed, RtcmInv, Active, Undeclared, RtcmStates, Continue
    <3>. QED BY <2>0, <2>1, <2>3, <3>3, <3>4, <2>t, RtcmCrc, Continued DEF Typed, Continue
  <2>. QED BY <1>1, <2>2, <2>3 DEF sempRtcmReadLength1
<1>2. ASSUME NEW data \in Bytes, sempRtcmReadLength2(data) PROVE Inv'
  <2>0. /\ parse # "nullptr" /\ msg_length < buffer_length /\ state = "sempRtcmReadLength2"
        /\ Continue("sempRtcmReadMessage1", Crc) /\ agree' = agree
        /\ declared' = scratchPad.bytesRemaining + data
        /\ scratchPad' = [scratchPad EXCEPT !.bytesRemaining = declared']
    BY <1>2 DEF sempRtcmReadLength2, Called
  <2>t. Typed
    BY <2>0, CallFacts
  <2>1. RtcmInv
    BY <2>0 DEF Inv, FrameInv, RtcmStates
  <2>2. data \in Int /\ 0 <= data /\ data < 256
    BY BytesAssumption, Uint8
  <2>3. PICK rem \in Int : rem = scratchPad.bytesRemaining
    BY <2>0, Remainder
  <2>4. declared' \in Int /\ 0 <= declared' /\ declared' < UINT16
    BY <2>0, <2>1, <2>2, <2>3, Widths DEF RtcmInv
  <2>5. declared' \in uint16_t
    BY <2>4, Uint16
  <2>6. /\ scratchPad' \in ScratchPads /\ scratchPad'.bytesRemaining = declared'
        /\ scratchPad'.sentenceNameLength = scratchPad.sentenceNameLength
    BY <2>0, <2>5, SetTo
  <2>7. Counting(3, 3)'
    BY <2>0, <2>1, <2>4, <2>6 DEF Continue, Counting, RtcmInv, Undeclared
  <2>8. RtcmInv' /\ state' \in RtcmStates
    BY <2>0, <2>1, <2>7, <2>t, RtcmCrc DEF Typed, RtcmInv, Active, RtcmStates, Continue
  <2>. QED BY <2>0, <2>1, <2>4, <2>6, <2>8, <2>t, RtcmCrc, Continued DEF Typed, Continue
<1>3. ASSUME sempRtcmReadMessage1 PROVE Inv'
  <2>0. /\ parse # "nullptr" /\ msg_length < buffer_length /\ state = "sempRtcmReadMessage1"
        /\ Continue("sempRtcmReadMessage2", Crc) /\ declared' = declared /\ agree' = agree
        /\ scratchPad' = [scratchPad EXCEPT !.bytesRemaining = Decrement(scratchPad.bytesRemaining, UINT16)]
    BY <1>3 DEF sempRtcmReadMessage1, CountMessageByte, Called
  <2>t. Typed
    BY <2>0, CallFacts
  <2>1. RtcmInv /\ Counting(3, 3) /\ msg_length = 3
    BY <2>0 DEF Inv, FrameInv, RtcmStates, RtcmInv
  <2>2. PICK rem \in Int : rem = scratchPad.bytesRemaining /\ 0 <= rem /\ rem < UINT16
    BY <2>0, <2>1, Remainder DEF Counting
  <2>3. declared >= 3 => rem >= 2
    BY <2>1, <2>2, <2>t DEF Counting, Typed
  <2>4. Decrement(scratchPad.bytesRemaining, UINT16) # 0 \/ declared < 3
    <3>1. rem >= 2 => Decrement(rem, UINT16) = rem - 1
      BY <2>2, Decremented
    <3>2. declared \in Int BY <2>t DEF Typed
    <3>3. declared >= 3 => Decrement(rem, UINT16) # 0
      BY <2>2, <2>3, <3>1
    <3>. QED BY <2>2, <3>2, <3>3
  <2>5. /\ scratchPad' \in ScratchPads
        /\ scratchPad'.sentenceNameLength = scratchPad.sentenceNameLength
        /\ Counting(3, 3)'
    <3>1. 3 \in Nat
      OBVIOUS
    <3>2. msg_length' = msg_length + 1 BY <2>0 DEF Continue
    <3>. QED BY <2>0, <2>1, <2>4, <3>1, <3>2, CountedOn, ZenonT(30)
  <2>6. RtcmInv' /\ state' \in RtcmStates
    BY <2>0, <2>1, <2>5, <2>t, RtcmCrc DEF Typed, RtcmInv, Active, RtcmStates, Continue
  <2>. QED BY <2>0, <2>1, <2>5, <2>6, <2>t, RtcmCrc, Continued DEF Typed, Continue
<1>4. ASSUME sempRtcmReadMessage2 PROVE Inv'
  <2>0. /\ parse # "nullptr" /\ msg_length < buffer_length /\ state = "sempRtcmReadMessage2"
        /\ Continue("sempRtcmReadData", Crc) /\ declared' = declared /\ agree' = agree
        /\ scratchPad' = [scratchPad EXCEPT !.bytesRemaining = Decrement(scratchPad.bytesRemaining, UINT16)]
    BY <1>4 DEF sempRtcmReadMessage2, CountMessageByte, Called
  <2>t. Typed
    BY <2>0, CallFacts
  <2>1. RtcmInv /\ Counting(3, 3) /\ msg_length = 4
    BY <2>0 DEF Inv, FrameInv, RtcmStates, RtcmInv
  <2>2. PICK rem \in Int : rem = scratchPad.bytesRemaining /\ 0 <= rem /\ rem < UINT16
    BY <2>0, <2>1, Remainder DEF Counting
  <2>3. declared >= 3 => rem >= 2
    BY <2>1, <2>2, <2>t DEF Counting, Typed
  <2>4. Decrement(scratchPad.bytesRemaining, UINT16) # 0 \/ declared < 3
    <3>1. rem >= 2 => Decrement(rem, UINT16) = rem - 1
      BY <2>2, Decremented
    <3>2. declared \in Int BY <2>t DEF Typed
    <3>3. declared >= 3 => Decrement(rem, UINT16) # 0
      BY <2>2, <2>3, <3>1
    <3>. QED BY <2>2, <3>2, <3>3
  <2>5. /\ scratchPad' \in ScratchPads
        /\ scratchPad'.sentenceNameLength = scratchPad.sentenceNameLength
        /\ Counting(3, 3)'
    <3>1. 3 \in Nat
      OBVIOUS
    <3>2. msg_length' = msg_length + 1 BY <2>0 DEF Continue
    <3>. QED BY <2>0, <2>1, <2>4, <3>1, <3>2, CountedOn, ZenonT(30)
  <2>6. RtcmInv' /\ state' \in RtcmStates
    BY <2>0, <2>1, <2>5, <2>t, RtcmCrc DEF Typed, RtcmInv, Active, RtcmStates, Continue
  <2>. QED BY <2>0, <2>1, <2>5, <2>6, <2>t, RtcmCrc, Continued DEF Typed, Continue
<1>5. ASSUME sempRtcmReadData PROVE Inv'
  <2>0. /\ parse # "nullptr" /\ msg_length < buffer_length /\ state = "sempRtcmReadData"
        /\ declared' = declared /\ agree' = agree
    BY <1>5 DEF sempRtcmReadData, Called
  <2>t. Typed
    BY <2>0, CallFacts
  <2>1. RtcmInv /\ msg_length >= 5 /\ Counting(3, 3)
    BY <2>0 DEF Inv, FrameInv, RtcmStates, RtcmInv
  <2> DEFINE left == Decrement(scratchPad.bytesRemaining, UINT16)
  <2>2. CASE /\ left # 0 /\ Continue("sempRtcmReadData", Crc)
             /\ scratchPad' = [scratchPad EXCEPT !.bytesRemaining = left]
    <3>1. /\ scratchPad' \in ScratchPads
          /\ scratchPad'.sentenceNameLength = scratchPad.sentenceNameLength
          /\ Counting(3, 3)'
      <4>1. 3 \in Nat
        OBVIOUS
      <4>2. msg_length' = msg_length + 1 BY <2>2 DEF Continue
      <4>. QED BY <2>0, <2>1, <2>2, <4>1, <4>2, CountedOn, ZenonT(30)
    <3>2. RtcmInv' /\ state' \in RtcmStates
      BY <2>0, <2>1, <2>2, <3>1, <2>t, RtcmCrc DEF Typed, RtcmInv, Active, RtcmStates, Continue
    <3>. QED BY <2>0, <2>1, <2>2, <3>1, <3>2, <2>t, RtcmCrc, Continued DEF Typed, Continue
  <2>3. CASE /\ left = 0 /\ Continue("sempRtcmReadCrc", Crc)
             /\ scratchPad' = [scratchPad EXCEPT !.bytesRemaining = 3]
    <3>1. /\ scratchPad' \in ScratchPads
          /\ scratchPad'.sentenceNameLength = scratchPad.sentenceNameLength
          /\ scratchPad'.bytesRemaining = 3
          /\ Closing(3, 3, 3)'
      <4>1. /\ 3 \in Nat /\ 3 >= 1 /\ 3 <= 8
            /\ msg_length >= 3 + 3 - 1
        BY <2>1
      <4>2. msg_length' = msg_length + 1 BY <2>3 DEF Continue
      <4>. QED BY <2>0, <2>1, <2>3, <4>1, <4>2, CountedOut, ZenonT(30)
    <3>2. /\ crc' \in CheckRegisters /\ crc'.seed = "zeros" /\ crc'.inverted = 0
          /\ crc'.cover = msg_length + 1
      BY <2>0, <2>1, <2>3, RtcmCrc DEF Continue
    <3>3. RtcmInv' /\ state' \in RtcmStates
      BY <2>0, <2>1, <2>3, <3>1, <3>2, <2>t DEF Typed, RtcmInv, Active, RtcmStates, Continue
    <3>. QED BY <2>0, <2>1, <2>3, <3>1, <3>2, <3>3, <2>t, Continued DEF Typed, Continue
  <2>. QED BY <1>5, <2>2, <2>3 DEF sempRtcmReadData
<1>6. ASSUME NEW match \in BOOLEAN, NEW overruled \in BOOLEAN,
             sempRtcmReadCrc(match, overruled)
      PROVE  Inv'
  <2>0. /\ parse # "nullptr" /\ msg_length < buffer_length /\ state = "sempRtcmReadCrc"
        /\ declared' = declared /\ agree' = Agreed(match)
        /\ scratchPad' = [scratchPad EXCEPT !.bytesRemaining = Decrement(scratchPad.bytesRemaining, UINT16)]
    BY <1>6 DEF sempRtcmReadCrc, Called
  <2>t. Typed
    BY <2>0, CallFacts
  <2>1. RtcmInv /\ Closing(3, 3, 3)
    BY <2>0 DEF Inv, FrameInv, RtcmStates, RtcmInv
  <2> DEFINE left == Decrement(scratchPad.bytesRemaining, UINT16)
  <2>2. /\ scratchPad' \in ScratchPads
        /\ scratchPad'.sentenceNameLength = scratchPad.sentenceNameLength
        /\ agree' \in Int /\ -1 <= agree' /\ agree' <= 8
        /\ declared' \in Int /\ -1 <= declared' /\ declared' < UINT16
        /\ scratchPad'.bytesRemaining = scratchPad.bytesRemaining - 1
        /\ scratchPad.bytesRemaining \in Int
        /\ left = 0 => scratchPad.bytesRemaining = 1 /\ msg_length + 1 = 3 + 3 + declared
        /\ left # 0 /\ msg_length' = msg_length + 1 => Closing(3, 3, 3)'
    <3>1. 3 \in Nat /\ 3 <= 8
      OBVIOUS
    <3>. QED BY <2>0, <2>1, <3>1, ClosedOn, ZenonT(30)
  <2> HIDE DEF left
  <2>3. CASE left # 0 /\ Continue("sempRtcmReadCrc", Crc)
    <3>1. Closing(3, 3, 3)'
      BY <2>2, <2>3 DEF Continue
    <3>3. RtcmInv' /\ state' \in RtcmStates
      BY <2>0, <2>1, <2>3, <3>1, <2>t, RtcmCrc DEF Typed, RtcmInv, Active, RtcmStates, Continue
    <3>. QED BY <2>0, <2>1, <2>2, <2>3, <3>3, <2>t, RtcmCrc, Continued DEF Typed, Continue
  <2>4. CASE /\ left = 0
             /\ Finish(msg_length + 1, Crc,
                       Verdict("RTCM", 3, Result(agree' = 3, overruled), msg_length + 1, Crc))
    <3>1. PICK r \in {"passed", "overruled", "refused", "unreported"} :
            Finish(msg_length + 1, Crc, Verdict("RTCM", 3, r, msg_length + 1, Crc))
      BY <2>4 DEF Result
    <3>2. /\ Crc \in CheckRegisters /\ Crc.seed = "zeros" /\ Crc.cover = msg_length + 1
          /\ Crc.inverted = 0
      BY <2>0, <2>1, RtcmCrc
    <3>3. /\ msg_length + 1 \in uint16_t /\ declared # Unset /\ Active("RTCM")
          /\ msg_length + 1 = Envelope("RTCM") + declared
      <4>1. Envelope("RTCM") = 6 BY DEF Envelope
      <4>2. Active("RTCM") /\ declared # Unset BY <2>1, <2>t DEF RtcmInv, Closing, Typed
      <4>3. msg_length + 1 \in uint16_t BY <2>0, <2>t, Uint16 DEF Typed
      <4>. QED BY <2>2, <2>4, <2>t, <4>1, <4>2, <4>3 DEF Typed
    <3>4. "RTCM" \in BinaryProtocols /\ 3 \in 0 .. 8
      BY DEF BinaryProtocols
    <3>5. scratchPad'.sentenceNameLength < 16
      BY <2>2, <2>t DEF Typed
    <3>. QED BY <2>0, <2>2, <3>1, <3>2, <3>3, <3>4, <3>5, FrameFinished, ZenonT(30)
  <2>. QED BY <1>6, <2>3, <2>4 DEF sempRtcmReadCrc, left
<1>. QED BY <1>1, <1>2, <1>3, <1>4, <1>5, <1>6 DEF RtcmHandler

\* A u-blox byte that is added to ck and counted.
LEMMA Summed ==
  ASSUME Inv, parse # "nullptr", NEW n \in uint16_t,
         scratchPad' = [scratchPad EXCEPT !.ck = scratchPad.ck + 1, !.bytesRemaining = n]
  PROVE  /\ scratchPad' \in ScratchPads /\ scratchPad'.bytesRemaining = n
         /\ scratchPad'.ck = scratchPad.ck + 1
         /\ scratchPad'.sentenceNameLength = scratchPad.sentenceNameLength
<1>1. scratchPad \in ScratchPads BY CallFacts DEF Typed
<1>. QED BY <1>1, BothSet, ZenonT(30)

\* A u-blox byte that is added to ck.
LEMMA SetCk ==
  ASSUME Inv, parse # "nullptr", NEW k \in Int, scratchPad' = [scratchPad EXCEPT !.ck = k]
  PROVE  /\ scratchPad' \in ScratchPads /\ scratchPad'.ck = k
         /\ scratchPad'.bytesRemaining = scratchPad.bytesRemaining
         /\ scratchPad'.sentenceNameLength = scratchPad.sentenceNameLength
<1>1. scratchPad \in ScratchPads BY CallFacts DEF Typed
<1>. QED BY <1>1, CkSet

\* computeCrc is not set in a u-blox frame: parse->crc stays.
LEMMA UbloxCrc ==
  ASSUME Inv, parse # "nullptr", UbloxInv
  PROVE  Crc \in CheckRegisters
<1>1. Crc = crc BY DEF Crc, Compute, UbloxInv
<1>. QED BY <1>1, CallFacts DEF Typed

\* The routines of Parse_UBLOX.c preserve the invariant.
LEMMA UbloxStep == ASSUME Inv, UbloxHandler PROVE Inv'
<1>1. ASSUME NEW data \in Bytes, sempUbloxSync2(data) PROVE Inv'
  <2>0. parse # "nullptr" /\ msg_length < buffer_length /\ state = "sempUbloxSync2"
    BY <1>1 DEF sempUbloxSync2, Called
  <2>t. Typed
    BY <2>0, CallFacts
  <2>1. UbloxInv
    BY <2>0 DEF Inv, FrameInv, UbloxStates
  <2>2. CASE Restart(data)
    BY <2>0, <2>2, Restarted
  <2>3. CASE Continue("sempUbloxClass", Crc) /\ UNCHANGED fields
    <3>1. UbloxInv' /\ state' \in UbloxStates
      BY <2>0, <2>1, <2>3, <2>t
      DEF Typed, UbloxInv, Active, Undeclared, UbloxStates, Continue, fields
    <3>. QED BY <2>0, <2>1, <2>3, <3>1, <2>t, UbloxCrc, Continued DEF Typed, Continue, fields
  <2>. QED BY <1>1, <2>2, <2>3 DEF sempUbloxSync2
<1>2. ASSUME sempUbloxClass PROVE Inv'
  <2>0. /\ parse # "nullptr" /\ msg_length < buffer_length /\ state = "sempUbloxClass"
        /\ Continue("sempUbloxId", Crc) /\ declared' = declared /\ agree' = agree
        /\ scratchPad' = [scratchPad EXCEPT !.ck = 1]
    BY <1>2 DEF sempUbloxClass, Called
  <2>t. Typed
    BY <2>0, CallFacts
  <2>1. UbloxInv
    BY <2>0 DEF Inv, FrameInv, UbloxStates
  <2>2. /\ scratchPad' \in ScratchPads /\ scratchPad'.ck = 1
        /\ scratchPad'.sentenceNameLength = scratchPad.sentenceNameLength
    BY <2>0, SetCk
  <2>3. UbloxInv' /\ state' \in UbloxStates
    BY <2>0, <2>1, <2>2, <2>t DEF Typed, UbloxInv, Active, Undeclared, UbloxStates, Continue
  <2>. QED BY <2>0, <2>1, <2>2, <2>3, <2>t, UbloxCrc, Continued DEF Typed, Continue
<1>3. ASSUME sempUbloxId PROVE Inv'
  <2>0. /\ parse # "nullptr" /\ msg_length < buffer_length /\ state = "sempUbloxId"
        /\ Continue("sempUbloxLength1", Crc) /\ declared' = declared /\ agree' = agree
        /\ scratchPad' = [scratchPad EXCEPT !.ck = scratchPad.ck + 1]
    BY <1>3 DEF sempUbloxId, Called
  <2>t. Typed
    BY <2>0, CallFacts
  <2>1. UbloxInv /\ scratchPad.ck = 1
    BY <2>0, <2>t DEF Inv, FrameInv, UbloxStates, UbloxInv, Typed
  <2>2. /\ scratchPad' \in ScratchPads /\ scratchPad'.ck = 2
        /\ scratchPad'.sentenceNameLength = scratchPad.sentenceNameLength
    BY <2>0, <2>1, SetCk
  <2>3. UbloxInv' /\ state' \in UbloxStates
    BY <2>0, <2>1, <2>2, <2>t DEF Typed, UbloxInv, Active, Undeclared, UbloxStates, Continue
  <2>. QED BY <2>0, <2>1, <2>2, <2>3, <2>t, UbloxCrc, Continued DEF Typed, Continue
<1>4. ASSUME NEW data \in Bytes, sempUbloxLength1(data) PROVE Inv'
  <2>0. /\ parse # "nullptr" /\ msg_length < buffer_length /\ state = "sempUbloxLength1"
        /\ Continue("sempUbloxLength2", Crc) /\ declared' = declared /\ agree' = agree
        /\ scratchPad' = [scratchPad EXCEPT !.ck = scratchPad.ck + 1, !.bytesRemaining = data]
    BY <1>4 DEF sempUbloxLength1, Called
  <2>t. Typed
    BY <2>0, CallFacts
  <2>1. UbloxInv /\ scratchPad.ck = 2
    BY <2>0, <2>t DEF Inv, FrameInv, UbloxStates, UbloxInv, Typed
  <2>2. data \in uint8_t
    BY BytesAssumption
  <2>3. data \in uint16_t
    BY <2>2, Widths, Uint8, Uint16
  <2>4. /\ scratchPad' \in ScratchPads /\ scratchPad'.ck = scratchPad.ck + 1
        /\ scratchPad'.bytesRemaining = data
        /\ scratchPad'.sentenceNameLength = scratchPad.sentenceNameLength
    BY <2>0, <2>3, Summed, ZenonT(30)
  <2>5. UbloxInv' /\ state' \in UbloxStates
    BY <2>0, <2>1, <2>2, <2>4, <2>t DEF Typed, UbloxInv, Active, Undeclared, UbloxStates, Continue
  <2>. QED BY <2>0, <2>1, <2>4, <2>5, <2>t, UbloxCrc, Continued DEF Typed, Continue
<1>5. ASSUME NEW data \in Bytes, sempUbloxLength2(data) PROVE Inv'
  <2>0. /\ parse # "nullptr" /\ msg_length < buffer_length /\ state = "sempUbloxLength2"
        /\ Continue("sempUbloxPayload", Crc) /\ agree' = agree
        /\ declared' = scratchPad.bytesRemaining + 256 * data
        /\ scratchPad' = [scratchPad EXCEPT !.ck = scratchPad.ck + 1, !.bytesRemaining = declared']
    BY <1>5 DEF sempUbloxLength2, Called
  <2>t. Typed
    BY <2>0, CallFacts
  <2>1. UbloxInv /\ scratchPad.ck = 3 /\ scratchPad.bytesRemaining \in uint8_t
    BY <2>0, <2>t DEF Inv, FrameInv, UbloxStates, UbloxInv, Typed
  <2>2. PICK high \in Int : high = data /\ 0 <= high /\ high < 256
    BY BytesAssumption, Uint8
  <2>3. PICK low \in Int : low = scratchPad.bytesRemaining /\ 0 <= low /\ low < 256
    BY <2>1, Uint8
  <2>4. low + 256 * high \in Int /\ 0 <= low + 256 * high /\ low + 256 * high < UINT16
    BY <2>2, <2>3 DEF UINT16
  <2>5. declared' \in Int /\ 0 <= declared' /\ declared' < UINT16
    BY <2>0, <2>2, <2>3, <2>4
  <2>6. declared' \in uint16_t
    BY <2>5, Uint16
  <2>7. /\ scratchPad' \in ScratchPads /\ scratchPad'.ck = scratchPad.ck + 1
        /\ scratchPad'.bytesRemaining = declared'
        /\ scratchPad'.sentenceNameLength = scratchPad.sentenceNameLength
    BY <2>0, <2>6, Summed, ZenonT(60)
  <2>8. UbloxInv' /\ state' \in UbloxStates
    BY <2>0, <2>1, <2>5, <2>7, <2>t DEF Typed, UbloxInv, Active, Undeclared, UbloxStates, Continue
  <2>. QED BY <2>0, <2>1, <2>5, <2>7, <2>8, <2>t, UbloxCrc, Continued DEF Typed, Continue
<1>6. ASSUME NEW match \in BOOLEAN, sempUbloxPayload(match) PROVE Inv'
  <2>0. /\ parse # "nullptr" /\ msg_length < buffer_length /\ state = "sempUbloxPayload"
        /\ declared' = declared
    BY <1>6 DEF sempUbloxPayload, Called
  <2>t. Typed
    BY <2>0, CallFacts
  <2>1. /\ UbloxInv /\ scratchPad.ck = msg_length - 2 /\ msg_length >= 6
        /\ declared # -1 /\ agree = 0 /\ scratchPad.bytesRemaining # -1
        /\ msg_length + scratchPad.bytesRemaining = 6 + declared
    BY <2>0, <2>t DEF Inv, FrameInv, UbloxStates, UbloxInv, Typed
  <2>2. PICK rem \in Int : rem = scratchPad.bytesRemaining /\ 0 <= rem /\ rem < UINT16
    BY <2>0, <2>1, Remainder
  <2>3. PICK left \in Int :
          /\ left = Decrement(rem, UINT16)
          /\ left \in uint16_t /\ 0 <= left /\ left < UINT16
          /\ rem > 0 => left = rem - 1
          /\ rem = 0 => left = UINT16 - 1
    BY <2>2, Remaining
  <2>4. CASE /\ scratchPad.bytesRemaining # 0
             /\ Continue("sempUbloxPayload", Crc) /\ agree' = agree
             /\ scratchPad' = [scratchPad EXCEPT !.ck = scratchPad.ck + 1, !.bytesRemaining = left]
    <3>1. /\ scratchPad' \in ScratchPads /\ scratchPad'.ck = scratchPad.ck + 1
          /\ scratchPad'.bytesRemaining = left
          /\ scratchPad'.sentenceNameLength = scratchPad.sentenceNameLength
      BY <2>0, <2>3, <2>4, Summed, ZenonT(30)
    <3>2. left = rem - 1 /\ left # -1 /\ msg_length + 1 + left = 6 + declared
      <4>1. msg_length \in Int /\ declared \in Int /\ rem # 0 /\ msg_length + rem = 6 + declared
        BY <2>1, <2>2, <2>4, <2>t DEF Typed
      <4>. QED BY <2>2, <2>3, <4>1
    <3>4. /\ state' = "sempUbloxPayload" /\ msg_length' = msg_length + 1
          /\ msg_length' >= 6 /\ scratchPad'.ck = msg_length' - 2
          /\ scratchPad'.bytesRemaining # -1
          /\ msg_length' + scratchPad'.bytesRemaining = 6 + declared'
          /\ UNCHANGED <<parser_type, computeCrc>>
      <4>1. msg_length \in Int /\ msg_length' = msg_length + 1 /\ state' = "sempUbloxPayload"
            /\ UNCHANGED <<parser_type, computeCrc>>
        BY <2>4, <2>t DEF Typed, Continue
      <4>2. scratchPad'.ck = msg_length - 2 + 1
        BY <2>1, <3>1
      <4>. QED BY <2>0, <2>1, <3>1, <3>2, <4>1, <4>2
    <3>3. UbloxInv' /\ state' \in UbloxStates
      BY <2>0, <2>1, <2>4, <3>4 DEF UbloxInv, Active, UbloxStates
    <3>. QED BY <2>0, <2>1, <2>4, <3>1, <3>3, <2>t, UbloxCrc, Continued DEF Typed, Continue
  <2>5. CASE /\ scratchPad.bytesRemaining = 0
             /\ Continue("sempUbloxCkB", Crc) /\ agree' = Agreed(match)
             /\ scratchPad' = [scratchPad EXCEPT !.bytesRemaining = left]
    <3>1. /\ scratchPad' \in ScratchPads /\ scratchPad'.ck = scratchPad.ck
          /\ scratchPad'.sentenceNameLength = scratchPad.sentenceNameLength
      BY <2>0, <2>3, <2>5, SetTo
    <3>2. agree' \in Int /\ -1 <= agree' /\ agree' <= 1
      BY <2>0, <2>1, <2>5, <2>t, Agreement DEF Typed
    <3>4. /\ state' = "sempUbloxCkB" /\ msg_length' = 7 + declared'
          /\ scratchPad'.ck = msg_length' - 3
          /\ UNCHANGED <<parser_type, computeCrc>>
      BY <2>0, <2>1, <2>5, <3>1, <2>t DEF Typed, Continue
    <3>3. UbloxInv' /\ state' \in UbloxStates
      BY <2>0, <2>1, <3>2, <3>4 DEF UbloxInv, Active, AtMost, UbloxStates
    <3>. QED BY <2>0, <2>1, <2>5, <3>1, <3>2, <3>3, <2>t, UbloxCrc, Continued DEF Typed, Continue
  <2>. QED BY <1>6, <2>2, <2>3, <2>4, <2>5 DEF sempUbloxPayload
<1>7. ASSUME NEW match \in BOOLEAN, NEW overruled \in BOOLEAN, sempUbloxCkB(match, overruled)
      PROVE  Inv'
  <2>0. /\ parse # "nullptr" /\ msg_length < buffer_length /\ state = "sempUbloxCkB"
        /\ declared' = declared /\ scratchPad' = scratchPad /\ agree' = Agreed(match)
    BY <1>7 DEF sempUbloxCkB, Called
  <2>t. Typed
    BY <2>0, CallFacts
  <2>1. /\ UbloxInv /\ declared # -1 /\ agree <= 1
        /\ msg_length = 7 + declared /\ scratchPad.ck = msg_length - 3
    BY <2>0, <2>t DEF Inv, FrameInv, UbloxStates, UbloxInv, AtMost
  <2> DEFINE sum == [CrcZero EXCEPT !.cover = scratchPad.ck]
  <2>2. PICK r \in {"passed", "overruled", "refused", "unreported"} :
          Finish(0, Crc, Verdict("UBLOX", 2, r, msg_length + 1, sum))
    BY <1>7 DEF Result, sempUbloxCkB
  <2>3. /\ sum \in CheckRegisters /\ sum.seed = "zeros" /\ sum.inverted = 0
        /\ sum.cover = msg_length + 1 - 4
    <3>1. scratchPad.ck \in Nat /\ scratchPad.ck = msg_length + 1 - 4
      BY <2>1, <2>t DEF Typed
    <3>. QED BY <3>1, CoverSet
  <2> HIDE DEF sum
  <2>4. agree' \in Int /\ -1 <= agree' /\ agree' <= 8
    BY <2>0, <2>1, <2>t, Agreement DEF Typed
  <2>5. /\ 0 \in uint16_t /\ Active("UBLOX") /\ Crc \in CheckRegisters
        /\ scratchPad' \in ScratchPads /\ scratchPad'.sentenceNameLength < 16
    BY <2>0, <2>1, <2>t, Widths, Uint16, UbloxCrc DEF Typed, UbloxInv
  <2>6. msg_length + 1 = Envelope("UBLOX") + declared
    <3>1. Envelope("UBLOX") = 8 BY DEF Envelope
    <3>. QED BY <2>1, <2>t, <3>1 DEF Typed
  <2>7. "UBLOX" \in BinaryProtocols /\ 2 \in 0 .. 8 /\ declared # Unset
    BY <2>1 DEF BinaryProtocols
  <2>. QED BY <2>0, <2>2, <2>3, <2>4, <2>5, <2>6, <2>7, FrameFinished, ZenonT(30)
<1>. QED BY <1>1, <1>2, <1>3, <1>4, <1>5, <1>6, <1>7 DEF UbloxHandler
=============================================================================
