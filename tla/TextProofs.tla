------------------------------ MODULE TextProofs ------------------------------
(***************************************************************************)
(* The handlers of the two line protocols preserve Inv.                    *)
(***************************************************************************)
EXTENDS ParserLemmas

\* How long a prover may take for one leaf.
USE SMTT(30), ZenonT(30)

USE DEF SEMP_MINIMUM_BUFFER_LENGTH, Unset, Mismatch, SEMP_SENTENCE_NAME_BYTES

\* The end of a sentence: the callback sees its text with CR and LF appended, in
\* the buffer (unless the two-digit hash routine appended them), and a check value
\* over the text between the first character and the '*'.
LEMMA SentenceVerdict ==
  ASSUME Inv, parse # "nullptr", msg_length < buffer_length,
         NEW p \in {"NMEA", "UnicoreHash"}, NEW w \in Int, w = 2 \/ w = 8,
         NEW r \in {"passed", "overruled", "refused", "unreported", "dropped"},
         NEW s \in CheckRegisters, s.seed = "zeros", s.inverted = 0,
         Active(p),
         s.cover = msg_length - 4 \/ (p # "NMEA" /\ w # 2),
         s.cover = msg_length - 10 \/ p # "UnicoreHash" \/ w # 8,
         msg_length + 3 <= buffer_length \/ (p # "NMEA" /\ w # 8) \/ r \notin Delivered,
         out' = Verdict(p, w, r, LengthWithLineEnd, s), buffer_length' = buffer_length
  PROVE  out' \in Callbacks /\ CallbackInv' /\ LengthWithLineEnd \in uint16_t
<1>1. Typed
  BY CallFacts
<1>2. out' = [result |-> r, proto |-> p, type |-> parser_type, len |-> LengthWithLineEnd,
              sum |-> s, declared |-> declared, width |-> w]
  BY DEF Verdict
<1>3. msg_length \in Int /\ 0 <= msg_length
  BY <1>1 DEF Typed
<1>4. LengthWithLineEnd \in uint16_t
  BY <1>3, Wrapped DEF LengthWithLineEnd
<1>5. out' \in Callbacks
  <2>1. parser_type \in 0 .. Len(ParserTable)
    BY <1>1 DEF Typed
  <2>2. declared \in uint16_t \cup {Unset}
    BY <1>1, Uint16 DEF Typed
  <2>3. p \in Protocols /\ w \in 0 .. 8
    BY DEF Protocols
  <2>4. [result |-> r, proto |-> p, type |-> parser_type, len |-> LengthWithLineEnd,
         sum |-> s, declared |-> declared, width |-> w] \in Callbacks
    BY <1>4, <2>1, <2>2, <2>3, VerdictType, ZenonT(30)
  <2>. QED BY <1>2, <2>4, ZenonT(30)
<1>6. /\ out'.result = r /\ out'.proto = p /\ out'.type = parser_type
      /\ out'.len = LengthWithLineEnd /\ out'.sum = s /\ out'.width = w
  BY <1>2
<1>7. CheckCoversFrame'
  <2>1. CASE p = "NMEA" \/ w = 2
    <3>1. Unchecked' = 6 BY <1>6, <2>1 DEF Unchecked, TwoDigitHash
    <3>2. s.cover + Unchecked' = msg_length + 2 BY <1>3, <2>1, <3>1
    <3>. QED BY <1>6, <3>2 DEF CheckCoversFrame, LengthWithLineEnd
  <2>2. CASE p = "UnicoreHash" /\ w = 8
    <3>1. Unchecked' = 12 BY <1>6, <2>2 DEF Unchecked, TwoDigitHash
    <3>2. s.cover + Unchecked' = msg_length + 2 BY <1>3, <2>2, <3>1
    <3>. QED BY <1>6, <2>2, <3>2 DEF CheckCoversFrame, LengthWithLineEnd
  <2>. QED BY <2>1, <2>2
<1>8. ASSUME DeliveredNow', ~TwoDigitHash' PROVE Footprint' <= buffer_length'
  <2>1. r \in Delivered /\ (p = "NMEA" \/ w = 8)
    BY <1>6, <1>8 DEF DeliveredNow, TwoDigitHash
  <2>2. msg_length + 3 <= buffer_length /\ buffer_length \in Int /\ buffer_length < UINT16 /\ UINT16 \in Int
    BY <1>1, <2>1 DEF Typed
  <2>3. LengthWithLineEnd = msg_length + 2
    BY <1>3, <2>2, Unwrapped DEF LengthWithLineEnd
  <2>4. Footprint' = msg_length + 2 + 1
    BY <1>6, <2>3 DEF Footprint
  <2>. QED BY <1>3, <2>2, <2>4
<1>9. out'.type < Len(ParserTable) /\ ParserTable[out'.type + 1] = out'.proto
  BY <1>6 DEF Active
<1>10. out'.proto \notin BinaryProtocols
  BY <1>6 DEF BinaryProtocols
<1>. QED BY <1>4, <1>5, <1>7, <1>8, <1>9, <1>10 DEF CallbackInv

\* A line end that completes the sentence and leaves no frame.
LEMMA LineFinished ==
  ASSUME Inv, parse # "nullptr", NEW v, FinishLine(v), v.len \in uint16_t,
         out' = v => out' \in Callbacks /\ CallbackInv'
  PROVE  Inv'
<1>1. Typed
  BY CallFacts
<1>2. /\ state' = "sempFirstByte" /\ crc' = crc /\ out' = v
      /\ UNCHANGED <<instance, parser_type, computeCrc, scratchPad, declared, agree>>
  BY DEF FinishLine, Finish, fields
<1>3. msg_length' = v.len \/ msg_length' = msg_length
  BY DEF FinishLine, Finish
<1>4. msg_length' \in uint16_t
  BY <1>3 DEF Inv, TypeOK, StructureType
<1>. QED BY <1>1, <1>2, <1>4, Finished DEF Typed

\* A sentence that is complete because a byte of the next frame has arrived: the
\* callback is made and the byte goes to sempFirstByte.
LEMMA LineRestarted ==
  ASSUME Inv, parse # "nullptr", NEW data \in Bytes, sempFirstByte(data),
         out' \in Callbacks, CallbackInv'
  PROVE  Inv'
  BY FirstByteInv DEF Inv, TypeOK

\* One more character in sentenceName.
LEMMA NameLonger ==
  ASSUME NEW s \in ScratchPads, s.sentenceNameLength < 15
  PROVE  /\ [s EXCEPT !.sentenceNameLength = s.sentenceNameLength + 1] \in ScratchPads
         /\ [s EXCEPT !.sentenceNameLength = s.sentenceNameLength + 1].sentenceNameLength
              = s.sentenceNameLength + 1
         /\ [s EXCEPT !.sentenceNameLength = s.sentenceNameLength + 1].sentenceNameLength < 16
<1>1. s.sentenceNameLength + 1 \in uint8_t
  BY ScratchFields, Uint8
<1>2. s.sentenceNameLength \in Int
  BY ScratchFields
<1>. QED BY <1>1, <1>2 DEF ScratchPads

\* What an NMEA routine may assume when it is called.
LEMMA NmeaFacts ==
  ASSUME Inv, parse # "nullptr", state \in NmeaStates
  PROVE  /\ Typed /\ Active("NMEA") /\ computeCrc = "nullptr"
         /\ crc.seed = "zeros" /\ crc.inverted = 0 /\ crc.cover = msg_length - 1 - NmeaTail
         /\ declared = -1
         /\ msg_length + 6 - NmeaTail <= buffer_length
         /\ IF NmeaTail = 0 THEN agree = 0 ELSE agree <= NmeaTail - 1
         /\ state = "sempNmeaFindFirstComma" => Naming
<1>1. NmeaInv
  BY DEF Inv, FrameInv
<1>. QED BY <1>1, CallFacts DEF NmeaInv, Sentence, AtMost, NMEA_BUFFER_OVERHEAD

\* The reserve behind the text leaves the frame inside the buffer.
LEMMA Below ==
  ASSUME NEW a \in Int, NEW b \in Int, NEW t \in Int, a + 6 - t <= b, t <= 3
  PROVE  a <= b
  OBVIOUS

\* What a step to another NMEA routine has to establish.
LEMMA NmeaKept ==
  ASSUME Inv, parse # "nullptr", state \in NmeaStates,
         NEW tail \in Int, NmeaTail' = tail, state' \in NmeaStates,
         UNCHANGED <<instance, parser_type, computeCrc, declared>>, out' = Silent,
         msg_length' \in Int, 0 <= msg_length', msg_length' + 6 - tail <= buffer_length,
         tail <= 3,
         crc' \in CheckRegisters, crc'.seed = "zeros", crc'.inverted = 0,
         crc'.cover = msg_length' - 1 - tail,
         agree' \in Int, -1 <= agree',
         IF tail = 0 THEN agree' = 0 ELSE agree' <= tail - 1,
         scratchPad' \in ScratchPads, scratchPad'.sentenceNameLength < 16,
         state' = "sempNmeaFindFirstComma" => Naming'
  PROVE  Inv'
<1>1. /\ Typed /\ Active("NMEA") /\ computeCrc = "nullptr" /\ declared = -1
  BY NmeaFacts
<1>2. buffer_length' = buffer_length
  BY DEF instance
<1>3. Active("NMEA")'
  BY <1>1 DEF Active
<1>4. Sentence(NmeaTail)'
  BY <1>1 DEF Sentence, AtMost
<1>5. NmeaInv'
  BY <1>2, <1>3, <1>4 DEF NmeaInv, NMEA_BUFFER_OVERHEAD
<1>6. msg_length' <= buffer_length /\ agree' <= 8
  <2>1. buffer_length \in Int BY <1>1 DEF Typed
  <2>2. msg_length' <= buffer_length BY ZenonT(30), <2>1, Below
  <2>3. agree' <= 8
    <3>1. CASE tail = 0 BY <3>1
    <3>2. CASE tail # 0 BY <3>2
    <3>. QED BY <3>1, <3>2
  <2>. QED BY <2>2, <2>3
<1>7. declared' \in Int /\ -1 <= declared' /\ declared' < UINT16
  BY <1>1 DEF Typed
<1>. QED BY <1>5, <1>6, <1>7, Kept

\* sempNmeaValidateChecksum is called with a whole sentence in the buffer and room
\* for CR, LF and the zero byte.
LEMMA NmeaVerdict ==
  ASSUME Inv, parse # "nullptr", msg_length < buffer_length,
         state \in {"sempNmeaLineTermination", "sempNmeaLineFeed", "sempNmeaCarriageReturn"},
         NEW overruled \in BOOLEAN
  PROVE  /\ sempNmeaValidateChecksum(overruled).len \in uint16_t
         /\ buffer_length' = buffer_length /\ out' = sempNmeaValidateChecksum(overruled) =>
              out' \in Callbacks /\ CallbackInv'
<1>1. state \in NmeaStates /\ NmeaTail = 3
  BY DEF NmeaStates, NmeaTail
<1>2. /\ Typed /\ Active("NMEA") /\ crc.seed = "zeros" /\ crc.inverted = 0
      /\ crc.cover = msg_length - 1 - 3 /\ msg_length + 6 - 3 <= buffer_length
  BY <1>1, NmeaFacts
<1>3. /\ crc \in CheckRegisters /\ crc.cover = msg_length - 4 /\ msg_length + 3 <= buffer_length
      /\ msg_length \in Int
  BY <1>2 DEF Typed
<1>4. PICK r \in {"passed", "overruled", "refused", "unreported"} :
        sempNmeaValidateChecksum(overruled) = Verdict("NMEA", 2, r, LengthWithLineEnd, crc)
  BY DEF sempNmeaValidateChecksum, Result
<1>5. Verdict("NMEA", 2, r, LengthWithLineEnd, crc).len = LengthWithLineEnd
  BY DEF Verdict
<1>6. LengthWithLineEnd \in uint16_t
  BY <1>3, Wrapped DEF LengthWithLineEnd
<1>7. ASSUME buffer_length' = buffer_length, out' = Verdict("NMEA", 2, r, LengthWithLineEnd, crc)
      PROVE  out' \in Callbacks /\ CallbackInv'
  BY <1>2, <1>3, <1>7, SentenceVerdict
<1>. QED BY <1>4, <1>5, <1>6, <1>7

\* sempNmeaFindFirstComma and sempNmeaFindAsterisk preserve the invariant.
LEMMA NmeaText ==
  ASSUME Inv, NEW data \in Bytes, sempNmeaFindFirstComma(data) \/ sempNmeaFindAsterisk(data)
  PROVE  Inv'
<1>0. /\ parse # "nullptr" /\ msg_length < buffer_length
      /\ state \in NmeaStates /\ NmeaTail = 0
  BY DEF sempNmeaFindFirstComma, sempNmeaFindAsterisk, Called, NmeaStates, NmeaTail
<1>1. /\ Typed /\ crc.seed = "zeros" /\ crc.inverted = 0 /\ crc.cover = msg_length - 1 - 0
      /\ declared = -1 /\ agree = 0 /\ msg_length + 6 - 0 <= buffer_length
      /\ state = "sempNmeaFindFirstComma" => Naming
  BY <1>0, NmeaFacts
<1>2. /\ msg_length \in Int /\ 0 <= msg_length /\ buffer_length \in Int
      /\ crc \in CheckRegisters
  BY <1>1 DEF Typed
<1>3. /\ Absorb(crc) \in CheckRegisters /\ Absorb(crc).seed = "zeros"
      /\ Absorb(crc).inverted = 0 /\ Absorb(crc).cover = crc.cover + 1
  BY <1>1, <1>2, RegisterUpdates
<1>4. ASSUME NEW next \in {"sempNmeaFindFirstComma", "sempNmeaFindAsterisk"},
             Continue(next, Absorb(crc)), UNCHANGED <<declared, agree>>,
             scratchPad' \in ScratchPads, scratchPad'.sentenceNameLength < 16,
             next = "sempNmeaFindFirstComma" => Naming',
             msg_length + 1 + 6 <= buffer_length
      PROVE  Inv'
  <2>1. /\ state' = next /\ msg_length' = msg_length + 1 /\ crc' = Absorb(crc) /\ out' = Silent
        /\ UNCHANGED <<instance, parser_type, computeCrc, declared>>
    BY <1>4 DEF Continue
  <2>2. state' \in NmeaStates /\ NmeaTail' = 0
    BY <2>1 DEF NmeaStates, NmeaTail
  <2>3. msg_length' \in Int /\ 0 <= msg_length' /\ msg_length' + 6 - 0 <= buffer_length
    BY <1>2, <1>4, <2>1
  <2>4. /\ crc' \in CheckRegisters /\ crc'.seed = "zeros" /\ crc'.inverted = 0
        /\ crc'.cover = msg_length' - 1 - 0
    BY <1>1, <1>2, <1>3, <2>1
  <2>5. agree' \in Int /\ -1 <= agree' /\ IF 0 = 0 THEN agree' = 0 ELSE agree' <= 0 - 1
    BY <1>1, <1>4
  <2>6. state' = "sempNmeaFindFirstComma" => Naming'
    BY <1>4, <2>1
  <2>7. 0 \in Int /\ 0 <= 3
    OBVIOUS
  <2>. QED BY <1>0, <1>4, <2>1, <2>2, <2>3, <2>4, <2>5, <2>6, <2>7, NmeaKept
<1>5. ASSUME sempNmeaFindFirstComma(data) PROVE Inv'
  <2>1. Naming /\ scratchPad \in ScratchPads /\ scratchPad.sentenceNameLength < 16
        /\ 256 <= buffer_length
    BY <1>1, <1>5 DEF sempNmeaFindFirstComma, Called, Typed
  <2>2. scratchPad.sentenceNameLength \in Int
    BY <2>1, ScratchFields
  <2>3. msg_length + 1 + 6 <= buffer_length
    BY <1>2, <2>1, <2>2 DEF Naming
  <2>4. CASE Continue("sempNmeaFindAsterisk", Absorb(crc)) /\ UNCHANGED fields
    BY <1>4, <2>1, <2>3, <2>4 DEF fields
  <2>5. CASE /\ scratchPad.sentenceNameLength # SEMP_SENTENCE_NAME_BYTES - 1
             /\ Continue("sempNmeaFindFirstComma", Absorb(crc))
             /\ scratchPad' = [scratchPad EXCEPT !.sentenceNameLength = @ + 1]
             /\ UNCHANGED <<declared, agree>>
    <3>1. scratchPad.sentenceNameLength < 15
      BY <2>1, <2>2, <2>5
    <3>2. /\ scratchPad' \in ScratchPads /\ scratchPad'.sentenceNameLength < 16
          /\ scratchPad'.sentenceNameLength = scratchPad.sentenceNameLength + 1
      BY <2>1, <2>5, <3>1, NameLonger
    <3>3. msg_length' = msg_length + 1
      BY <2>5 DEF Continue
    <3>4. scratchPad.sentenceNameLength # -1
      BY <2>1 DEF Naming
    <3>5. scratchPad'.sentenceNameLength # -1
      BY <2>1, <2>2, <3>2, <3>4, ScratchFields
    <3>6. Naming'
      BY <2>1, <2>2, <3>2, <3>3, <3>5 DEF Naming
    <3>. QED BY <1>4, <2>3, <2>5, <3>2, <3>6
  <2>6. CASE Restart(data)
    BY <1>0, <2>6, Restarted
  <2>. QED BY <1>5, <2>4, <2>5, <2>6 DEF sempNmeaFindFirstComma
<1>6. ASSUME sempNmeaFindAsterisk(data) PROVE Inv'
  <2>1. CASE Continue("sempNmeaChecksumByte1", crc) /\ UNCHANGED fields
    <3>1. /\ state' = "sempNmeaChecksumByte1" /\ msg_length' = msg_length + 1 /\ crc' = crc
          /\ out' = Silent /\ UNCHANGED <<instance, parser_type, computeCrc, declared>>
          /\ scratchPad' = scratchPad /\ agree' = agree
      BY <2>1 DEF Continue, fields
    <3>2. state' \in NmeaStates /\ NmeaTail' = 1
      BY <3>1 DEF NmeaStates, NmeaTail
    <3>3. msg_length' \in Int /\ 0 <= msg_length' /\ msg_length' + 6 - 1 <= buffer_length
      BY <1>1, <1>2, <3>1
    <3>4. /\ crc' \in CheckRegisters /\ crc'.seed = "zeros" /\ crc'.inverted = 0
          /\ crc'.cover = msg_length' - 1 - 1
      BY <1>1, <1>2, <3>1
    <3>5. agree' \in Int /\ -1 <= agree' /\ IF 1 = 0 THEN agree' = 0 ELSE agree' <= 1 - 1
      BY <1>1, <3>1
    <3>6. /\ state' = "sempNmeaFindFirstComma" => Naming'
          /\ scratchPad' \in ScratchPads /\ scratchPad'.sentenceNameLength < 16
      BY <1>1, <3>1 DEF Typed
    <3>7. 1 \in Int /\ 1 <= 3
      OBVIOUS
    <3>. QED BY <1>0, <3>1, <3>2, <3>3, <3>4, <3>5, <3>6, <3>7, NmeaKept
  <2>2. CASE /\ msg_length + 1 + NMEA_BUFFER_OVERHEAD <= buffer_length
             /\ Continue("sempNmeaFindAsterisk", Absorb(crc))
             /\ UNCHANGED fields
    BY <1>1, <1>4, <2>2 DEF fields, Typed, NMEA_BUFFER_OVERHEAD
  <2>3. CASE Restart(data)
    BY <1>0, <2>3, Restarted
  <2>. QED BY <1>6, <2>1, <2>2, <2>3 DEF sempNmeaFindAsterisk
<1>. QED BY <1>5, <1>6

\* sempNmeaChecksumByte1 and sempNmeaChecksumByte2 preserve the invariant.
LEMMA NmeaDigits ==
  ASSUME Inv, NEW data \in Bytes, NEW match \in BOOLEAN,
         sempNmeaChecksumByte1(data, match) \/ sempNmeaChecksumByte2(data, match)
  PROVE  Inv'
<1>0. /\ parse # "nullptr" /\ msg_length < buffer_length /\ state \in NmeaStates
  BY DEF sempNmeaChecksumByte1, sempNmeaChecksumByte2, Called, NmeaStates
<1>1. PICK t \in {1, 2} :
        /\ NmeaTail = t
        /\ \/ /\ Continue(IF t = 1 THEN "sempNmeaChecksumByte2" ELSE "sempNmeaLineTermination", crc)
              /\ agree' = Agreed(match)
              /\ UNCHANGED <<scratchPad, declared>>
           \/ Restart(data)
  <2>1. CASE sempNmeaChecksumByte1(data, match)
    <3>1. NmeaTail = 1 BY <2>1 DEF sempNmeaChecksumByte1, Called, NmeaTail
    <3>. QED BY <2>1, <3>1 DEF sempNmeaChecksumByte1
  <2>2. CASE sempNmeaChecksumByte2(data, match)
    <3>1. NmeaTail = 2 BY <2>2 DEF sempNmeaChecksumByte2, Called, NmeaTail
    <3>. QED BY <2>2, <3>1 DEF sempNmeaChecksumByte2
  <2>. QED BY <2>1, <2>2
<1>2. /\ Typed /\ crc.seed = "zeros" /\ crc.inverted = 0 /\ crc.cover = msg_length - 1 - t
      /\ msg_length + 6 - t <= buffer_length /\ agree <= t - 1
  BY <1>0, <1>1, NmeaFacts
<1>3. CASE /\ Continue(IF t = 1 THEN "sempNmeaChecksumByte2" ELSE "sempNmeaLineTermination", crc)
           /\ agree' = Agreed(match) /\ UNCHANGED <<scratchPad, declared>>
  <2>1. /\ state' = IF t = 1 THEN "sempNmeaChecksumByte2" ELSE "sempNmeaLineTermination"
        /\ msg_length' = msg_length + 1 /\ crc' = crc
        /\ out' = Silent /\ UNCHANGED <<instance, parser_type, computeCrc, declared>>
        /\ scratchPad' = scratchPad /\ agree' = Agreed(match)
    BY <1>3 DEF Continue
  <2>2. state' \in NmeaStates /\ NmeaTail' = t + 1
    <3>1. CASE t = 1 BY <2>1, <3>1 DEF NmeaStates, NmeaTail
    <3>2. CASE t = 2 BY <2>1, <3>2 DEF NmeaStates, NmeaTail
    <3>. QED BY <3>1, <3>2
  <2>a. /\ msg_length \in Int /\ 0 <= msg_length /\ buffer_length \in Int /\ crc \in CheckRegisters
        /\ agree \in Int
    BY <1>2 DEF Typed
  <2>3. msg_length' \in Int /\ 0 <= msg_length' /\ msg_length' + 6 - (t + 1) <= buffer_length
    BY <1>2, <2>1, <2>a
  <2>4. /\ crc' \in CheckRegisters /\ crc'.seed = "zeros" /\ crc'.inverted = 0
        /\ crc'.cover = msg_length' - 1 - (t + 1)
    BY <1>2, <2>1, <2>a
  <2>b. agree < 8
    BY <1>2, <2>a
  <2>c. /\ agree' \in Int /\ -1 <= agree'
        /\ agree' = agree + 1 \/ agree' = -1
    BY <1>0, <2>1, <2>b, Agreement
  <2>5. agree' \in Int /\ -1 <= agree' /\ IF t + 1 = 0 THEN agree' = 0 ELSE agree' <= (t + 1) - 1
    BY <1>2, <2>a, <2>c
  <2>6. /\ state' = "sempNmeaFindFirstComma" => Naming'
        /\ scratchPad' \in ScratchPads /\ scratchPad'.sentenceNameLength < 16
    BY <1>2, <2>1 DEF Typed
  <2>7. t + 1 \in Int /\ t + 1 <= 3
    OBVIOUS
  <2>. QED BY <1>0, <2>1, <2>2, <2>3, <2>4, <2>5, <2>6, <2>7, NmeaKept
<1>. QED BY <1>0, <1>1, <1>3, Restarted

\* The three NMEA line-end routines preserve the invariant.
LEMMA NmeaLine ==
  ASSUME Inv, NEW data \in Bytes, NEW overruled \in BOOLEAN,
         \/ sempNmeaLineTermination(data, overruled)
         \/ sempNmeaLineFeed(data, overruled)
         \/ sempNmeaCarriageReturn(data, overruled)
  PROVE  Inv'
<1>0. /\ parse # "nullptr" /\ msg_length < buffer_length
      /\ state \in {"sempNmeaLineTermination", "sempNmeaLineFeed", "sempNmeaCarriageReturn"}
  BY DEF sempNmeaLineTermination, sempNmeaLineFeed, sempNmeaCarriageReturn, Called
<1>1. \/ AwaitLineEnd("sempNmeaLineFeed") \/ AwaitLineEnd("sempNmeaCarriageReturn")
      \/ FinishLine(sempNmeaValidateChecksum(overruled))
      \/ sempFirstByte(data) /\ out' = sempNmeaValidateChecksum(overruled)
  BY DEF sempNmeaLineTermination, sempNmeaLineFeed, sempNmeaCarriageReturn
<1>2. CASE AwaitLineEnd("sempNmeaLineFeed") \/ AwaitLineEnd("sempNmeaCarriageReturn")
  <2>1. /\ state' \in {"sempNmeaLineFeed", "sempNmeaCarriageReturn"}
        /\ msg_length' = msg_length /\ crc' = crc
        /\ out' = Silent /\ UNCHANGED <<instance, parser_type, computeCrc, declared>>
        /\ scratchPad' = scratchPad /\ agree' = agree
    BY <1>2 DEF AwaitLineEnd, fields
  <2>2. /\ state \in NmeaStates /\ NmeaTail = 3
        /\ state' \in NmeaStates /\ NmeaTail' = 3
    BY <1>0, <2>1 DEF NmeaStates, NmeaTail
  <2>3. /\ Typed /\ crc.seed = "zeros" /\ crc.inverted = 0 /\ crc.cover = msg_length - 1 - 3
        /\ msg_length + 6 - 3 <= buffer_length /\ agree <= 3 - 1
    BY <1>0, <2>2, NmeaFacts
  <2>4. msg_length' \in Int /\ 0 <= msg_length' /\ msg_length' + 6 - 3 <= buffer_length
    BY <2>1, <2>3 DEF Typed
  <2>5. /\ crc' \in CheckRegisters /\ crc'.seed = "zeros" /\ crc'.inverted = 0
        /\ crc'.cover = msg_length' - 1 - 3
    BY <2>1, <2>3 DEF Typed
  <2>6. agree' \in Int /\ -1 <= agree' /\ IF 3 = 0 THEN agree' = 0 ELSE agree' <= 3 - 1
    BY <2>1, <2>3 DEF Typed
  <2>7. /\ state' = "sempNmeaFindFirstComma" => Naming'
        /\ scratchPad' \in ScratchPads /\ scratchPad'.sentenceNameLength < 16
    BY <2>1, <2>3 DEF Typed
  <2>8. 3 \in Int /\ 3 <= 3
    OBVIOUS
  <2>. QED BY <1>0, <2>1, <2>2, <2>4, <2>5, <2>6, <2>7, <2>8, NmeaKept
<1>3. CASE FinishLine(sempNmeaValidateChecksum(overruled))
  <2>1. buffer_length' = buffer_length
    BY <1>3 DEF FinishLine, Finish, instance
  <2>. QED BY <1>0, <1>3, <2>1, NmeaVerdict, LineFinished
<1>4. CASE sempFirstByte(data) /\ out' = sempNmeaValidateChecksum(overruled)
  <2>1. buffer_length' = buffer_length
    BY <1>4 DEF sempFirstByte, instance
  <2>. QED BY <1>0, <1>4, <2>1, NmeaVerdict, LineRestarted
<1>. QED BY <1>1, <1>2, <1>3, <1>4

\* The routines of Parse_NMEA.c preserve the invariant.
LEMMA NmeaStep ==
  ASSUME Inv, NmeaHandler
  PROVE  Inv'
  BY NmeaText, NmeaDigits, NmeaLine DEF NmeaHandler

\* What a Unicore hash routine may assume when it is called.
LEMMA HashFacts ==
  ASSUME Inv, parse # "nullptr", state \in UnicoreHashStates
  PROVE  /\ Typed /\ Active("UnicoreHash") /\ computeCrc = "nullptr"
         /\ crc.seed = "zeros" /\ crc.inverted = 0 /\ crc.cover = msg_length - 1 - UnicoreHashTail
         /\ declared = -1
         /\ IF UnicoreHashTail = 0 THEN agree = 0 ELSE agree <= UnicoreHashTail - 1
         /\ state = "sempUnicoreHashFindFirstComma" => Naming
         /\ state # "sempUnicoreHashFindFirstComma" => scratchPad.checksumBytes \in {2, 8}
         /\ state = "sempUnicoreHashChecksumByte" =>
              /\ scratchPad.bytesRemaining >= 1
              /\ scratchPad.bytesRemaining <= scratchPad.checksumBytes
<1>1. UnicoreHashInv
  BY DEF Inv, FrameInv
<1>. QED BY <1>1, CallFacts DEF UnicoreHashInv, Sentence, AtMost

\* What a step to another hash routine has to establish.
LEMMA HashKept ==
  ASSUME Inv, parse # "nullptr", state \in UnicoreHashStates,
         NEW tail \in Int, UnicoreHashTail' = tail, state' \in UnicoreHashStates,
         UNCHANGED <<instance, parser_type, computeCrc, declared>>, out' = Silent,
         msg_length' \in Int, 0 <= msg_length', msg_length' <= buffer_length, tail <= 9,
         crc' \in CheckRegisters, crc'.seed = "zeros", crc'.inverted = 0,
         crc'.cover = msg_length' - 1 - tail,
         agree' \in Int, -1 <= agree',
         IF tail = 0 THEN agree' = 0 ELSE agree' <= tail - 1,
         scratchPad' \in ScratchPads, scratchPad'.sentenceNameLength < 16,
         state' = "sempUnicoreHashFindFirstComma" => Naming',
         state' # "sempUnicoreHashFindFirstComma" => scratchPad'.checksumBytes \in {2, 8},
         state' = "sempUnicoreHashChecksumByte" =>
              /\ scratchPad'.bytesRemaining >= 1
              /\ scratchPad'.bytesRemaining <= scratchPad'.checksumBytes
  PROVE  Inv'
<1>1. /\ Typed /\ Active("UnicoreHash") /\ computeCrc = "nullptr" /\ declared = -1
  BY HashFacts
<1>2. buffer_length' = buffer_length
  BY DEF instance
<1>3. Active("UnicoreHash")'
  BY <1>1 DEF Active
<1>4. Sentence(UnicoreHashTail)'
  BY <1>1 DEF Sentence, AtMost
<1>5. UnicoreHashInv'
  BY <1>2, <1>3, <1>4 DEF UnicoreHashInv
<1>6. agree' <= 8
  <2>1. CASE tail = 0 BY <2>1
  <2>2. CASE tail # 0 BY <2>2
  <2>. QED BY <2>1, <2>2
<1>7. declared' \in Int /\ -1 <= declared' /\ declared' < UINT16
  BY <1>1 DEF Typed
<1>. QED BY <1>5, <1>6, <1>7, Kept

\* An assignment to checksumBytes changes no other field.
LEMMA DigitsSet ==
  ASSUME NEW s \in ScratchPads, NEW n \in {2, 8}
  PROVE  /\ [s EXCEPT !.checksumBytes = n] \in ScratchPads
         /\ [s EXCEPT !.checksumBytes = n].checksumBytes = n
         /\ [s EXCEPT !.checksumBytes = n].sentenceNameLength = s.sentenceNameLength
<1>1. n \in uint8_t
  BY Uint8
<1>. QED BY <1>1 DEF ScratchPads

\* --bytesRemaining on the 8-bit counter of check digits, which does not wrap.
LEMMA ByteDecremented ==
  ASSUME NEW n \in Int, 1 <= n, n <= 8
  PROVE  Decrement(n, UINT8) = n - 1
<1>1. (n - 1) % 256 = n - 1
  OBVIOUS
<1>. QED BY <1>1 DEF Decrement, UINT8

\* sempUnicoreHashValidateChecksum and sempUnicoreHashValidateCrc are called with a
\* whole sentence in the buffer; the latter delivers it only when CR, LF and the
\* zero byte fit.
LEMMA HashVerdict ==
  ASSUME Inv, parse # "nullptr", msg_length < buffer_length,
         state \in {"sempUnicoreHashLineTermination", "sempUnicoreHashLineFeed",
                   "sempUnicoreHashCarriageReturn"},
         NEW overruled \in BOOLEAN
  PROVE  /\ sempUnicoreHashValidateChecksum(overruled).len \in uint16_t
         /\ buffer_length' = buffer_length /\ out' = sempUnicoreHashValidateChecksum(overruled) =>
              out' \in Callbacks /\ CallbackInv'
<1>1. state \in UnicoreHashStates /\ UnicoreHashTail = 1 + scratchPad.checksumBytes
  BY DEF UnicoreHashStates, UnicoreHashTail
<1>2. PICK n \in {2, 8} : n = scratchPad.checksumBytes
  BY <1>1, HashFacts
<1>3. /\ Typed /\ Active("UnicoreHash") /\ crc.seed = "zeros" /\ crc.inverted = 0
      /\ crc.cover = msg_length - 1 - (1 + n)
  BY <1>1, <1>2, HashFacts
<1>4. /\ crc \in CheckRegisters /\ msg_length \in Int /\ crc.cover \in Nat
  BY <1>3, RegisterUpdates DEF Typed
<1>5. LengthWithLineEnd \in uint16_t
  BY <1>4, Wrapped DEF LengthWithLineEnd
<1>6. CASE n = 2
  <2>1. PICK r \in {"passed", "overruled", "refused", "unreported"} :
          sempUnicoreHashValidateChecksum(overruled)
            = Verdict("UnicoreHash", 2, r, LengthWithLineEnd, crc)
    BY <1>2, <1>6 DEF sempUnicoreHashValidateChecksum, Result
  <2>2. Verdict("UnicoreHash", 2, r, LengthWithLineEnd, crc).len = LengthWithLineEnd
    BY DEF Verdict
  <2>3. crc.cover = msg_length - 4
    BY <1>3, <1>4, <1>6
  <2>4. ASSUME buffer_length' = buffer_length,
               out' = Verdict("UnicoreHash", 2, r, LengthWithLineEnd, crc)
        PROVE  out' \in Callbacks /\ CallbackInv'
    <3>1. /\ "UnicoreHash" \in {"NMEA", "UnicoreHash"} /\ 2 \in Int
          /\ 2 = 2 \/ 2 = 8
          /\ r \in {"passed", "overruled", "refused", "unreported", "dropped"}
      OBVIOUS
    <3>2. crc.cover = msg_length - 4 \/ ("UnicoreHash" # "NMEA" /\ 2 # 2)
      BY <2>3
    <3>3. crc.cover = msg_length - 10 \/ "UnicoreHash" # "UnicoreHash" \/ 2 # 8
      OBVIOUS
    <3>4. msg_length + 3 <= buffer_length \/ ("UnicoreHash" # "NMEA" /\ 2 # 8) \/ r \notin Delivered
      OBVIOUS
    <3>. QED BY <1>3, <1>4, <2>4, <3>1, <3>2, <3>3, <3>4, SentenceVerdict, ZenonT(30)
  <2>. QED BY <1>5, <2>1, <2>2, <2>4
<1>7. CASE n = 8
  <2>1. msg_length - 2 - scratchPad.checksumBytes = msg_length - 10 /\ msg_length - 10 \in Nat
    BY <1>2, <1>3, <1>4, <1>7
  <2>2. PICK c \in CheckRegisters :
          /\ c = [CrcZero EXCEPT !.cover = msg_length - 10]
          /\ c.seed = "zeros" /\ c.inverted = 0 /\ c.cover = msg_length - 10
    BY ZenonT(30), <2>1, CoverSet
  <2>3. PICK r \in {"unreported", "passed", "dropped"} :
          /\ sempUnicoreHashValidateCrc = Verdict("UnicoreHash", 8, r, LengthWithLineEnd, c)
          /\ r = "passed" => msg_length + 3 <= buffer_length
    <3>1. CASE agree # 8
      BY <2>1, <2>2, <3>1 DEF sempUnicoreHashValidateCrc
    <3>2. CASE agree = 8 /\ msg_length + 3 <= buffer_length
      BY <2>1, <2>2, <3>2 DEF sempUnicoreHashValidateCrc, UNICORE_HASH_BUFFER_OVERHEAD
    <3>3. CASE agree = 8 /\ ~(msg_length + 3 <= buffer_length)
      BY <2>1, <2>2, <3>3 DEF sempUnicoreHashValidateCrc, UNICORE_HASH_BUFFER_OVERHEAD
    <3>. QED BY <3>1, <3>2, <3>3
  <2>4. sempUnicoreHashValidateChecksum(overruled)
          = Verdict("UnicoreHash", 8, r, LengthWithLineEnd, c)
    BY <1>2, <1>7, <2>3 DEF sempUnicoreHashValidateChecksum
  <2>5. Verdict("UnicoreHash", 8, r, LengthWithLineEnd, c).len = LengthWithLineEnd
    BY DEF Verdict
  <2>6. msg_length + 3 <= buffer_length \/ r \notin Delivered
    BY <2>3 DEF Delivered
  <2>7. ASSUME buffer_length' = buffer_length,
               out' = Verdict("UnicoreHash", 8, r, LengthWithLineEnd, c)
        PROVE  out' \in Callbacks /\ CallbackInv'
    <3>1. /\ "UnicoreHash" \in {"NMEA", "UnicoreHash"} /\ 8 \in Int
          /\ 8 = 2 \/ 8 = 8
          /\ r \in {"passed", "overruled", "refused", "unreported", "dropped"}
      OBVIOUS
    <3>2. c.cover = msg_length - 4 \/ ("UnicoreHash" # "NMEA" /\ 8 # 2)
      OBVIOUS
    <3>3. c.cover = msg_length - 10 \/ "UnicoreHash" # "UnicoreHash" \/ 8 # 8
      BY <2>2
    <3>4. msg_length + 3 <= buffer_length \/ ("UnicoreHash" # "NMEA" /\ 8 # 8) \/ r \notin Delivered
      BY <2>6
    <3>. QED BY <1>3, <2>2, <2>7, <3>1, <3>2, <3>3, <3>4, SentenceVerdict, ZenonT(90)
  <2>. QED BY <1>5, <2>4, <2>5, <2>7
<1>. QED BY <1>6, <1>7

\* sempUnicoreHashFindFirstComma and sempUnicoreHashFindAsterisk preserve the
\* invariant.
LEMMA HashText ==
  ASSUME Inv, NEW data \in Bytes,
         sempUnicoreHashFindFirstComma(data) \/ sempUnicoreHashFindAsterisk(data)
  PROVE  Inv'
<1>0. /\ parse # "nullptr" /\ msg_length < buffer_length
      /\ state \in UnicoreHashStates /\ UnicoreHashTail = 0
  BY DEF sempUnicoreHashFindFirstComma, sempUnicoreHashFindAsterisk, Called,
         UnicoreHashStates, UnicoreHashTail
<1>1. /\ Typed /\ crc.seed = "zeros" /\ crc.inverted = 0 /\ crc.cover = msg_length - 1 - 0
      /\ declared = -1 /\ agree = 0
      /\ state = "sempUnicoreHashFindFirstComma" => Naming
      /\ state # "sempUnicoreHashFindFirstComma" => scratchPad.checksumBytes \in {2, 8}
  BY <1>0, HashFacts
<1>2. /\ msg_length \in Int /\ 0 <= msg_length /\ buffer_length \in Int
      /\ crc \in CheckRegisters
      /\ scratchPad \in ScratchPads /\ scratchPad.sentenceNameLength < 16
  BY <1>1 DEF Typed
<1>3. /\ Absorb(crc) \in CheckRegisters /\ Absorb(crc).seed = "zeros"
      /\ Absorb(crc).inverted = 0 /\ Absorb(crc).cover = crc.cover + 1
  BY <1>1, <1>2, RegisterUpdates
<1>4. ASSUME NEW next \in {"sempUnicoreHashFindFirstComma", "sempUnicoreHashFindAsterisk"},
             Continue(next, Absorb(crc)), UNCHANGED <<declared, agree>>,
             scratchPad' \in ScratchPads, scratchPad'.sentenceNameLength < 16,
             next = "sempUnicoreHashFindFirstComma" => Naming',
             next # "sempUnicoreHashFindFirstComma" => scratchPad'.checksumBytes \in {2, 8}
      PROVE  Inv'
  <2>1. /\ state' = next /\ msg_length' = msg_length + 1 /\ crc' = Absorb(crc) /\ out' = Silent
        /\ UNCHANGED <<instance, parser_type, computeCrc, declared>>
    BY <1>4 DEF Continue
  <2>2. state' \in UnicoreHashStates /\ UnicoreHashTail' = 0
    BY <2>1 DEF UnicoreHashStates, UnicoreHashTail
  <2>3. msg_length' \in Int /\ 0 <= msg_length' /\ msg_length' <= buffer_length
    BY <1>0, <1>2, <2>1
  <2>4. /\ crc' \in CheckRegisters /\ crc'.seed = "zeros" /\ crc'.inverted = 0
        /\ crc'.cover = msg_length' - 1 - 0
    BY <1>1, <1>2, <1>3, <2>1
  <2>5. agree' \in Int /\ -1 <= agree' /\ IF 0 = 0 THEN agree' = 0 ELSE agree' <= 0 - 1
    BY <1>1, <1>4
  <2>6. /\ state' = "sempUnicoreHashFindFirstComma" => Naming'
        /\ state' # "sempUnicoreHashFindFirstComma" => scratchPad'.checksumBytes \in {2, 8}
        /\ state' # "sempUnicoreHashChecksumByte"
    BY <1>4, <2>1
  <2>7. 0 \in Int /\ 0 <= 9
    OBVIOUS
  <2>. QED BY <1>0, <1>4, <2>1, <2>2, <2>3, <2>4, <2>5, <2>6, <2>7, HashKept
<1>5. ASSUME sempUnicoreHashFindFirstComma(data) PROVE Inv'
  <2>1. Naming
    BY <1>1, <1>5 DEF sempUnicoreHashFindFirstComma, Called
  <2>2. scratchPad.sentenceNameLength \in Int /\ -1 <= scratchPad.sentenceNameLength
    BY <1>2, ScratchFields
  <2>4. CASE /\ Continue("sempUnicoreHashFindAsterisk", Absorb(crc))
             /\ \E digits \in (IF scratchPad.sentenceNameLength >= 4 THEN {2, 8} ELSE {8}) :
                  scratchPad' = [scratchPad EXCEPT !.checksumBytes = digits]
             /\ UNCHANGED <<declared, agree>>
    <3>1. PICK digits \in {2, 8} : scratchPad' = [scratchPad EXCEPT !.checksumBytes = digits]
      BY <2>4
    <3>2. /\ scratchPad' \in ScratchPads /\ scratchPad'.sentenceNameLength < 16
          /\ scratchPad'.checksumBytes \in {2, 8}
      BY ZenonT(30), <1>2, <3>1, DigitsSet
    <3>. QED BY <1>4, <2>4, <3>2
  <2>5. CASE /\ scratchPad.sentenceNameLength # SEMP_SENTENCE_NAME_BYTES - 1
             /\ Continue("sempUnicoreHashFindFirstComma", Absorb(crc))
             /\ scratchPad' = [scratchPad EXCEPT !.sentenceNameLength = @ + 1]
             /\ UNCHANGED <<declared, agree>>
    <3>1. scratchPad.sentenceNameLength < 15
      BY <1>2, <2>2, <2>5
    <3>2. /\ scratchPad' \in ScratchPads /\ scratchPad'.sentenceNameLength < 16
          /\ scratchPad'.sentenceNameLength = scratchPad.sentenceNameLength + 1
      BY <1>2, <2>5, <3>1, NameLonger
    <3>3. msg_length' = msg_length + 1
      BY <2>5 DEF Continue
    <3>4. scratchPad.sentenceNameLength # -1
      BY <2>1 DEF Naming
    <3>5. scratchPad'.sentenceNameLength # -1
      BY <2>2, <3>2, <3>4
    <3>6. Naming'
      BY <2>1, <2>2, <3>2, <3>3, <3>5 DEF Naming
    <3>. QED BY <1>4, <2>5, <3>2, <3>6
  <2>6. CASE Restart(data)
    BY <1>0, <2>6, Restarted
  <2>. QED BY <1>5, <2>4, <2>5, <2>6 DEF sempUnicoreHashFindFirstComma
<1>6. ASSUME sempUnicoreHashFindAsterisk(data) PROVE Inv'
  <2>a. state = "sempUnicoreHashFindAsterisk" /\ scratchPad.checksumBytes \in {2, 8}
    BY <1>1, <1>6 DEF sempUnicoreHashFindAsterisk, Called
  <2>1. CASE /\ Continue("sempUnicoreHashChecksumByte", crc)
             /\ scratchPad' = [scratchPad EXCEPT !.bytesRemaining = scratchPad.checksumBytes]
             /\ UNCHANGED <<declared, agree>>
    <3>1. /\ state' = "sempUnicoreHashChecksumByte" /\ msg_length' = msg_length + 1 /\ crc' = crc
          /\ out' = Silent /\ UNCHANGED <<instance, parser_type, computeCrc, declared>>
          /\ agree' = agree
      BY <2>1 DEF Continue
    <3>2. PICK n \in {2, 8} : n = scratchPad.checksumBytes
      BY <2>a
    <3>3. n \in uint16_t
      BY Widths, Uint16
    <3>4. /\ scratchPad' \in ScratchPads /\ scratchPad'.bytesRemaining = n
          /\ scratchPad'.checksumBytes = n /\ scratchPad'.sentenceNameLength < 16
      BY <1>2, <2>1, <3>2, <3>3, SetRemaining
    <3>5. state' \in UnicoreHashStates
      BY <3>1 DEF UnicoreHashStates
    <3>6. UnicoreHashTail' = 1
      <4>1. UnicoreHashTail' = 1 + n - n
        BY <3>1, <3>4 DEF UnicoreHashTail
      <4>. QED BY <4>1
    <3>7. msg_length' \in Int /\ 0 <= msg_length' /\ msg_length' <= buffer_length
      BY <1>0, <1>2, <3>1
    <3>8. /\ crc' \in CheckRegisters /\ crc'.seed = "zeros" /\ crc'.inverted = 0
          /\ crc'.cover = msg_length' - 1 - 1
      BY <1>1, <1>2, <3>1
    <3>9. agree' \in Int /\ -1 <= agree' /\ IF 1 = 0 THEN agree' = 0 ELSE agree' <= 1 - 1
      BY <1>1, <3>1
    <3>10. /\ state' # "sempUnicoreHashFindFirstComma" /\ scratchPad'.checksumBytes \in {2, 8}
           /\ scratchPad'.bytesRemaining >= 1
           /\ scratchPad'.bytesRemaining <= scratchPad'.checksumBytes
      BY <3>1, <3>4
    <3>11. 1 \in Int /\ 1 <= 9
      OBVIOUS
    <3>. QED BY <1>0, <3>1, <3>4, <3>5, <3>6, <3>7, <3>8, <3>9, <3>10, <3>11, HashKept
  <2>2. CASE Continue("sempUnicoreHashFindAsterisk", Absorb(crc)) /\ UNCHANGED fields
    BY <1>2, <1>4, <2>a, <2>2 DEF fields
  <2>3. CASE Restart(data)
    BY <1>0, <2>3, Restarted
  <2>. QED BY <1>6, <2>1, <2>2, <2>3 DEF sempUnicoreHashFindAsterisk
<1>. QED BY <1>5, <1>6

\* sempUnicoreHashChecksumByte preserves the invariant.
LEMMA HashDigits ==
  ASSUME Inv, NEW data \in Bytes, NEW match \in BOOLEAN,
         sempUnicoreHashChecksumByte(data, match)
  PROVE  Inv'
<1>0. /\ parse # "nullptr" /\ msg_length < buffer_length
      /\ state = "sempUnicoreHashChecksumByte" /\ state \in UnicoreHashStates
  BY DEF sempUnicoreHashChecksumByte, Called, UnicoreHashStates
<1>1. PICK n \in {2, 8} : n = scratchPad.checksumBytes
  BY <1>0, HashFacts
<1>2. /\ Typed /\ scratchPad.bytesRemaining >= 1 /\ scratchPad.bytesRemaining <= n
      /\ UnicoreHashTail = 1 + n - scratchPad.bytesRemaining
      /\ crc.seed = "zeros" /\ crc.inverted = 0
      /\ crc.cover = msg_length - 1 - UnicoreHashTail
      /\ IF UnicoreHashTail = 0 THEN agree = 0 ELSE agree <= UnicoreHashTail - 1
  BY <1>0, <1>1, HashFacts DEF UnicoreHashTail
<1>3. /\ msg_length \in Int /\ 0 <= msg_length /\ buffer_length \in Int /\ agree \in Int
      /\ crc \in CheckRegisters
      /\ scratchPad \in ScratchPads /\ scratchPad.sentenceNameLength < 16
  BY <1>2 DEF Typed
<1>4. PICK rem \in Int : rem = scratchPad.bytesRemaining /\ rem >= 1 /\ rem <= n /\ rem <= 8
  BY <1>2, <1>3, ScratchFields
<1>5. Decrement(scratchPad.bytesRemaining, UINT8) = rem - 1
  BY <1>4, ByteDecremented
<1>6. PICK t \in Int : t = UnicoreHashTail /\ t = 1 + n - rem /\ t >= 1 /\ t <= n
  BY <1>2, <1>4
<1>7. crc.cover = msg_length - 1 - t /\ agree <= t - 1 /\ agree < 8
  BY <1>2, <1>3, <1>6
<1>8. CASE /\ Continue(IF rem - 1 = 0 THEN "sempUnicoreHashLineTermination"
                                      ELSE "sempUnicoreHashChecksumByte", crc)
           /\ scratchPad' = [scratchPad EXCEPT !.bytesRemaining = rem - 1]
           /\ agree' = Agreed(match)
           /\ UNCHANGED declared
  <2>1. /\ state' = IF rem - 1 = 0 THEN "sempUnicoreHashLineTermination"
                                   ELSE "sempUnicoreHashChecksumByte"
        /\ msg_length' = msg_length + 1 /\ crc' = crc /\ out' = Silent
        /\ UNCHANGED <<instance, parser_type, computeCrc, declared>> /\ agree' = Agreed(match)
    BY <1>8 DEF Continue
  <2>2. rem - 1 \in uint16_t
    BY <1>4, Widths, Uint16
  <2>3. /\ scratchPad' \in ScratchPads /\ scratchPad'.bytesRemaining = rem - 1
        /\ scratchPad'.checksumBytes = n /\ scratchPad'.sentenceNameLength < 16
    BY <1>1, <1>3, <1>8, <2>2, SetRemaining
  <2>4. state' \in UnicoreHashStates /\ state' # "sempUnicoreHashFindFirstComma"
    BY <2>1 DEF UnicoreHashStates
  <2>5. UnicoreHashTail' = t + 1
    <3>1. CASE rem - 1 = 0
      <4>1. UnicoreHashTail' = 1 + n
        BY <2>1, <2>3, <3>1 DEF UnicoreHashTail
      <4>. QED BY <1>4, <1>6, <3>1, <4>1
    <3>2. CASE rem - 1 # 0
      <4>1. UnicoreHashTail' = 1 + n - (rem - 1)
        BY <2>1, <2>3, <3>2 DEF UnicoreHashTail
      <4>. QED BY <1>4, <1>6, <4>1
    <3>. QED BY <3>1, <3>2
  <2>6. msg_length' \in Int /\ 0 <= msg_length' /\ msg_length' <= buffer_length
    BY <1>0, <1>3, <2>1
  <2>7. /\ crc' \in CheckRegisters /\ crc'.seed = "zeros" /\ crc'.inverted = 0
        /\ crc'.cover = msg_length' - 1 - (t + 1)
    BY <1>2, <1>3, <1>6, <1>7, <2>1
  <2>8. /\ agree' \in Int /\ -1 <= agree'
        /\ agree' = agree + 1 \/ agree' = -1
    BY <1>0, <1>7, <2>1, Agreement
  <2>9. agree' \in Int /\ -1 <= agree' /\ IF t + 1 = 0 THEN agree' = 0 ELSE agree' <= (t + 1) - 1
    BY <1>3, <1>6, <1>7, <2>8
  <2>10. scratchPad'.checksumBytes \in {2, 8}
    BY <2>3
  <2>11. state' = "sempUnicoreHashChecksumByte" =>
           /\ scratchPad'.bytesRemaining >= 1
           /\ scratchPad'.bytesRemaining <= scratchPad'.checksumBytes
    BY <1>4, <2>1, <2>3
  <2>12. t + 1 \in Int /\ t + 1 <= 9
    BY <1>6
  <2>. QED BY <1>0, <2>1, <2>3, <2>4, <2>5, <2>6, <2>7, <2>9, <2>10, <2>11, <2>12, HashKept
<1>. QED BY <1>0, <1>5, <1>8, Restarted DEF sempUnicoreHashChecksumByte

\* The three hash line-end routines preserve the invariant.
LEMMA HashLine ==
  ASSUME Inv, NEW data \in Bytes, NEW overruled \in BOOLEAN,
         \/ sempUnicoreHashLineTermination(data, overruled)
         \/ sempUnicoreHashLineFeed(data, overruled)
         \/ sempUnicoreHashCarriageReturn(data, overruled)
  PROVE  Inv'
<1>0. /\ parse # "nullptr" /\ msg_length < buffer_length
      /\ state \in {"sempUnicoreHashLineTermination", "sempUnicoreHashLineFeed",
                    "sempUnicoreHashCarriageReturn"}
  BY DEF sempUnicoreHashLineTermination, sempUnicoreHashLineFeed,
         sempUnicoreHashCarriageReturn, Called
<1>1. \/ AwaitLineEnd("sempUnicoreHashLineFeed") \/ AwaitLineEnd("sempUnicoreHashCarriageReturn")
      \/ FinishLine(sempUnicoreHashValidateChecksum(overruled))
      \/ sempFirstByte(data) /\ out' = sempUnicoreHashValidateChecksum(overruled)
  BY DEF sempUnicoreHashLineTermination, sempUnicoreHashLineFeed, sempUnicoreHashCarriageReturn
<1>2. CASE \/ AwaitLineEnd("sempUnicoreHashLineFeed")
           \/ AwaitLineEnd("sempUnicoreHashCarriageReturn")
  <2>1. /\ state' \in {"sempUnicoreHashLineFeed", "sempUnicoreHashCarriageReturn"}
        /\ msg_length' = msg_length /\ crc' = crc
        /\ out' = Silent /\ UNCHANGED <<instance, parser_type, computeCrc, declared>>
        /\ scratchPad' = scratchPad /\ agree' = agree
    BY <1>2 DEF AwaitLineEnd, fields
  <2>2. state \in UnicoreHashStates /\ state' \in UnicoreHashStates
    BY <1>0, <2>1 DEF UnicoreHashStates
  <2>3. PICK n \in {2, 8} : n = scratchPad.checksumBytes
    BY <1>0, <2>2, HashFacts
  <2>4. UnicoreHashTail = 1 + n /\ UnicoreHashTail' = 1 + n
    BY <1>0, <2>1, <2>3 DEF UnicoreHashTail
  <2>5. /\ Typed /\ crc.seed = "zeros" /\ crc.inverted = 0 /\ crc.cover = msg_length - 1 - (1 + n)
        /\ IF 1 + n = 0 THEN agree = 0 ELSE agree <= (1 + n) - 1
    BY <1>0, <2>2, <2>4, HashFacts
  <2>6. msg_length' \in Int /\ 0 <= msg_length' /\ msg_length' <= buffer_length
    BY <1>0, <2>1, <2>5 DEF Typed
  <2>7. /\ crc' \in CheckRegisters /\ crc'.seed = "zeros" /\ crc'.inverted = 0
        /\ crc'.cover = msg_length' - 1 - (1 + n)
    BY <2>1, <2>5 DEF Typed
  <2>8. agree' \in Int /\ -1 <= agree' /\ IF 1 + n = 0 THEN agree' = 0 ELSE agree' <= (1 + n) - 1
    BY <2>1, <2>5 DEF Typed
  <2>9. /\ scratchPad' \in ScratchPads /\ scratchPad'.sentenceNameLength < 16
        /\ scratchPad'.checksumBytes \in {2, 8}
        /\ state' # "sempUnicoreHashFindFirstComma" /\ state' # "sempUnicoreHashChecksumByte"
    BY <2>1, <2>3, <2>5 DEF Typed
  <2>10. 1 + n \in Int /\ 1 + n <= 9
    OBVIOUS
  <2>. QED BY <1>0, <2>1, <2>2, <2>4, <2>6, <2>7, <2>8, <2>9, <2>10, HashKept
<1>3. CASE FinishLine(sempUnicoreHashValidateChecksum(overruled))
  <2>1. buffer_length' = buffer_length
    BY <1>3 DEF FinishLine, Finish, instance
  <2>. QED BY <1>0, <1>3, <2>1, HashVerdict, LineFinished
<1>4. CASE sempFirstByte(data) /\ out' = sempUnicoreHashValidateChecksum(overruled)
  <2>1. buffer_length' = buffer_length
    BY <1>4 DEF sempFirstByte, instance
  <2>. QED BY <1>0, <1>4, <2>1, HashVerdict, LineRestarted
<1>. QED BY <1>1, <1>2, <1>3, <1>4

\* The routines of Parse_Unicore_Hash.c preserve the invariant.
LEMMA UnicoreHashStep ==
  ASSUME Inv, UnicoreHashHandler
  PROVE  Inv'
  BY HashText, HashDigits, HashLine DEF UnicoreHashHandler
=============================================================================
