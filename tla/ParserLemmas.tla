----------------------------- MODULE ParserLemmas -----------------------------
(***************************************************************************)
(* Lemmas on the operators of the model and on the ways a call of          *)
(* sempParseNextByte can end: it restarts, continues or finishes a frame.  *)
(***************************************************************************)
EXTENDS ParserInvariant, TLAPS

\* How long a prover may take for one leaf.
USE SMTT(30), ZenonT(30)

USE DEF SEMP_MINIMUM_BUFFER_LENGTH, Unset, Mismatch, SEMP_SENTENCE_NAME_BYTES

\* The moduli of the C types, as bounds: uint16_t holds every length of the code
\* that is a constant (an RTCM frame has at most 1029 bytes).
LEMMA Widths == UINT8 = 256 /\ UINT16 \in Int /\ UINT16 > 1100
  BY DEF UINT8, UINT16

\* Membership in uint8_t as inequalities.
LEMMA Uint8 == \A n : n \in uint8_t <=> n \in Int /\ 0 <= n /\ n < 256
<1>1. UINT8 \in Int BY DEF UINT8
<1>2. \A n : n \in uint8_t <=> n \in Int /\ 0 <= n /\ n < UINT8 BY <1>1 DEF uint8_t
<1>. QED BY <1>2, Widths

\* Membership in uint16_t as inequalities.
LEMMA Uint16 == \A n : n \in uint16_t <=> n \in Int /\ 0 <= n /\ n < UINT16
  BY Widths DEF uint16_t

\* The seeds that the preamble routines store in parse->crc.
LEMMA RegisterType ==
  /\ CrcZero \in CheckRegisters
  /\ CrcZero.seed = "zeros" /\ CrcZero.cover = 0 /\ CrcZero.inverted = 0
  /\ CrcOnes \in CheckRegisters
  /\ CrcOnes.seed = "ones" /\ CrcOnes.cover = 0 /\ CrcOnes.inverted = 0
  BY DEF CrcZero, CrcOnes, CheckRegisters

\* What one table step, the complement before the custom CRC and the Unicore
\* binary routine without a return value do to parse->crc.
LEMMA RegisterUpdates ==
  ASSUME NEW c \in CheckRegisters
  PROVE  /\ Absorb(c) \in CheckRegisters
         /\ Absorb(c).seed = c.seed
         /\ Absorb(c).cover = c.cover + 1
         /\ Absorb(c).inverted = c.inverted
         /\ Complement(c) \in CheckRegisters
         /\ Complement(c).seed = c.seed
         /\ Complement(c).cover = c.cover
         /\ Complement(c).inverted = c.cover
         /\ Garbage(c) \in CheckRegisters
         /\ c.cover \in Nat /\ c.inverted \in Nat
  BY DEF Absorb, Complement, Garbage, CheckRegisters

\* parserCount is a non-zero uint8_t.
LEMMA TableLength == Len(ParserTable) \in Int /\ 1 <= Len(ParserTable) /\ Len(ParserTable) < 256
  BY TableAssumption, Uint8

\* parsers_table holds preamble routines of the six protocols only.
LEMMA TableEntry ==
  ASSUME NEW i \in 1 .. Len(ParserTable)
  PROVE  ParserTable[i] \in Protocols
  BY TableAssumption

\* A call that makes no callback.
LEMMA SilentType == Silent \in Callbacks
  BY Widths, Uint16, RegisterType, TableLength DEF Silent, Callbacks

\* The scratch pads that memset and the preamble routines leave.
LEMMA ScratchType ==
  /\ ScratchZero \in ScratchPads
  /\ ScratchUnset \in ScratchPads
  /\ ScratchUnset.sentenceNameLength = Unset
  /\ [ScratchUnset EXCEPT !.sentenceNameLength = 0] \in ScratchPads
  /\ [ScratchUnset EXCEPT !.sentenceNameLength = 0].sentenceNameLength = 0
  BY Widths, Uint8, Uint16 DEF ScratchZero, ScratchUnset, ScratchPads

\* The fields of the scratch pad as integers.
LEMMA ScratchFields ==
  ASSUME NEW s \in ScratchPads
  PROVE  /\ s.bytesRemaining \in Int /\ -1 <= s.bytesRemaining /\ s.bytesRemaining < UINT16
         /\ s.sentenceNameLength \in Int /\ -1 <= s.sentenceNameLength
         /\ s.checksumBytes \in Int /\ -1 <= s.checksumBytes
         /\ s.ck \in Int
  BY Widths, Uint8, Uint16 DEF ScratchPads

\* An assignment to bytesRemaining changes no other field.
LEMMA SetRemaining ==
  ASSUME NEW s \in ScratchPads, NEW n \in uint16_t
  PROVE  /\ [s EXCEPT !.bytesRemaining = n] \in ScratchPads
         /\ [s EXCEPT !.bytesRemaining = n].bytesRemaining = n
         /\ [s EXCEPT !.bytesRemaining = n].sentenceNameLength = s.sentenceNameLength
         /\ [s EXCEPT !.bytesRemaining = n].checksumBytes = s.checksumBytes
         /\ [s EXCEPT !.bytesRemaining = n].ck = s.ck
  BY Widths, Uint16 DEF ScratchPads

\* --bytesRemaining on 16 bits, with the wrap from 0 to 65535.
LEMMA Decremented ==
  ASSUME NEW n \in Int, 0 <= n, n < UINT16
  PROVE  /\ Decrement(n, UINT16) \in Int
         /\ n > 0 => Decrement(n, UINT16) = n - 1
         /\ n = 0 => Decrement(n, UINT16) = UINT16 - 1
<1>1. n < 65536 => (n - 1) % 65536 = IF n = 0 THEN 65535 ELSE n - 1
  OBVIOUS
<1>. QED BY <1>1 DEF Decrement, UINT16

\* A length below 2^16 is stored unchanged.
LEMMA Unwrapped ==
  ASSUME NEW n \in Int, 0 <= n, n < UINT16
  PROVE  n % UINT16 = n
<1>1. n < 65536 => n % 65536 = n
  OBVIOUS
<1>. QED BY <1>1 DEF UINT16

\* Every length is a uint16_t once it is stored in msg_length.
LEMMA Wrapped ==
  ASSUME NEW n \in Int
  PROVE  n % UINT16 \in uint16_t
<1>1. n % 65536 \in Int /\ 0 <= n % 65536 /\ n % 65536 < 65536
  OBVIOUS
<1>2. n % UINT16 \in Int /\ 0 <= n % UINT16 /\ n % UINT16 < UINT16
  BY <1>1 DEF UINT16
<1>. QED BY <1>2, Uint16

\* The value that --bytesRemaining leaves, by name.
LEMMA Remaining ==
  ASSUME NEW n \in Int, 0 <= n, n < UINT16
  PROVE  \E left \in Int :
           /\ left = Decrement(n, UINT16)
           /\ left \in uint16_t /\ 0 <= left /\ left < UINT16
           /\ n > 0 => left = n - 1
           /\ n = 0 => left = UINT16 - 1
<1>1. /\ Decrement(n, UINT16) \in Int
      /\ 0 <= Decrement(n, UINT16) /\ Decrement(n, UINT16) < UINT16
  BY Decremented, Widths
<1>. QED BY <1>1, Decremented, Uint16

\* No routine belongs to two protocols, and sempFirstByte belongs to none.
LEMMA StateSets ==
  /\ "sempFirstByte" \in Routines
  /\ \A s \in CustomStates :
       s # "sempFirstByte" /\ s \in Routines /\ s \notin NmeaStates /\ s \notin RtcmStates
       /\ s \notin UbloxStates /\ s \notin UnicoreBinaryStates /\ s \notin UnicoreHashStates
  /\ \A s \in NmeaStates :
       s # "sempFirstByte" /\ s \in Routines /\ s \notin RtcmStates
       /\ s \notin UbloxStates /\ s \notin UnicoreBinaryStates /\ s \notin UnicoreHashStates
  /\ \A s \in RtcmStates :
       s # "sempFirstByte" /\ s \in Routines
       /\ s \notin UbloxStates /\ s \notin UnicoreBinaryStates /\ s \notin UnicoreHashStates
  /\ \A s \in UbloxStates :
       s # "sempFirstByte" /\ s \in Routines
       /\ s \notin UnicoreBinaryStates /\ s \notin UnicoreHashStates
  /\ \A s \in UnicoreBinaryStates :
       s # "sempFirstByte" /\ s \in Routines /\ s \notin UnicoreHashStates
  /\ \A s \in UnicoreHashStates : s # "sempFirstByte" /\ s \in Routines
<1>1. \A s : s \in Routines <=>
        \/ s = "sempFirstByte" \/ s \in CustomStates \/ s \in NmeaStates
        \/ s \in RtcmStates \/ s \in UbloxStates \/ s \in UnicoreBinaryStates
        \/ s \in UnicoreHashStates
  BY DEF Routines
<1>2. /\ \A s \in CustomStates : s # "sempFirstByte" /\ s \notin NmeaStates /\ s \notin RtcmStates
       /\ s \notin UbloxStates /\ s \notin UnicoreBinaryStates /\ s \notin UnicoreHashStates
  BY DEF CustomStates, NmeaStates, RtcmStates, UbloxStates, UnicoreBinaryStates, UnicoreHashStates
<1>3. \A s \in NmeaStates :
       s # "sempFirstByte" /\ s \notin RtcmStates
       /\ s \notin UbloxStates /\ s \notin UnicoreBinaryStates /\ s \notin UnicoreHashStates
  BY DEF NmeaStates, RtcmStates, UbloxStates, UnicoreBinaryStates, UnicoreHashStates
<1>4. \A s \in RtcmStates :
       s # "sempFirstByte"
       /\ s \notin UbloxStates /\ s \notin UnicoreBinaryStates /\ s \notin UnicoreHashStates
  BY DEF RtcmStates, UbloxStates, UnicoreBinaryStates, UnicoreHashStates
<1>5. \A s \in UbloxStates :
       s # "sempFirstByte" /\ s \notin UnicoreBinaryStates /\ s \notin UnicoreHashStates
  BY DEF UbloxStates, UnicoreBinaryStates, UnicoreHashStates
<1>6. /\ \A s \in UnicoreBinaryStates :
       s # "sempFirstByte" /\ s \notin UnicoreHashStates
      /\ \A s \in UnicoreHashStates : s # "sempFirstByte"
  BY DEF UnicoreBinaryStates, UnicoreHashStates
<1>. QED BY <1>1, <1>2, <1>3, <1>4, <1>5, <1>6

\* Before sempBeginParser there is no structure, and the invariant holds.
LEMMA InitInv == ASSUME Init PROVE Inv
<1>0. "sempFirstByte" \in Routines BY DEF Routines
<1>1. StructureType
  BY <1>0, Widths, Uint16, RegisterType, ScratchType, TableLength DEF Init, StructureType
<1>2. out \in Callbacks
  BY SilentType DEF Init
<1>3. FrameInv
  BY  DEF Init, FrameInv, CustomStates, NmeaStates, RtcmStates, UbloxStates, UnicoreBinaryStates, UnicoreHashStates, ScratchZero
<1>4. CallbackInv
  BY DEF Init, CallbackInv, CheckCoversFrame, Silent, BinaryProtocols, DeliveredNow, Delivered
<1>. QED BY <1>1, <1>2, <1>3, <1>4 DEF Inv, TypeOK

\* A call that leaves the state pointer at a routine of one protocol has only that
\* protocol's invariant to establish.
LEMMA Landed ==
  ASSUME parse' = "allocated", buffer_length' >= 256, msg_length' <= buffer_length',
         scratchPad'.sentenceNameLength < 16,
         \/ state' \in CustomStates /\ CustomInv'
         \/ state' \in NmeaStates /\ NmeaInv'
         \/ state' \in RtcmStates /\ RtcmInv'
         \/ state' \in UbloxStates /\ UbloxInv'
         \/ state' \in UnicoreBinaryStates /\ UnicoreBinaryInv'
         \/ state' \in UnicoreHashStates /\ UnicoreHashInv'
  PROVE  FrameInv' /\ state' \in Routines
  BY StateSets DEF FrameInv

\* sempFirstByte: the first table entry whose preamble routine claims the byte
\* finds its own invariant satisfied, and a byte nobody claims leaves no frame.
LEMMA FirstByteInv ==
  ASSUME Inv, parse # "nullptr", NEW data \in Bytes, sempFirstByte(data)
  PROVE  StructureType' /\ FrameInv'
<1>1. /\ msg_length' = 1 /\ declared' = Unset /\ agree' = 0
      /\ parse' = parse /\ buffer_length' = buffer_length
  BY DEF sempFirstByte, instance
<1>2. parse = "allocated" /\ buffer_length \in uint16_t /\ buffer_length >= 256
  BY DEF Inv, TypeOK, StructureType, FrameInv
<1>3. CASE /\ state' = "sempFirstByte"
           /\ parser_type' = Len(ParserTable)
           /\ computeCrc' = "nullptr"
           /\ crc' = CrcZero
           /\ scratchPad' = ScratchUnset
  <2>1. StructureType'
    BY <1>1, <1>2, <1>3, StateSets, Widths, Uint16, RegisterType, ScratchType, TableLength DEF StructureType
  <2>2. FrameInv'
    BY <1>1, <1>2, <1>3, StateSets
    DEF FrameInv, ScratchUnset
  <2>. QED BY <2>1, <2>2
<1>4. CASE \E i \in Claimants(data) :
          /\ parser_type' = i - 1
          /\ state' = Preamble(ParserTable[i]).state
          /\ computeCrc' = Preamble(ParserTable[i]).computeCrc
          /\ crc' = Preamble(ParserTable[i]).crc
          /\ scratchPad' = Preamble(ParserTable[i]).scratchPad
  <2>1. PICK i \in 1 .. Len(ParserTable) :
          /\ parser_type' = i - 1
          /\ state' = Preamble(ParserTable[i]).state
          /\ computeCrc' = Preamble(ParserTable[i]).computeCrc
          /\ crc' = Preamble(ParserTable[i]).crc
          /\ scratchPad' = Preamble(ParserTable[i]).scratchPad
    BY <1>4 DEF Claimants
  <2>2. ParserTable[i] \in Protocols
    BY TableEntry
  <2>3. /\ parser_type' \in 0 .. Len(ParserTable)
        /\ parser_type' < Len(ParserTable)
        /\ ParserTable[parser_type' + 1] = ParserTable[i]
    BY <2>1, TableLength
  <2>4. CASE ParserTable[i] = "Custom"
    <3>1. /\ state' = "sempCustomSync2" /\ computeCrc' = "sempCustomComputeCrc"
          /\ crc' = Absorb(CrcOnes) /\ scratchPad' = ScratchUnset
      BY <2>1, <2>4 DEF Preamble, sempCustomPreamble, Compute
    <3>2. crc'.seed = "ones" /\ crc'.cover = 1 /\ crc'.inverted = 0 /\ crc' \in CheckRegisters
      BY <3>1, RegisterType, RegisterUpdates
    <3>3. state' \in CustomStates
      BY <3>1 DEF CustomStates
    <3>4. scratchPad' \in ScratchPads /\ scratchPad'.sentenceNameLength < 16
      BY <3>1, ScratchType
    <3>5. CustomInv'
      BY <1>1, <1>2, <2>3, <2>4, <3>1, <3>2, <3>4, Widths, Uint16 DEF CustomInv, Active, Undeclared
    <3>6. FrameInv' /\ state' \in Routines
      BY <1>1, <1>2, <3>3, <3>4, <3>5, Widths, Uint16, Landed
    <3>7. StructureType'
      BY <1>1, <1>2, <2>3, <3>1, <3>2, <3>4, <3>6, Widths, Uint16 DEF StructureType
    <3>. QED BY <3>6, <3>7
  <2>5. CASE ParserTable[i] = "NMEA"
    <3>1. /\ state' = "sempNmeaFindFirstComma" /\ computeCrc' = "nullptr"
          /\ crc' = CrcZero /\ scratchPad' = [ScratchUnset EXCEPT !.sentenceNameLength = 0]
      BY <2>1, <2>5 DEF Preamble, sempNmeaPreamble, Compute
    <3>2. crc'.seed = "zeros" /\ crc'.cover = 0 /\ crc'.inverted = 0 /\ crc' \in CheckRegisters
      BY <3>1, RegisterType, RegisterUpdates
    <3>3. state' \in NmeaStates
      BY <3>1 DEF NmeaStates
    <3>4. scratchPad' \in ScratchPads /\ scratchPad'.sentenceNameLength < 16 /\ scratchPad'.sentenceNameLength = 0
      BY <3>1, ScratchType
    <3>5. NmeaInv'
      BY <1>1, <1>2, <2>3, <2>5, <3>1, <3>2, <3>4, Widths, Uint16 DEF NmeaInv, Active, Sentence, NmeaTail, Naming, NMEA_BUFFER_OVERHEAD
    <3>6. FrameInv' /\ state' \in Routines
      BY <1>1, <1>2, <3>3, <3>4, <3>5, Widths, Uint16, Landed
    <3>7. StructureType'
      BY <1>1, <1>2, <2>3, <3>1, <3>2, <3>4, <3>6, Widths, Uint16 DEF StructureType
    <3>. QED BY <3>6, <3>7
  <2>6. CASE ParserTable[i] = "RTCM"
    <3>1. /\ state' = "sempRtcmReadLength1" /\ computeCrc' = "sempRtcmComputeCrc24q"
          /\ crc' = Absorb(CrcZero) /\ scratchPad' = ScratchUnset
      BY <2>1, <2>6 DEF Preamble, sempRtcmPreamble, Compute
    <3>2. crc'.seed = "zeros" /\ crc'.cover = 1 /\ crc'.inverted = 0 /\ crc' \in CheckRegisters
      BY <3>1, RegisterType, RegisterUpdates
    <3>3. state' \in RtcmStates
      BY <3>1 DEF RtcmStates
    <3>4. scratchPad' \in ScratchPads /\ scratchPad'.sentenceNameLength < 16
      BY <3>1, ScratchType
    <3>5. RtcmInv'
      BY <1>1, <1>2, <2>3, <2>6, <3>1, <3>2, <3>4, Widths, Uint16 DEF RtcmInv, Active, Undeclared
    <3>6. FrameInv' /\ state' \in Routines
      BY <1>1, <1>2, <3>3, <3>4, <3>5, Widths, Uint16, Landed
    <3>7. StructureType'
      BY <1>1, <1>2, <2>3, <3>1, <3>2, <3>4, <3>6, Widths, Uint16 DEF StructureType
    <3>. QED BY <3>6, <3>7
  <2>7. CASE ParserTable[i] = "UBLOX"
    <3>1. /\ state' = "sempUbloxSync2" /\ computeCrc' = "nullptr"
          /\ crc' = CrcZero /\ scratchPad' = ScratchUnset
      BY <2>1, <2>7 DEF Preamble, sempUbloxPreamble, Compute
    <3>2. crc' \in CheckRegisters
      BY <3>1, RegisterType, RegisterUpdates
    <3>3. state' \in UbloxStates
      BY <3>1 DEF UbloxStates
    <3>4. scratchPad' \in ScratchPads /\ scratchPad'.sentenceNameLength < 16
      BY <3>1, ScratchType
    <3>5. UbloxInv'
      BY <1>1, <1>2, <2>3, <2>7, <3>1, <3>2, <3>4, Widths, Uint16 DEF UbloxInv, Active, Undeclared
    <3>6. FrameInv' /\ state' \in Routines
      BY <1>1, <1>2, <3>3, <3>4, <3>5, Widths, Uint16, Landed
    <3>7. StructureType'
      BY <1>1, <1>2, <2>3, <3>1, <3>2, <3>4, <3>6, Widths, Uint16 DEF StructureType
    <3>. QED BY <3>6, <3>7
  <2>8. CASE ParserTable[i] = "UnicoreBinary"
    <3>1. /\ state' = "sempUnicoreBinarySync2" /\ computeCrc' = "sempUnicoreBinaryComputeCrc"
          /\ crc' = Garbage(CrcZero) /\ scratchPad' = ScratchUnset
      BY <2>1, <2>8 DEF Preamble, sempUnicoreBinaryPreamble, Compute
    <3>2. crc' \in CheckRegisters
      BY <3>1, RegisterType, RegisterUpdates
    <3>3. state' \in UnicoreBinaryStates
      BY <3>1 DEF UnicoreBinaryStates
    <3>4. scratchPad' \in ScratchPads /\ scratchPad'.sentenceNameLength < 16
      BY <3>1, ScratchType
    <3>5. UnicoreBinaryInv'
      BY <1>1, <1>2, <2>3, <2>8, <3>1, <3>2, <3>4, Widths, Uint16 DEF UnicoreBinaryInv, Active, Undeclared
    <3>6. FrameInv' /\ state' \in Routines
      BY <1>1, <1>2, <3>3, <3>4, <3>5, Widths, Uint16, Landed
    <3>7. StructureType'
      BY <1>1, <1>2, <2>3, <3>1, <3>2, <3>4, <3>6, Widths, Uint16 DEF StructureType
    <3>. QED BY <3>6, <3>7
  <2>9. CASE ParserTable[i] = "UnicoreHash"
    <3>1. /\ state' = "sempUnicoreHashFindFirstComma" /\ computeCrc' = "nullptr"
          /\ crc' = CrcZero /\ scratchPad' = [ScratchUnset EXCEPT !.sentenceNameLength = 0]
      BY <2>1, <2>9 DEF Preamble, sempUnicoreHashPreamble, Compute
    <3>2. crc'.seed = "zeros" /\ crc'.cover = 0 /\ crc'.inverted = 0 /\ crc' \in CheckRegisters
      BY <3>1, RegisterType, RegisterUpdates
    <3>3. state' \in UnicoreHashStates
      BY <3>1 DEF UnicoreHashStates
    <3>4. scratchPad' \in ScratchPads /\ scratchPad'.sentenceNameLength < 16 /\ scratchPad'.sentenceNameLength = 0
      BY <3>1, ScratchType
    <3>5. UnicoreHashInv'
      BY <1>1, <1>2, <2>3, <2>9, <3>1, <3>2, <3>4, Widths, Uint16 DEF UnicoreHashInv, Active, Sentence, UnicoreHashTail, Naming
    <3>6. FrameInv' /\ state' \in Routines
      BY <1>1, <1>2, <3>3, <3>4, <3>5, Widths, Uint16, Landed
    <3>7. StructureType'
      BY <1>1, <1>2, <2>3, <3>1, <3>2, <3>4, <3>6, Widths, Uint16 DEF StructureType
    <3>. QED BY <3>6, <3>7
  <2>. QED BY <2>2, <2>4, <2>5, <2>6, <2>7, <2>8, <2>9 DEF Protocols
<1>. QED BY <1>3, <1>4 DEF sempFirstByte

\* A call without a callback satisfies what is said of callbacks.
LEMMA Quiet ==
  ASSUME out' = Silent
  PROVE  out' \in Callbacks /\ CallbackInv'
  BY SilentType DEF CallbackInv, CheckCoversFrame, Silent, BinaryProtocols, DeliveredNow, Delivered

\* A routine that hands its byte to sempFirstByte without a callback.
LEMMA Restarted ==
  ASSUME Inv, parse # "nullptr", NEW data \in Bytes, Restart(data)
  PROVE  Inv'
  BY FirstByteInv, Quiet DEF Restart, Inv, TypeOK

\* The types of an allocated parse structure, as inequalities.
Typed ==
  /\ parse = "allocated"
  /\ buffer_length \in Int /\ 256 <= buffer_length /\ buffer_length < UINT16
  /\ msg_length \in Int /\ 0 <= msg_length
  /\ crc \in CheckRegisters
  /\ scratchPad \in ScratchPads /\ scratchPad.sentenceNameLength < 16
  /\ declared \in Int /\ -1 <= declared /\ declared < UINT16
  /\ agree \in Int /\ -1 <= agree /\ agree <= 8
  /\ parser_type \in Int /\ 0 <= parser_type /\ parser_type <= Len(ParserTable)
  /\ UINT16 \in Int /\ UINT16 > 1100
  /\ Len(ParserTable) \in Int

\* The types of the structure that sempParseNextByte is called with.
LEMMA CallFacts ==
  ASSUME Inv, parse # "nullptr"
  PROVE  Typed
  BY Widths, Uint16, TableLength DEF Inv, TypeOK, StructureType, FrameInv, Typed

\* A call that stays in a frame, the frame growing or not, without a callback.
LEMMA Kept ==
  ASSUME Inv, parse # "nullptr",
         UNCHANGED <<instance, parser_type, computeCrc>>,
         msg_length' \in Int, 0 <= msg_length', msg_length' <= buffer_length, out' = Silent,
         crc' \in CheckRegisters, scratchPad' \in ScratchPads,
         scratchPad'.sentenceNameLength < 16,
         declared' \in Int, -1 <= declared', declared' < UINT16,
         agree' \in Int, -1 <= agree', agree' <= 8,
         \/ state' \in CustomStates /\ CustomInv'
         \/ state' \in NmeaStates /\ NmeaInv'
         \/ state' \in RtcmStates /\ RtcmInv'
         \/ state' \in UbloxStates /\ UbloxInv'
         \/ state' \in UnicoreBinaryStates /\ UnicoreBinaryInv'
         \/ state' \in UnicoreHashStates /\ UnicoreHashInv'
  PROVE  Inv'
<1>1. /\ parse' = "allocated"
      /\ buffer_length' = buffer_length /\ buffer_length' >= 256
      /\ msg_length' <= buffer_length'
      /\ msg_length' \in uint16_t /\ buffer_length' \in uint16_t
      /\ parser_type' \in 0 .. Len(ParserTable)
  BY CallFacts, Widths, Uint16 DEF instance, Typed
<1>2. computeCrc' \in {"nullptr", "sempCustomComputeCrc", "sempRtcmComputeCrc24q",
                     "sempUnicoreBinaryComputeCrc"}
  BY DEF Inv, TypeOK, StructureType
<1>3. FrameInv' /\ state' \in Routines
  BY <1>1, Landed
<1>4. StructureType'
  BY <1>1, <1>2, <1>3, Widths, Uint16 DEF StructureType
<1>. QED BY <1>3, <1>4, Quiet DEF Inv, TypeOK

\* A call that stores its byte and selects the next routine of the frame.
LEMMA Continued ==
  ASSUME Inv, parse # "nullptr", msg_length < buffer_length,
         UNCHANGED <<instance, parser_type, computeCrc>>,
         msg_length' = msg_length + 1, out' = Silent,
         crc' \in CheckRegisters, scratchPad' \in ScratchPads,
         scratchPad'.sentenceNameLength < 16,
         declared' \in Int, -1 <= declared', declared' < UINT16,
         agree' \in Int, -1 <= agree', agree' <= 8,
         \/ state' \in CustomStates /\ CustomInv'
         \/ state' \in NmeaStates /\ NmeaInv'
         \/ state' \in RtcmStates /\ RtcmInv'
         \/ state' \in UbloxStates /\ UbloxInv'
         \/ state' \in UnicoreBinaryStates /\ UnicoreBinaryInv'
         \/ state' \in UnicoreHashStates /\ UnicoreHashInv'
  PROVE  Inv'
<1>1. msg_length' \in Int /\ 0 <= msg_length' /\ msg_length' <= buffer_length
  BY CallFacts DEF Typed
<1>. QED BY <1>1, Kept, ZenonT(30)

\* A call that ends its frame: state = sempFirstByte, after the callback if any.
LEMMA Finished ==
  ASSUME Inv, parse # "nullptr",
         UNCHANGED <<instance, parser_type, computeCrc>>,
         state' = "sempFirstByte",
         msg_length' \in uint16_t,
         crc' \in CheckRegisters, scratchPad' \in ScratchPads,
         scratchPad'.sentenceNameLength < 16,
         declared' \in Int, -1 <= declared', declared' < UINT16,
         agree' \in Int, -1 <= agree', agree' <= 8,
         out' \in Callbacks, CallbackInv'
  PROVE  Inv'
<1>1. /\ parse' = "allocated" /\ buffer_length' >= 256 /\ buffer_length' \in uint16_t
      /\ parser_type' \in 0 .. Len(ParserTable)
  BY CallFacts, Widths, Uint16 DEF instance, Typed
<1>2. computeCrc' \in {"nullptr", "sempCustomComputeCrc", "sempRtcmComputeCrc24q",
                     "sempUnicoreBinaryComputeCrc"}
  BY DEF Inv, TypeOK, StructureType
<1>3. FrameInv'
  BY <1>1, StateSets DEF FrameInv
<1>4. StructureType'
  BY <1>1, <1>2, StateSets, Widths, Uint16 DEF StructureType
<1>. QED BY <1>3, <1>4 DEF Inv, TypeOK

\* One more check byte has been compared.
LEMMA Agreement ==
  ASSUME Inv, parse # "nullptr", NEW match \in BOOLEAN, agree < 8
  PROVE  /\ Agreed(match) \in Int /\ -1 <= Agreed(match) /\ Agreed(match) <= 8
         /\ Agreed(match) = agree + 1 \/ Agreed(match) = -1
  BY CallFacts DEF Agreed, Typed

\* What the application sees at the end of a frame has the right types.
LEMMA VerdictType ==
  ASSUME NEW r \in {"passed", "overruled", "refused", "unreported", "dropped"},
         NEW p \in Protocols, NEW t \in 0 .. Len(ParserTable), NEW len \in uint16_t,
         NEW s \in CheckRegisters, NEW d \in uint16_t \cup {Unset}, NEW w \in 0 .. 8
  PROVE  [result |-> r, proto |-> p, type |-> t, len |-> len, sum |-> s,
          declared |-> d, width |-> w] \in Callbacks
  BY DEF Callbacks

\* The check value of u-blox and of the hash CRC-32, computed at the end.
LEMMA CoverSet ==
  ASSUME NEW n \in Nat
  PROVE  /\ [CrcZero EXCEPT !.cover = n] \in CheckRegisters
         /\ [CrcZero EXCEPT !.cover = n].seed = "zeros"
         /\ [CrcZero EXCEPT !.cover = n].cover = n
         /\ [CrcZero EXCEPT !.cover = n].inverted = 0
  BY DEF CrcZero, CheckRegisters

\* An assignment to the u-blox checksum changes no other field.
LEMMA CkSet ==
  ASSUME NEW s \in ScratchPads, NEW k \in Int
  PROVE  /\ [s EXCEPT !.ck = k] \in ScratchPads
         /\ [s EXCEPT !.ck = k].ck = k
         /\ [s EXCEPT !.ck = k].bytesRemaining = s.bytesRemaining
         /\ [s EXCEPT !.ck = k].sentenceNameLength = s.sentenceNameLength
  BY DEF ScratchPads

\* A u-blox byte that is summed and counted.
LEMMA BothSet ==
  ASSUME NEW s \in ScratchPads, NEW n \in uint16_t
  PROVE  /\ [s EXCEPT !.ck = s.ck + 1, !.bytesRemaining = n] \in ScratchPads
         /\ [s EXCEPT !.ck = s.ck + 1, !.bytesRemaining = n].bytesRemaining = n
         /\ [s EXCEPT !.ck = s.ck + 1, !.bytesRemaining = n].ck = s.ck + 1
         /\ [s EXCEPT !.ck = s.ck + 1, !.bytesRemaining = n].sentenceNameLength = s.sentenceNameLength
<1>1. s.ck + 1 \in Int
  BY ScratchFields
<1> DEFINE t == [s EXCEPT !.ck = s.ck + 1]
<1>2. t \in ScratchPads /\ t.ck = s.ck + 1 /\ t.sentenceNameLength = s.sentenceNameLength
  BY <1>1, CkSet
<1> HIDE DEF t
<1>3. /\ [t EXCEPT !.bytesRemaining = n] \in ScratchPads
      /\ [t EXCEPT !.bytesRemaining = n].bytesRemaining = n
      /\ [t EXCEPT !.bytesRemaining = n].sentenceNameLength = t.sentenceNameLength
      /\ [t EXCEPT !.bytesRemaining = n].ck = t.ck
  BY <1>2, SetRemaining
<1>. QED BY <1>2, <1>3, ZenonT(30) DEF t
=============================================================================
