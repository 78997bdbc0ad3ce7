--------------------------- MODULE MultiParserProofs ---------------------------
(***************************************************************************)
(* Proofs about MultiParser, for every buffer length that mmpInitParser    *)
(* accepts, every message length and every stream: Inv is inductive, the   *)
(* properties follow from it, SEMP and u-blox implement LengthFramer, and  *)
(* NMEA implements SentenceFramer.                                         *)
(***************************************************************************)
EXTENDS MultiParser, TLAPS

\* How long a prover may take for one leaf.
USE SMTT(30), ZenonT(30)

\* 2^16 is a number and room for more than the smallest buffer.
LEMMA Modulus == UINT16 \in Nat /\ UINT16 > 300
BY DEF UINT16

\* The 16-bit words are the numbers below 2^16 (uint16_t).
LEMMA Words == \A n : n \in uint16_t <=> n \in Nat /\ n < UINT16
BY Modulus DEF uint16_t

\* Decrementing a counter that is not zero takes one from it.
LEMMA Counting ==
  ASSUME NEW n \in uint16_t, n > 0
  PROVE  Decrement(n, UINT16) = n - 1 /\ n - 1 \in uint16_t
<1>1. n - 1 \in Nat /\ n - 1 < UINT16 BY Words, Modulus
<1>2. \A k, m \in Nat : k < m => k % m = k OBVIOUS
<1>. QED BY <1>1, <1>2, Words, Modulus DEF Decrement

\* The length of a u-blox frame from its two bytes (mmpUbloxReadLength).
LEMMA TwoBytes ==
  ASSUME NEW lo \in uint8_t, NEW hi \in uint8_t
  PROVE  lo \in uint16_t /\ lo # Unset /\ lo + 256 * hi \in uint16_t
<1>1. lo \in 0 .. 255 /\ hi \in 0 .. 255 BY DEF uint8_t, UINT8
<1>2. lo + 256 * hi \in Nat /\ lo + 256 * hi < 65536 BY <1>1
<1>. QED BY <1>1, <1>2, Words DEF UINT16, Unset

\* What a byte and the complement do to a check register.
LEMMA Registers ==
  ASSUME NEW c \in CheckRegisters
  PROVE  /\ Absorb(c) \in CheckRegisters /\ Absorb(c).cover = c.cover + 1
         /\ Complement(c) \in CheckRegisters /\ Complement(c).cover = c.cover
         /\ Complement(c).inverted = c.cover
         /\ c.cover \in Nat /\ c.inverted \in Nat
BY DEF Absorb, Complement, CheckRegisters

\* The two initial values of the register.
LEMMA Seeds ==
  /\ CrcZero \in CheckRegisters /\ CrcZero.cover = 0
  /\ CrcOnes \in CheckRegisters /\ CrcOnes.cover = 0
BY DEF CrcZero, CrcOnes, CheckRegisters

-----------------------------------------------------------------------------
(* The invariant: of the parse structure, and of what the application is   *)
(* told.                                                                   *)

Fields ==
  /\ bufferLength \in uint16_t /\ bufferLength >= MMP_MINIMUM_BUFFER_LENGTH
  /\ state \in {"mmpFirstByte"} \cup SempRoutines \cup NmeaRoutines \cup UbloxRoutines
  /\ type \in 0 .. MMP_PROTOCOL_COUNT
  /\ crc \in CheckRegisters /\ scratchPad \in ScratchPads
  /\ length \in uint16_t /\ length <= bufferLength
  /\ declared = Unset \/ declared \in uint16_t
  /\ lengthBytes \in {0, 1}

Flags == computeCrc \in BOOLEAN /\ answer \in BOOLEAN

StructType == Fields /\ Flags

Owner ==
  /\ state \in SempRoutines => type = MMP_PROTOCOL.SEMP /\ computeCrc
  /\ state \in NmeaRoutines => type = MMP_PROTOCOL.NMEA /\ ~computeCrc
  /\ state \in UbloxRoutines => type = MMP_PROTOCOL.UBLOX /\ ~computeCrc

StateInv == StructType /\ Owner /\ Inv

ReportInv ==
  /\ out.len <= bufferLength
  /\ out.result # "none" => out.type = out.protocol
  /\ out.result = "delivered" /\ out.declared # Unset =>
       out.len = out.declared + (IF out.protocol = MMP_PROTOCOL.SEMP THEN 24 ELSE 8)
  /\ CheckCoversFrame

\* The numbers of the protocols, and the sets of routines apart from each other.
LEMMA Enum ==
  /\ MMP_PROTOCOL.SEMP = 0 /\ MMP_PROTOCOL.NMEA = 1 /\ MMP_PROTOCOL.UBLOX = 2
  /\ MMP_PROTOCOL["SEMP"] = 0 /\ MMP_PROTOCOL["NMEA"] = 1 /\ MMP_PROTOCOL["UBLOX"] = 2
  /\ MMP_PROTOCOL_COUNT = 8 /\ MMP_SEMP_HEADER = 20 /\ MMP_MINIMUM_BUFFER_LENGTH = 256
BY DEF MMP_PROTOCOL, MMP_PROTOCOL_COUNT, MMP_SEMP_HEADER, MMP_MINIMUM_BUFFER_LENGTH

\* A step that judges no frame tells the application nothing.
LEMMA SilentReport ==
  ASSUME StateInv, bufferLength' \in Nat, out' = NoFrame
  PROVE  ReportInv'
BY DEF NoFrame, ReportInv, CheckCoversFrame

\* A fresh scratch pad is one, with the counter of the name at zero or not.
LEMMA FreshPads ==
  /\ ScratchUnset \in ScratchPads
  /\ [ScratchUnset EXCEPT !.sentenceNameLength = 0] \in ScratchPads
  /\ [ScratchUnset EXCEPT !.sentenceNameLength = 0].sentenceNameLength = 0
BY Seeds DEF ScratchUnset, ScratchPads, Unset, SEMP_SENTENCE_NAME_BYTES

\* A byte is counted down and summed (mmpUbloxReadLength, mmpUbloxReadData).
LEMMA CountedPad ==
  ASSUME NEW n \in uint16_t, scratchPad \in ScratchPads,
         scratchPad' = [scratchPad EXCEPT !.bytesRemaining = n, !.checksum = @ + 1]
  PROVE  /\ scratchPad' \in ScratchPads /\ scratchPad'.bytesRemaining = n
         /\ scratchPad'.checksum = scratchPad.checksum + 1
<1>1. scratchPad.checksum + 1 \in Int BY DEF ScratchPads
<1>2. scratchPad'.bytesRemaining = n /\ scratchPad'.checksum = scratchPad.checksum + 1
  BY DEF ScratchPads
<1>. QED BY ZenonT(30), <1>1, <1>2 DEF ScratchPads

\* mmpFirstByte: the byte is claimed by SEMP, NMEA or u-blox, or by none.
LEMMA FirstByte ==
  ASSUME NEW data, mmpFirstByte(data)
  PROVE  /\ length' = 1 /\ declared' = Unset /\ UNCHANGED <<bufferLength, lengthBytes>>
         /\ \/ mmpSempPreamble /\ type' = 0 /\ answer' = TRUE
            \/ mmpNmeaPreamble /\ type' = 1 /\ answer' = TRUE
            \/ mmpUbloxPreamble /\ type' = 2 /\ answer' = TRUE
            \/ /\ state' = "mmpFirstByte" /\ type' = 8 /\ answer' = FALSE
               /\ computeCrc' = FALSE /\ crc' = CrcZero /\ scratchPad' = ScratchUnset
<1>1. /\ Len(mmp_parserTable) = 4 /\ mmp_parserTable[1] = "SEMP" /\ mmp_parserTable[2] = "NMEA"
      /\ mmp_parserTable[3] = "UBLOX" /\ mmp_parserTable[4] = "RTCM"
  BY DEF mmp_parserTable
<1>2. CASE \E i \in 1 .. Len(mmp_parserTable) :
             /\ type' = i - 1 /\ answer' = TRUE
             /\ \/ mmp_parserTable[i] = "SEMP" /\ mmpSempPreamble
                \/ mmp_parserTable[i] = "NMEA" /\ mmpNmeaPreamble
                \/ mmp_parserTable[i] = "UBLOX" /\ mmpUbloxPreamble
  BY <1>1, <1>2 DEF mmpFirstByte
<1>. QED BY ZenonT(30), <1>2, Enum DEF mmpFirstByte

\* In the search the invariant asks only for types (mmpFirstByte).
LEMMA IntoSearch ==
  ASSUME StructType', state' = "mmpFirstByte"
  PROVE  StateInv'
BY DEF StateInv, Owner, Inv, SempInv, NmeaInv, UbloxInv, SempRoutines, NmeaRoutines, UbloxRoutines

\* In a SEMP routine it asks for SempInv and the owner, ...
LEMMA IntoSemp ==
  ASSUME StructType', state' \in SempRoutines, type' = 0, computeCrc' = TRUE, SempInv'
  PROVE  StateInv'
BY Enum DEF StateInv, Owner, Inv, NmeaInv, UbloxInv, SempRoutines, NmeaRoutines, UbloxRoutines

\* ... in an NMEA routine for NmeaInv, ...
LEMMA IntoNmea ==
  ASSUME StructType', state' \in NmeaRoutines, type' = 1, computeCrc' = FALSE, NmeaInv'
  PROVE  StateInv'
BY Enum DEF StateInv, Owner, Inv, SempInv, UbloxInv, SempRoutines, NmeaRoutines, UbloxRoutines

\* ... in a u-blox routine for UbloxInv.
LEMMA IntoUblox ==
  ASSUME StructType', state' \in UbloxRoutines, type' = 2, computeCrc' = FALSE, UbloxInv'
  PROVE  StateInv'
BY Enum DEF StateInv, Owner, Inv, SempInv, NmeaInv, SempRoutines, NmeaRoutines, UbloxRoutines

\* mmpFirstByte starts a frame in good order, whatever was left behind.
LEMMA FirstByteStep ==
  ASSUME StateInv, NEW data, mmpFirstByte(data)
  PROVE  StateInv' /\ bufferLength' \in Nat
<1>. USE Enum
<1>0. /\ length' = 1 /\ declared' = Unset /\ bufferLength' = bufferLength
      /\ lengthBytes' = lengthBytes
  BY ZenonT(30), FirstByte
<1>1. bufferLength \in Nat BY Words DEF StateInv, StructType, Fields, Flags
<1>2. length' \in uint16_t /\ length' <= bufferLength'
  <2>1. 1 \in uint16_t BY Words, Modulus
  <2>2. bufferLength >= 256 BY DEF StateInv, StructType, Fields
  <2>. QED BY <1>0, <1>1, <2>1, <2>2
<1>3. /\ bufferLength' \in uint16_t /\ bufferLength' >= MMP_MINIMUM_BUFFER_LENGTH
      /\ lengthBytes' \in {0, 1} /\ declared' = Unset
  BY <1>0 DEF StateInv, StructType, Fields, Flags
<1>4. CASE mmpSempPreamble /\ type' = 0 /\ answer' = TRUE
  <2>1. crc' \in CheckRegisters /\ crc'.cover = 1
    BY <1>4, Seeds, Registers DEF mmpSempPreamble
  <2>2. Fields'
    BY <1>2, <1>3, <1>4, <2>1, FreshPads DEF Fields, mmpSempPreamble, SempRoutines
  <2>4. Flags' BY <1>4, ZenonT(30) DEF Flags, mmpSempPreamble
  <2>3. SempInv' BY <1>0, <1>4, <2>1 DEF SempInv, mmpSempPreamble
  <2>. QED BY <1>0, <1>1, <1>4, <2>2, <2>3, <2>4, IntoSemp DEF StructType, mmpSempPreamble, SempRoutines
<1>5. CASE mmpNmeaPreamble /\ type' = 1 /\ answer' = TRUE
  <2>1. crc' \in CheckRegisters /\ crc'.cover = 0 BY <1>5, Seeds DEF mmpNmeaPreamble
  <2>2. scratchPad' \in ScratchPads /\ scratchPad'.sentenceNameLength = 0
    BY <1>5, FreshPads DEF mmpNmeaPreamble
  <2>3. Fields'
    BY <1>2, <1>3, <1>5, <2>1, <2>2 DEF Fields, mmpNmeaPreamble, NmeaRoutines
  <2>4. Flags' BY <1>5, ZenonT(30) DEF Flags, mmpNmeaPreamble
  <2>5. state' = "mmpNmeaFindFirstComma" BY <1>5 DEF mmpNmeaPreamble
  <2>6. NmeaInv' BY <1>0, <2>1, <2>2, <2>5 DEF NmeaInv
  <2>. QED BY ZenonT(30), <1>0, <1>1, <1>5, <2>3, <2>4, <2>6, IntoNmea DEF StructType, mmpNmeaPreamble, NmeaRoutines
<1>6. CASE mmpUbloxPreamble /\ type' = 2 /\ answer' = TRUE
  <2>1. Fields'
    BY <1>2, <1>3, <1>6, Seeds, FreshPads DEF Fields, mmpUbloxPreamble, UbloxRoutines
  <2>2. Flags' BY <1>6, ZenonT(30) DEF Flags, mmpUbloxPreamble
  <2>3. UbloxInv' BY <1>0, <1>6 DEF UbloxInv, mmpUbloxPreamble
  <2>. QED BY ZenonT(30), <1>0, <1>1, <1>6, <2>1, <2>2, <2>3, IntoUblox DEF StructType, mmpUbloxPreamble, UbloxRoutines
<1>7. CASE /\ state' = "mmpFirstByte" /\ type' = 8 /\ answer' = FALSE
           /\ computeCrc' = FALSE /\ crc' = CrcZero /\ scratchPad' = ScratchUnset
  <2>1. Fields' BY <1>2, <1>3, <1>7, Seeds, FreshPads DEF Fields
  <2>2. Flags' BY <1>7, ZenonT(30) DEF Flags
  <2>. QED BY <1>0, <1>1, <1>7, <2>1, <2>2, IntoSearch DEF StructType
<1>. QED BY ZenonT(30), <1>4, <1>5, <1>6, <1>7, FirstByte

\* A byte that is given back to the search ends the frame without a report.
LEMMA RestartStep ==
  ASSUME StateInv, NEW data, Restart(data)
  PROVE  StateInv' /\ ReportInv'
BY FirstByteStep, SilentReport DEF Restart

\* A step within the frame: one more byte is in the buffer, nothing is told.
LEMMA GoStep ==
  ASSUME StateInv, HasRoom, NEW r, Go(r)
  PROVE  /\ bufferLength \in Nat /\ length \in Nat /\ length + 1 <= bufferLength
         /\ length' = length + 1 /\ length' \in uint16_t /\ length' <= bufferLength'
         /\ bufferLength' = bufferLength
         /\ bufferLength' \in uint16_t /\ bufferLength' >= MMP_MINIMUM_BUFFER_LENGTH
         /\ type' = type /\ type' \in 0 .. MMP_PROTOCOL_COUNT
         /\ computeCrc' = computeCrc /\ computeCrc' \in BOOLEAN
         /\ state' = r /\ answer' \in BOOLEAN
         /\ ReportInv'
<1>1. bufferLength \in Nat /\ length \in Nat /\ bufferLength < UINT16 BY Words DEF StateInv, StructType, Fields, Flags
<1>2. length < bufferLength /\ length' = length + 1 /\ bufferLength' = bufferLength
  BY DEF HasRoom, Go
<1>3. length' \in uint16_t BY <1>1, <1>2, Words, Modulus
<1>4. ReportInv' BY <1>1, SilentReport DEF Go
<1>. QED BY <1>1, <1>2, <1>3, <1>4 DEF Go, StateInv, StructType, Fields, Flags

\* Such a step keeps the types if the routine's own assignments do.
LEMMA GoTypes ==
  ASSUME StateInv, HasRoom, NEW r \in SempRoutines \cup NmeaRoutines \cup UbloxRoutines, Go(r),
         crc' \in CheckRegisters, scratchPad' \in ScratchPads,
         declared' = Unset \/ declared' \in uint16_t, lengthBytes' \in {0, 1}
  PROVE  StructType'
<1>1. Fields' BY GoStep DEF Fields
<1>2. Flags' BY GoStep, ZenonT(30) DEF Flags
<1>. QED BY <1>1, <1>2 DEF StructType

\* The frame is over: whatever was judged, the parser searches again.
LEMMA EndStep ==
  ASSUME StateInv, HasRoom, NEW verdict, End(verdict), scratchPad' \in ScratchPads
  PROVE  StateInv' /\ bufferLength' = bufferLength /\ bufferLength \in Nat /\ length \in Nat
         /\ length + 1 <= bufferLength /\ out' = verdict
<1>1. bufferLength \in Nat /\ length \in Nat /\ bufferLength < UINT16 BY Words DEF StateInv, StructType, Fields, Flags
<1>2. length < bufferLength /\ length' = length + 1 /\ bufferLength' = bufferLength
  BY DEF HasRoom, End
<1>3. length' \in uint16_t BY <1>1, <1>2, Words, Modulus
<1>4. crc' \in CheckRegisters BY Registers DEF End, Computed, StateInv, StructType, Fields, Flags
<1>5. Fields' BY <1>1, <1>2, <1>3, <1>4 DEF End, StateInv, StructType, Fields
<1>6. Flags' BY ZenonT(30) DEF End, StateInv, StructType, Flags
<1>. QED BY <1>1, <1>2, <1>5, <1>6, IntoSearch DEF End, StructType

\* A frame that ends unjudged (a header of the wrong length) is not told.
LEMMA SilentEnd ==
  ASSUME StateInv, HasRoom, End(NoFrame), UNCHANGED scratchPad
  PROVE  StateInv' /\ ReportInv'
<1>1. scratchPad' \in ScratchPads BY DEF StateInv, StructType, Fields, Flags
<1>. QED BY <1>1, EndStep, SilentReport

-----------------------------------------------------------------------------
(* SEMP.                                                                   *)

\* In a SEMP frame the CRC routine takes every byte (mmpProcessByte).
LEMMA Computing ==
  ASSUME StateInv, state \in SempRoutines
  PROVE  /\ type = 0 /\ computeCrc = TRUE
         /\ Computed \in CheckRegisters /\ Computed.cover = crc.cover + 1
         /\ crc.cover \in Nat
         /\ Complement(Computed) \in CheckRegisters
         /\ Complement(Computed).inverted = crc.cover + 1
<1>1. crc \in CheckRegisters /\ computeCrc /\ type = 0 BY Enum DEF StateInv, StructType, Fields, Flags, Owner
<1>2. Computed = Absorb(crc) BY <1>1 DEF Computed
<1>3. computeCrc = TRUE BY <1>1 DEF StateInv, StructType, Fields, Flags
<1>. QED BY <1>1, <1>2, <1>3, Registers

\* The second and third sync byte of a SEMP header (mmpSempSync2, mmpSempSync3).
LEMMA SempSyncStep ==
  ASSUME StateInv, NEW data,
         \/ mmpSempSync("mmpSempSync2", "mmpSempSync3", 68, data)
         \/ mmpSempSync("mmpSempSync3", "mmpSempReadHeader", 24, data)
  PROVE  StateInv' /\ ReportInv'
<1>1. CASE Restart(data) BY <1>1, RestartStep
<1>2. ASSUME NEW r, NEW next, r \in SempRoutines, In(r), Go(next), next \in SempRoutines,
             crc' = Computed, UNCHANGED <<scratchPad, declared, lengthBytes>>
      PROVE  StructType' /\ ReportInv' /\ length' = length + 1
             /\ type' = 0 /\ computeCrc' = TRUE /\ state' = next /\ crc'.cover = crc.cover + 1
  <2>. state = r /\ HasRoom BY <1>2 DEF In
  <2>1. /\ crc' \in CheckRegisters /\ scratchPad' \in ScratchPads
        /\ (declared' = Unset \/ declared' \in uint16_t) /\ lengthBytes' \in {0, 1}
    BY ZenonT(30), <1>2, Computing DEF StateInv, StructType, Fields
  <2>2. StructType' BY <1>2, <2>1, GoTypes
  <2>3. length' = length + 1 /\ type' = type /\ computeCrc' = computeCrc /\ state' = next /\ ReportInv'
    BY <1>2, GoStep
  <2>. QED BY <1>2, <2>2, <2>3, Computing
<1>3. CASE /\ In("mmpSempSync2") /\ Go("mmpSempSync3") /\ crc' = Computed
           /\ UNCHANGED <<scratchPad, declared, lengthBytes>>
  <2>1. length = 1 /\ crc.cover = 1 BY <1>3 DEF In, StateInv, Inv, SempInv
  <2>2. "mmpSempSync2" \in SempRoutines /\ "mmpSempSync3" \in SempRoutines BY DEF SempRoutines
  <2>3. /\ StructType' /\ ReportInv' /\ length' = length + 1 /\ type' = 0 /\ computeCrc' = TRUE
        /\ state' = "mmpSempSync3" /\ crc'.cover = crc.cover + 1
    BY <1>2, <1>3, <2>2, ZenonT(30)
  <2>4. SempInv' BY <2>1, <2>3 DEF SempInv
  <2>. QED BY <2>2, <2>3, <2>4, IntoSemp
<1>4. CASE /\ In("mmpSempSync3") /\ Go("mmpSempReadHeader") /\ crc' = Computed
           /\ UNCHANGED <<scratchPad, declared, lengthBytes>>
  <2>1. length = 2 /\ crc.cover = 2 BY <1>4 DEF In, StateInv, Inv, SempInv
  <2>2. "mmpSempSync3" \in SempRoutines /\ "mmpSempReadHeader" \in SempRoutines BY DEF SempRoutines
  <2>3. /\ StructType' /\ ReportInv' /\ length' = length + 1 /\ type' = 0 /\ computeCrc' = TRUE
        /\ state' = "mmpSempReadHeader" /\ crc'.cover = crc.cover + 1
    BY <1>2, <1>4, <2>2, ZenonT(30)
  <2>4. SempInv' BY <2>1, <2>3, Enum DEF SempInv
  <2>. QED BY <2>2, <2>3, <2>4, IntoSemp
<1>. QED BY <1>1, <1>3, <1>4 DEF mmpSempSync

\* The register is complemented when the data are complete, and covers them.
LEMMA ExpectCrcStep ==
  ASSUME StateInv, HasRoom, state \in SempRoutines, ExpectCrc,
         declared' \in MessageLengths, crc.cover = length, length + 1 = 20 + declared'
  PROVE  StateInv' /\ ReportInv'
<1>1. declared' \in uint16_t BY MultiLengths
<1>2. declared' \in Nat /\ length \in Nat BY <1>1, Words DEF StateInv, StructType, Fields, Flags
<1>3. /\ scratchPad' \in ScratchPads /\ scratchPad'.bytesRemaining = 4
      /\ scratchPad'.crc.inverted = length + 1
  <2>1. 4 \in uint16_t BY Words, Modulus
  <2>. QED BY ZenonT(30), <2>1, Computing DEF ExpectCrc, StateInv, StructType, Fields, Flags, ScratchPads
<1>4. Go("mmpSempReadCrc") /\ crc' \in CheckRegisters /\ lengthBytes' = lengthBytes
  BY Computing DEF ExpectCrc
<1>5. StructType'
  <2>1. lengthBytes' \in {0, 1} BY <1>4 DEF StateInv, StructType, Fields
  <2>. QED BY <1>1, <1>3, <1>4, <2>1, GoTypes DEF SempRoutines
<1>6. state' = "mmpSempReadCrc" /\ length' = length + 1 /\ ReportInv' /\ type' = 0 /\ computeCrc' = TRUE
  BY ZenonT(30), <1>4, GoStep, Computing
<1>7. SempInv'
  <2>1. state' = "mmpSempReadCrc" /\ length' = length + 1 BY <1>6
  <2>2. scratchPad'.bytesRemaining + length' = 20 + declared' + 4 BY <1>2, <1>3, <2>1
  <2>3. scratchPad'.crc.inverted = 20 + declared' BY <1>3
  <2>. QED BY <1>3, <2>1, <2>2, <2>3, Enum DEF SempInv
<1>. QED BY <1>5, <1>6, <1>7, IntoSemp DEF SempRoutines

\* mmpSempReadHeader: twenty bytes, the last two of which are the length.
LEMMA SempHeaderStep ==
  ASSUME StateInv, mmpSempReadHeader
  PROVE  StateInv' /\ ReportInv'
<1>1. state = "mmpSempReadHeader" /\ HasRoom /\ state \in SempRoutines
  BY DEF mmpSempReadHeader, In, SempRoutines
<1>2. length \in 3 .. 19 /\ crc.cover = length BY <1>1, Enum DEF StateInv, Inv, SempInv
<1>3. CASE /\ length + 1 < 20 /\ Go("mmpSempReadHeader") /\ crc' = Computed
           /\ UNCHANGED <<scratchPad, declared, lengthBytes>>
  <2>1. StructType'
    <3>1. /\ crc' \in CheckRegisters /\ scratchPad' \in ScratchPads
          /\ (declared' = Unset \/ declared' \in uint16_t) /\ lengthBytes' \in {0, 1}
      BY ZenonT(30), <1>1, <1>3, Computing DEF StateInv, StructType, Fields
    <3>. QED BY <1>1, <1>3, <3>1, GoTypes DEF SempRoutines
  <2>2. /\ state' = "mmpSempReadHeader" /\ length' = length + 1 /\ ReportInv' /\ type' = 0
        /\ computeCrc' = TRUE /\ crc'.cover = crc.cover + 1
    BY ZenonT(30), <1>1, <1>3, GoStep, Computing
  <2>3. SempInv' BY <1>2, <1>3, <2>2, Enum DEF SempInv
  <2>. QED BY <2>1, <2>2, <2>3, IntoSemp DEF SempRoutines
<1>4. CASE length + 1 >= 20 /\ mmpSempHeaderComplete
  <2>1. declared' \in uint16_t /\ declared' \in Nat /\ declared' \in MessageLengths
    BY <1>4, MultiLengths, Words DEF mmpSempHeaderComplete
  <2>2. CASE declared' = 0 /\ ExpectCrc
    BY <1>1, <1>2, <1>4, <2>1, <2>2, ExpectCrcStep
  <2>3. CASE /\ declared' # 0
             /\ Go("mmpSempReadData") /\ crc' = Computed
             /\ scratchPad' = [scratchPad EXCEPT !.bytesRemaining = declared']
             /\ UNCHANGED lengthBytes
    <3>1. scratchPad' \in ScratchPads /\ scratchPad'.bytesRemaining = declared'
      BY <2>1, <2>3 DEF StateInv, StructType, Fields, Flags, ScratchPads
    <3>2. StructType'
      <4>1. crc' \in CheckRegisters /\ lengthBytes' \in {0, 1}
        BY ZenonT(30), <1>1, <2>3, Computing DEF StateInv, StructType, Fields
      <4>. QED BY <1>1, <2>1, <2>3, <3>1, <4>1, GoTypes DEF SempRoutines
    <3>3. /\ state' = "mmpSempReadData" /\ length' = length + 1 /\ ReportInv' /\ type' = 0
          /\ computeCrc' = TRUE /\ crc'.cover = crc.cover + 1
      BY ZenonT(30), <1>1, <2>3, GoStep, Computing
    <3>4. SempInv' BY <1>2, <1>4, <2>1, <2>3, <3>1, <3>3, Enum DEF SempInv
    <3>. QED BY <3>2, <3>3, <3>4, IntoSemp DEF SempRoutines
  <2>. QED BY <1>4, <2>2, <2>3 DEF mmpSempHeaderComplete
<1>5. CASE End(NoFrame) /\ UNCHANGED scratchPad
  BY <1>1, <1>5, SilentEnd
<1>. QED BY <1>3, <1>4, <1>5, Enum DEF mmpSempReadHeader

\* mmpSempReadData: the counter reaches zero with the last byte of the data.
LEMMA SempDataStep ==
  ASSUME StateInv, mmpSempReadData
  PROVE  StateInv' /\ ReportInv'
<1>. DEFINE left == Decrement(scratchPad.bytesRemaining, UINT16)
<1>1. state = "mmpSempReadData" /\ HasRoom /\ state \in SempRoutines /\ declared' = declared
  BY DEF mmpSempReadData, In, SempRoutines
<1>2. /\ declared \in MessageLengths /\ scratchPad.bytesRemaining \in 1 .. declared
      /\ scratchPad.bytesRemaining + length = 20 + declared /\ crc.cover = length
  BY <1>1, Enum DEF StateInv, Inv, SempInv
<1>3. declared \in uint16_t /\ declared \in Nat /\ length \in Nat
  BY <1>2, MultiLengths, Words DEF StateInv, StructType, Fields, Flags
<1>4. scratchPad.bytesRemaining \in uint16_t /\ scratchPad.bytesRemaining > 0
  BY <1>2, <1>3, Words, Modulus
<1>5. left = scratchPad.bytesRemaining - 1 /\ left \in uint16_t BY <1>4, Counting
<1>. HIDE DEF left
<1>6. CASE left = 0 /\ ExpectCrc
  BY <1>1, <1>2, <1>3, <1>5, <1>6, ExpectCrcStep
<1>7. CASE /\ left # 0 /\ Go("mmpSempReadData") /\ crc' = Computed
           /\ scratchPad' = [scratchPad EXCEPT !.bytesRemaining = left]
           /\ UNCHANGED lengthBytes
  <2>1. scratchPad' \in ScratchPads /\ scratchPad'.bytesRemaining = left
    BY <1>5, <1>7 DEF StateInv, StructType, Fields, Flags, ScratchPads
  <2>2. StructType'
    <3>1. crc' \in CheckRegisters /\ lengthBytes' \in {0, 1} /\ declared' \in uint16_t
      BY ZenonT(30), <1>1, <1>3, <1>7, Computing DEF StateInv, StructType, Fields
    <3>. QED BY <1>1, <1>7, <2>1, <3>1, GoTypes DEF SempRoutines
  <2>3. /\ state' = "mmpSempReadData" /\ length' = length + 1 /\ ReportInv' /\ type' = 0
        /\ computeCrc' = TRUE /\ crc'.cover = crc.cover + 1
    BY ZenonT(30), <1>1, <1>7, GoStep, Computing
  <2>4. SempInv' BY <1>1, <1>2, <1>3, <1>5, <1>7, <2>1, <2>3, Enum DEF SempInv
  <2>. QED BY <2>2, <2>3, <2>4, IntoSemp DEF SempRoutines
<1>. QED BY <1>6, <1>7 DEF mmpSempReadData, left

\* mmpSempReadCrc: four bytes, and the verdict on what the saved register covers.
LEMMA SempCrcStep ==
  ASSUME StateInv, NEW equal \in BOOLEAN, mmpSempReadCrc(equal)
  PROVE  StateInv' /\ ReportInv'
<1>. DEFINE left == Decrement(scratchPad.bytesRemaining, UINT16)
<1>1. state = "mmpSempReadCrc" /\ HasRoom /\ state \in SempRoutines
  BY DEF mmpSempReadCrc, In, SempRoutines
<1>2. /\ declared \in MessageLengths /\ scratchPad.bytesRemaining \in 1 .. 4
      /\ scratchPad.bytesRemaining + length = 24 + declared
      /\ scratchPad.crc.inverted = 20 + declared
  <2>1. scratchPad.bytesRemaining + length = 20 + declared + 4
    BY <1>1, Enum DEF StateInv, Inv, SempInv
  <2>2. declared \in MessageLengths /\ scratchPad.crc.inverted = 20 + declared
        /\ scratchPad.bytesRemaining \in 1 .. 4
    BY <1>1, Enum DEF StateInv, Inv, SempInv
  <2>3. declared \in Nat BY <2>2, MultiLengths, Words
  <2>. QED BY <2>1, <2>2, <2>3
<1>3. declared \in uint16_t /\ declared \in Nat /\ length \in Nat
  BY <1>2, MultiLengths, Words DEF StateInv, StructType, Fields, Flags
<1>4. scratchPad.bytesRemaining \in uint16_t /\ scratchPad.bytesRemaining > 0
  BY <1>2, Words, Modulus
<1>5. left = scratchPad.bytesRemaining - 1 /\ left \in uint16_t BY <1>4, Counting
<1>. HIDE DEF left
<1>6. scratchPad' = [scratchPad EXCEPT !.bytesRemaining = left] BY DEF mmpSempReadCrc, left
<1>7. /\ scratchPad' \in ScratchPads /\ scratchPad'.bytesRemaining = left
      /\ scratchPad'.crc = scratchPad.crc
  BY <1>5, <1>6 DEF StateInv, StructType, Fields, Flags, ScratchPads
<1>8. CASE /\ left # 0 /\ Go("mmpSempReadCrc") /\ crc' = Computed
           /\ UNCHANGED <<declared, lengthBytes>>
  <2>1. StructType'
    <3>1. crc' \in CheckRegisters /\ lengthBytes' \in {0, 1} /\ declared' \in uint16_t
      BY ZenonT(30), <1>1, <1>3, <1>8, Computing DEF StateInv, StructType, Fields
    <3>. QED BY <1>1, <1>7, <1>8, <3>1, GoTypes DEF SempRoutines
  <2>2. state' = "mmpSempReadCrc" /\ length' = length + 1 /\ ReportInv' /\ type' = 0 /\ computeCrc' = TRUE
    BY ZenonT(30), <1>1, <1>8, GoStep, Computing
  <2>3. SempInv' BY <1>2, <1>3, <1>5, <1>7, <1>8, <2>2, Enum DEF SempInv
  <2>. QED BY <2>1, <2>2, <2>3, IntoSemp DEF SempRoutines
<1>9. CASE left = 0 /\ End(Judged("SEMP", equal, equal, length + 1, scratchPad.crc.inverted))
  <2>. DEFINE v == Judged("SEMP", equal, equal, length + 1, scratchPad.crc.inverted)
  <2>1. /\ StateInv' /\ bufferLength' = bufferLength /\ bufferLength \in Nat
        /\ length + 1 <= bufferLength /\ out' = v
    BY <1>1, <1>7, <1>9, EndStep
  <2>2. /\ v.protocol = 0 /\ v.type = 0 /\ v.len = length + 1 /\ v.covered = 20 + declared
        /\ v.declared = declared
    BY <1>1, <1>2, Computing, Enum DEF Judged
  <2>3. length + 1 = 24 + declared BY <1>2, <1>3, <1>5, <1>9
  <2>. HIDE DEF v
  <2>4. ReportInv' BY <1>3, <2>1, <2>2, <2>3, Enum DEF ReportInv, CheckCoversFrame
  <2>. QED BY <2>1, <2>4
<1>. QED BY <1>8, <1>9 DEF mmpSempReadCrc, left

-----------------------------------------------------------------------------
(* NMEA.                                                                   *)

\* In an NMEA sentence no CRC routine runs, and no length was declared.
LEMMA InSentence ==
  ASSUME StateInv, state \in NmeaRoutines
  PROVE  /\ type = 1 /\ computeCrc = FALSE /\ declared = Unset
         /\ Absorb(crc) \in CheckRegisters /\ Absorb(crc).cover = crc.cover + 1
         /\ crc.cover \in Nat /\ crc \in CheckRegisters
<1>1. crc \in CheckRegisters /\ ~computeCrc /\ type = 1 BY Enum DEF StateInv, StructType, Fields, Flags, Owner
<1>2. computeCrc = FALSE BY <1>1 DEF StateInv, StructType, Fields, Flags
<1>. QED BY <1>1, <1>2, Registers DEF StateInv, Inv, NmeaInv

\* A byte of the sentence: what NmeaInv says of the next routine is left to show.
LEMMA NmeaGo ==
  ASSUME StateInv, NEW r \in NmeaRoutines, NEW next \in NmeaRoutines, In(r), Go(next),
         crc' \in {crc, Absorb(crc)}, scratchPad' \in ScratchPads,
         UNCHANGED <<declared, lengthBytes>>,
         NmeaInv'
  PROVE  StateInv' /\ ReportInv'
<1>1. state \in NmeaRoutines /\ HasRoom BY DEF In
<1>2. crc' \in CheckRegisters /\ declared' = Unset /\ lengthBytes' \in {0, 1}
  BY ZenonT(30), <1>1, InSentence DEF StateInv, StructType, Fields
<1>3. StructType' BY <1>1, <1>2, GoTypes
<1>4. type' = 1 /\ computeCrc' = FALSE /\ state' = next /\ ReportInv' BY ZenonT(30), <1>1, GoStep, InSentence
<1>. QED BY ZenonT(30), <1>3, <1>4, IntoNmea

\* mmpNmeaFindFirstComma: the name is counted, and at most fifteen long.
LEMMA NmeaNameStep ==
  ASSUME StateInv, NEW data, mmpNmeaFindFirstComma(data)
  PROVE  StateInv' /\ ReportInv'
<1>. DEFINE named == scratchPad.sentenceNameLength
<1>1. In("mmpNmeaFindFirstComma") /\ HasRoom /\ state = "mmpNmeaFindFirstComma" /\ state \in NmeaRoutines
  BY DEF mmpNmeaFindFirstComma, In, NmeaRoutines
<1>2. named >= 0 /\ length = 1 + named /\ crc.cover = length - 1
  BY <1>1 DEF StateInv, Inv, NmeaInv
<1>3. named \in Int /\ named <= 15 /\ scratchPad \in ScratchPads
  BY DEF StateInv, StructType, Fields, Flags, ScratchPads, SEMP_SENTENCE_NAME_BYTES, Unset
<1>4. bufferLength \in Nat /\ bufferLength >= 256 BY Enum, Words DEF StateInv, StructType, Fields, Flags
<1>5. CASE mmpNmeaNameComma(data)
  <2>1. /\ Go("mmpNmeaFindAsterisk") /\ crc' = Absorb(crc)
        /\ UNCHANGED <<scratchPad, declared, lengthBytes>>
    BY <1>5 DEF mmpNmeaNameComma
  <2>2. /\ state' = "mmpNmeaFindAsterisk" /\ length' = length + 1 /\ bufferLength' = bufferLength
        /\ crc'.cover = crc.cover + 1 /\ declared' = Unset
    BY ZenonT(30), <1>1, <2>1, GoStep, InSentence
  <2>3. NmeaInv' BY <1>2, <1>3, <1>4, <2>2 DEF NmeaInv
  <2>. QED BY <1>1, <1>3, <2>1, <2>3, NmeaGo DEF NmeaRoutines
<1>6. CASE Restart(data) BY <1>6, RestartStep
<1>7. CASE /\ named < SEMP_SENTENCE_NAME_BYTES - 1
           /\ Go("mmpNmeaFindFirstComma") /\ crc' = Absorb(crc)
           /\ scratchPad' = [scratchPad EXCEPT !.sentenceNameLength = @ + 1]
           /\ UNCHANGED <<declared, lengthBytes>>
  <2>1. named + 1 \in Unset .. SEMP_SENTENCE_NAME_BYTES - 1
    BY <1>2, <1>3, <1>7 DEF SEMP_SENTENCE_NAME_BYTES, Unset
  <2>2. scratchPad' \in ScratchPads /\ scratchPad'.sentenceNameLength = named + 1
    BY <1>3, <1>7, <2>1 DEF ScratchPads
  <2>3. /\ state' = "mmpNmeaFindFirstComma" /\ length' = length + 1
        /\ crc'.cover = crc.cover + 1 /\ declared' = Unset
    BY ZenonT(30), <1>1, <1>7, GoStep, InSentence
  <2>4. NmeaInv' BY <1>2, <1>3, <2>2, <2>3 DEF NmeaInv
  <2>. QED BY <1>1, <1>7, <2>2, <2>4, NmeaGo DEF NmeaRoutines
<1>. QED BY <1>5, <1>6, <1>7 DEF mmpNmeaFindFirstComma

\* mmpNmeaFindAsterisk: a byte is taken only while the rest of a sentence fits.
LEMMA NmeaAsteriskStep ==
  ASSUME StateInv, NEW data, mmpNmeaFindAsterisk(data)
  PROVE  StateInv' /\ ReportInv'
<1>1. In("mmpNmeaFindAsterisk") /\ HasRoom /\ state = "mmpNmeaFindAsterisk" /\ state \in NmeaRoutines
  BY DEF mmpNmeaFindAsterisk, In, NmeaRoutines
<1>2. length + 5 <= bufferLength /\ crc.cover = length - 1 /\ scratchPad \in ScratchPads
  BY <1>1 DEF StateInv, StructType, Fields, Flags, Inv, NmeaInv
<1>3. CASE Uncovered("mmpNmeaChecksumByte1")
  <2>1. Go("mmpNmeaChecksumByte1") /\ UNCHANGED <<crc, scratchPad, declared, lengthBytes>>
    BY <1>3 DEF Uncovered
  <2>2. /\ state' = "mmpNmeaChecksumByte1" /\ length' = length + 1 /\ bufferLength' = bufferLength
        /\ length \in Nat /\ bufferLength \in Nat /\ declared' = Unset
    BY ZenonT(30), <1>1, <2>1, GoStep, InSentence
  <2>3. NmeaInv' BY <1>2, <2>1, <2>2 DEF NmeaInv
  <2>. QED BY <1>1, <1>2, <2>1, <2>3, NmeaGo DEF NmeaRoutines
<1>4. CASE Restart(data) BY <1>4, RestartStep
<1>5. CASE /\ length + 1 + 5 <= bufferLength /\ Go("mmpNmeaFindAsterisk") /\ crc' = Absorb(crc)
           /\ UNCHANGED <<scratchPad, declared, lengthBytes>>
  <2>1. /\ state' = "mmpNmeaFindAsterisk" /\ length' = length + 1 /\ bufferLength' = bufferLength
        /\ length \in Nat /\ bufferLength \in Nat /\ crc'.cover = crc.cover + 1 /\ declared' = Unset
    BY ZenonT(30), <1>1, <1>5, GoStep, InSentence
  <2>2. NmeaInv' BY <1>2, <1>5, <2>1 DEF NmeaInv
  <2>. QED BY <1>1, <1>2, <1>5, <2>2, NmeaGo DEF NmeaRoutines
<1>. QED BY <1>3, <1>4, <1>5 DEF mmpNmeaFindAsterisk

\* The two digits of the checksum (mmpNmeaChecksumByte1, mmpNmeaChecksumByte2).
LEMMA NmeaDigitStep ==
  ASSUME StateInv, NEW data,
         \/ mmpNmeaChecksumByte("mmpNmeaChecksumByte1", "mmpNmeaChecksumByte2", data)
         \/ mmpNmeaChecksumByte("mmpNmeaChecksumByte2", "mmpNmeaLineTermination", data)
  PROVE  StateInv' /\ ReportInv'
<1>1. CASE Restart(data) BY <1>1, RestartStep
<1>2. ASSUME NEW r \in NmeaRoutines, NEW next \in NmeaRoutines, In(r), Uncovered(next),
             NmeaInv'
      PROVE  StateInv' /\ ReportInv'
  <2>1. Go(next) /\ UNCHANGED <<crc, scratchPad, declared, lengthBytes>> BY <1>2 DEF Uncovered
  <2>2. scratchPad' \in ScratchPads BY <2>1 DEF StateInv, StructType, Fields, Flags
  <2>. QED BY <1>2, <2>1, <2>2, NmeaGo
<1>3. ASSUME NEW r \in NmeaRoutines, NEW next, In(r), Uncovered(next)
      PROVE  /\ state' = next /\ length' = length + 1 /\ bufferLength' = bufferLength
             /\ length \in Nat /\ bufferLength \in Nat /\ declared' = Unset /\ crc' = crc
             /\ crc.cover \in Nat
  BY ZenonT(30), <1>3, GoStep, InSentence DEF In, Uncovered
<1>4. CASE In("mmpNmeaChecksumByte1") /\ Uncovered("mmpNmeaChecksumByte2")
  <2>1. length + 4 <= bufferLength /\ crc.cover = length - 2
    BY <1>4 DEF In, StateInv, Inv, NmeaInv
  <2>2. NmeaInv' BY <1>3, <1>4, <2>1 DEF NmeaInv, NmeaRoutines
  <2>. QED BY <1>2, <1>4, <2>2 DEF NmeaRoutines
<1>5. CASE In("mmpNmeaChecksumByte2") /\ Uncovered("mmpNmeaLineTermination")
  <2>1. length + 3 <= bufferLength /\ crc.cover = length - 3
    BY <1>5 DEF In, StateInv, Inv, NmeaInv
  <2>2. NmeaInv' BY <1>3, <1>5, <2>1 DEF NmeaInv, NmeaRoutines
  <2>. QED BY <1>2, <1>5, <2>2 DEF NmeaRoutines
<1>. QED BY <1>1, <1>4, <1>5 DEF mmpNmeaChecksumByte

\* mmpNmeaLineTermination: the line end is appended where room was kept for it, and
\* the byte in hand is dropped or searched.
LEMMA NmeaEndStep ==
  ASSUME StateInv, NEW data, NEW equal \in BOOLEAN, NEW answeredFalse \in BOOLEAN,
         mmpNmeaLineTermination(data, equal, answeredFalse)
  PROVE  StateInv' /\ ReportInv'
<1>. DEFINE accepted == equal \/ answeredFalse
            v == mmpNmeaValidateChecksum(equal, answeredFalse)
<1>1. /\ HasRoom /\ state = "mmpNmeaLineTermination" /\ state \in NmeaRoutines
      /\ out' = v
  BY DEF mmpNmeaLineTermination, In, NmeaRoutines
<1>2. length + 2 <= bufferLength /\ crc.cover = length - 4 BY <1>1 DEF StateInv, Inv, NmeaInv
<1>3. length \in Nat /\ bufferLength \in Nat /\ bufferLength < UINT16 /\ length + 2 < UINT16
      /\ length < UINT16
  BY <1>2, Words, Modulus DEF StateInv, StructType, Fields, Flags
<1>4. /\ v.protocol = 1 /\ v.type = 1 /\ v.covered = length - 4 /\ v.declared = Unset
      /\ v.result = (IF accepted THEN "delivered" ELSE "error")
      /\ v.len = length + (IF accepted THEN 2 ELSE 0)
  BY <1>1, <1>2, InSentence, Enum DEF mmpNmeaValidateChecksum, Judged
<1>. HIDE DEF v, accepted
<1>5. /\ v.len \in uint16_t /\ v.len <= bufferLength
      /\ v.result = "delivered" => v.len = length + 2
  BY <1>2, <1>3, <1>4, Words
<1>6. ASSUME bufferLength' = bufferLength PROVE ReportInv'
  BY <1>1, <1>3, <1>4, <1>5, <1>6, Enum DEF ReportInv, CheckCoversFrame
<1>7. CASE /\ state' = "mmpFirstByte" /\ length' = out'.len /\ answer' = TRUE
           /\ UNCHANGED <<bufferLength, type, computeCrc, crc, scratchPad, declared, lengthBytes>>
  <2>1. Fields' BY <1>1, <1>5, <1>7 DEF StateInv, StructType, Fields
  <2>2. Flags' BY <1>7, ZenonT(30) DEF StateInv, StructType, Flags
  <2>. QED BY <1>6, <1>7, <2>1, <2>2, IntoSearch DEF StructType
<1>8. CASE mmpFirstByte(data)
  BY ZenonT(30), <1>6, <1>8, FirstByte, FirstByteStep
<1>. QED BY ZenonT(30), <1>7, <1>8 DEF mmpNmeaLineTermination

-----------------------------------------------------------------------------
(* u-blox.                                                                 *)

\* A byte of a u-blox frame: what UbloxInv says of the next routine is left to show.
LEMMA UbloxGo ==
  ASSUME StateInv, NEW r \in UbloxRoutines, NEW next \in UbloxRoutines, In(r), Go(next),
         UNCHANGED crc, scratchPad' \in ScratchPads, declared' = Unset \/ declared' \in uint16_t,
         lengthBytes' \in {0, 1}, UbloxInv'
  PROVE  StateInv' /\ ReportInv'
<1>1. state \in UbloxRoutines /\ HasRoom BY DEF In
<1>2. type = 2 /\ computeCrc = FALSE /\ crc' \in CheckRegisters
  BY <1>1, Enum DEF StateInv, StructType, Fields, Flags, Owner
<1>3. StructType' BY <1>1, <1>2, GoTypes
<1>4. type' = 2 /\ computeCrc' = FALSE /\ state' = next /\ ReportInv' BY <1>1, <1>2, GoStep
<1>. QED BY ZenonT(30), <1>3, <1>4, IntoUblox

\* Sync byte, class and message id (mmpUbloxSync2, mmpUbloxReadClass,
\* mmpUbloxReadMessageId).
LEMMA UbloxHeaderStep ==
  ASSUME StateInv, (\E data \in uint8_t : mmpUbloxSync2(data)) \/ mmpUbloxReadClass \/ mmpUbloxReadMessageId
  PROVE  StateInv' /\ ReportInv'
<1>1. CASE \E data \in uint8_t : Restart(data) BY <1>1, RestartStep
<1>2. scratchPad \in ScratchPads /\ lengthBytes \in {0, 1} /\ length \in Nat
  BY Words DEF StateInv, StructType, Fields, Flags
<1>3. CASE In("mmpUbloxSync2") /\ Uncovered("mmpUbloxReadClass")
  <2>1. Go("mmpUbloxReadClass") /\ UNCHANGED <<crc, scratchPad, declared, lengthBytes>>
    BY <1>3 DEF Uncovered
  <2>2. length = 1 /\ declared = Unset BY <1>3 DEF In, StateInv, Inv, UbloxInv
  <2>3. state' = "mmpUbloxReadClass" /\ length' = 2 BY <1>3, <2>1, <2>2, GoStep DEF In
  <2>4. UbloxInv' BY <2>1, <2>2, <2>3 DEF UbloxInv
  <2>. QED BY <1>2, <1>3, <2>1, <2>2, <2>4, UbloxGo DEF UbloxRoutines
<1>4. CASE mmpUbloxReadClass
  <2>1. /\ In("mmpUbloxReadClass") /\ Go("mmpUbloxReadMessageId")
        /\ UNCHANGED <<crc, scratchPad, declared, lengthBytes>>
    BY <1>4 DEF mmpUbloxReadClass, Uncovered
  <2>2. length = 2 /\ declared = Unset BY <2>1 DEF In, StateInv, Inv, UbloxInv
  <2>3. state' = "mmpUbloxReadMessageId" /\ length' = 3 BY <2>1, <2>2, GoStep DEF In
  <2>4. UbloxInv' BY <2>1, <2>2, <2>3 DEF UbloxInv
  <2>. QED BY <1>2, <2>1, <2>2, <2>4, UbloxGo DEF UbloxRoutines
<1>5. CASE mmpUbloxReadMessageId
  <2>1. /\ In("mmpUbloxReadMessageId") /\ Go("mmpUbloxReadLength")
        /\ scratchPad' = [scratchPad EXCEPT !.checksum = 2]
        /\ UNCHANGED <<crc, declared, lengthBytes>>
    BY <1>5 DEF mmpUbloxReadMessageId
  <2>2. length = 3 /\ declared = Unset BY <2>1 DEF In, StateInv, Inv, UbloxInv
  <2>3. state' = "mmpUbloxReadLength" /\ length' = 4 BY <2>1, <2>2, GoStep DEF In
  <2>4. scratchPad' \in ScratchPads /\ scratchPad'.checksum = 2 BY <1>2, <2>1 DEF ScratchPads
  <2>5. UbloxInv' BY <2>1, <2>2, <2>3, <2>4 DEF UbloxInv
  <2>. QED BY <1>2, <2>1, <2>2, <2>4, <2>5, UbloxGo DEF UbloxRoutines
<1>. QED BY <1>1, <1>3, <1>4, <1>5 DEF mmpUbloxSync2

\* mmpUbloxReadLength: the low byte, then the high one; a frame that meets a stale
\* lengthBytes takes its first length byte for the high one.
LEMMA UbloxLengthStep ==
  ASSUME StateInv, NEW data \in uint8_t, mmpUbloxReadLength(data)
  PROVE  StateInv' /\ ReportInv'
<1>1. In("mmpUbloxReadLength") /\ HasRoom /\ state = "mmpUbloxReadLength" /\ UNCHANGED crc
  BY ZenonT(30) DEF mmpUbloxReadLength, In
<1>2. \/ declared = Unset /\ length = 4 /\ scratchPad.checksum = 2
      \/ declared \in uint8_t /\ lengthBytes = 1 /\ length = 5 /\ scratchPad.checksum = 3
  BY <1>1 DEF StateInv, Inv, UbloxInv
<1>3. scratchPad \in ScratchPads BY DEF StateInv, StructType, Fields, Flags
<1>4. data \in uint16_t /\ data # Unset BY TwoBytes
<1>5. CASE /\ lengthBytes = 0 /\ Go("mmpUbloxReadLength")
           /\ scratchPad' = [scratchPad EXCEPT !.bytesRemaining = data, !.checksum = @ + 1]
           /\ declared' = data /\ lengthBytes' = 1
  <2>1. declared = Unset /\ length = 4 /\ scratchPad.checksum = 2 BY <1>2, <1>5
  <2>2. scratchPad' \in ScratchPads /\ scratchPad'.checksum = scratchPad.checksum + 1
    BY ZenonT(30), <1>3, <1>4, <1>5, CountedPad
  <2>3. state' = "mmpUbloxReadLength" /\ length' = 5 BY <1>1, <1>5, <2>1, GoStep
  <2>4. UbloxInv' BY <1>5, <2>1, <2>2, <2>3 DEF UbloxInv
  <2>. QED BY <1>1, <1>4, <1>5, <2>2, <2>4, UbloxGo DEF UbloxRoutines
<1>6. CASE /\ \E left \in IF declared = Unset THEN MessageLengths ELSE {declared + 256 * data} :
                /\ Go(IF left = 0 THEN "mmpUbloxChecksumA" ELSE "mmpUbloxReadData")
                /\ scratchPad' = [scratchPad EXCEPT !.bytesRemaining = left, !.checksum = @ + 1]
                /\ declared' = IF declared = Unset THEN Unset ELSE left
           /\ lengthBytes' = 0
  <2>1. PICK left \in IF declared = Unset THEN MessageLengths ELSE {declared + 256 * data} :
           /\ Go(IF left = 0 THEN "mmpUbloxChecksumA" ELSE "mmpUbloxReadData")
           /\ scratchPad' = [scratchPad EXCEPT !.bytesRemaining = left, !.checksum = @ + 1]
           /\ declared' = IF declared = Unset THEN Unset ELSE left
    BY ZenonT(30), <1>6
  <2>2. left \in uint16_t /\ left \in Nat
    <3>1. CASE declared = Unset BY <2>1, <3>1, MultiLengths, Words
    <3>2. CASE declared # Unset
      <4>1. declared \in uint8_t /\ left = declared + 256 * data BY <1>2, <2>1, <3>2
      <4>. QED BY <4>1, TwoBytes, Words
    <3>. QED BY <3>1, <3>2
  <2>3. scratchPad.checksum \in Int /\ scratchPad.checksum = length - 2 /\ length \in {4, 5}
    BY <1>2
  <2>4. /\ scratchPad' \in ScratchPads /\ scratchPad'.checksum = scratchPad.checksum + 1
        /\ scratchPad'.bytesRemaining = left
    BY ZenonT(30), <1>3, <2>1, <2>2, <2>3, CountedPad
  <2>5. /\ state' = (IF left = 0 THEN "mmpUbloxChecksumA" ELSE "mmpUbloxReadData")
        /\ length' = length + 1
    BY <1>1, <2>1, GoStep
  <2>6. declared' # Unset => length' = 6 /\ declared' = left
    BY <1>2, <2>1, <2>5
  <2>7. UbloxInv' BY <2>2, <2>3, <2>4, <2>5, <2>6 DEF UbloxInv
  <2>8. declared' = Unset \/ declared' \in uint16_t BY <2>1, <2>2
  <2>. QED BY <1>1, <1>6, <2>1, <2>4, <2>7, <2>8, UbloxGo DEF UbloxRoutines
<1>. QED BY ZenonT(30), <1>5, <1>6 DEF mmpUbloxReadLength

\* mmpUbloxReadData: the payload ends with the byte that brings the counter to zero.
LEMMA UbloxDataStep ==
  ASSUME StateInv, mmpUbloxReadData
  PROVE  StateInv' /\ ReportInv'
<1>. DEFINE left == Decrement(scratchPad.bytesRemaining, UINT16)
            next == IF left = 0 THEN "mmpUbloxChecksumA" ELSE "mmpUbloxReadData"
<1>1. /\ In("mmpUbloxReadData") /\ HasRoom /\ state = "mmpUbloxReadData"
      /\ UNCHANGED <<crc, declared, lengthBytes>> /\ Go(next)
      /\ scratchPad' = [scratchPad EXCEPT !.bytesRemaining = left, !.checksum = @ + 1]
  BY DEF mmpUbloxReadData, In
<1>2. /\ scratchPad.bytesRemaining > 0 /\ scratchPad.checksum = length - 2
      /\ declared # Unset => scratchPad.bytesRemaining + length = 6 + declared
  BY <1>1 DEF StateInv, Inv, UbloxInv
<1>3. /\ scratchPad \in ScratchPads /\ length \in Nat /\ lengthBytes \in {0, 1}
      /\ declared = Unset \/ declared \in uint16_t
  BY Words DEF StateInv, StructType, Fields, Flags
<1>4. scratchPad.bytesRemaining \in uint16_t BY <1>2, <1>3 DEF ScratchPads, Unset
<1>5. left = scratchPad.bytesRemaining - 1 /\ left \in uint16_t BY <1>2, <1>4, Counting
<1>6. scratchPad.bytesRemaining \in Nat BY <1>4, Words
<1>. HIDE DEF left
<1>7. /\ scratchPad' \in ScratchPads /\ scratchPad'.checksum = scratchPad.checksum + 1
      /\ scratchPad'.bytesRemaining = left
  BY ZenonT(30), <1>1, <1>3, <1>5, CountedPad
<1>8. state' = next /\ length' = length + 1 BY <1>1, GoStep
<1>9. declared # Unset => declared \in Nat BY <1>3, Words
<1>10. UbloxInv' BY <1>1, <1>2, <1>3, <1>5, <1>6, <1>7, <1>8, <1>9 DEF UbloxInv
<1>. QED BY <1>1, <1>3, <1>7, <1>10, UbloxGo DEF UbloxRoutines

\* The verdict on a u-blox frame, at the first check byte that differs or at the
\* second (mmpUbloxChecksumA, mmpUbloxChecksumB).
LEMMA UbloxCheckStep ==
  ASSUME StateInv, NEW equal \in BOOLEAN, mmpUbloxChecksumA(equal) \/ mmpUbloxChecksumB(equal)
  PROVE  StateInv' /\ ReportInv'
<1>1. /\ HasRoom /\ state \in {"mmpUbloxChecksumA", "mmpUbloxChecksumB"} /\ state \in UbloxRoutines
  BY ZenonT(30) DEF mmpUbloxChecksumA, mmpUbloxChecksumB, In, UbloxRoutines
<1>2. /\ scratchPad \in ScratchPads /\ length \in Nat /\ lengthBytes \in {0, 1} /\ type = 2
      /\ declared = Unset \/ declared \in uint16_t
  BY <1>1, Words, Enum DEF StateInv, StructType, Fields, Flags, Owner
<1>3. declared # Unset => declared \in Nat BY <1>2, Words
<1>4. CASE In("mmpUbloxChecksumA") /\ Uncovered("mmpUbloxChecksumB")
  <2>1. Go("mmpUbloxChecksumB") /\ UNCHANGED <<crc, scratchPad, declared, lengthBytes>>
    BY <1>4 DEF Uncovered
  <2>2. scratchPad.checksum = length - 2 /\ (declared # Unset => length = 6 + declared)
    BY <1>4 DEF In, StateInv, Inv, UbloxInv
  <2>3. state' = "mmpUbloxChecksumB" /\ length' = length + 1 BY <1>1, <2>1, GoStep
  <2>4. UbloxInv' BY <1>2, <1>3, <2>1, <2>2, <2>3 DEF UbloxInv
  <2>. QED BY <1>2, <1>4, <2>1, <2>4, UbloxGo DEF UbloxRoutines
<1>5. ASSUME NEW ok \in BOOLEAN, UNCHANGED scratchPad,
             End(Judged("UBLOX", ok, ok, length + 1, scratchPad.checksum)),
             ok => state = "mmpUbloxChecksumB"
      PROVE  StateInv' /\ ReportInv'
  <2>. DEFINE v == Judged("UBLOX", ok, ok, length + 1, scratchPad.checksum)
  <2>1. /\ StateInv' /\ bufferLength' = bufferLength /\ bufferLength \in Nat
        /\ length + 1 <= bufferLength /\ out' = v
    BY <1>1, <1>2, <1>5, EndStep
  <2>2. /\ v.protocol = 2 /\ v.type = 2 /\ v.len = length + 1 /\ v.covered = scratchPad.checksum
        /\ v.declared = declared /\ v.result = IF ok THEN "delivered" ELSE "error"
    BY <1>2, Enum DEF Judged
  <2>3. ok => /\ scratchPad.checksum = length - 3
              /\ declared # Unset => length = 7 + declared
    BY <1>5 DEF StateInv, Inv, UbloxInv
  <2>. HIDE DEF v
  <2>4. ReportInv' BY <1>2, <1>3, <2>1, <2>2, <2>3, Enum DEF ReportInv, CheckCoversFrame
  <2>. QED BY <2>1, <2>4
<1>6. CASE /\ ~equal /\ UNCHANGED scratchPad
           /\ End(Judged("UBLOX", FALSE, FALSE, length + 1, scratchPad.checksum))
  BY ZenonT(30), <1>5, <1>6
<1>7. CASE mmpUbloxChecksumB(equal)
  BY <1>5, <1>7 DEF mmpUbloxChecksumB, In
<1>. QED BY ZenonT(30), <1>4, <1>6, <1>7 DEF mmpUbloxChecksumA

-----------------------------------------------------------------------------
(* The invariant and the properties.                                       *)

\* The parser after mmpInitParser is in good order, at first and again.
LEMMA InitStep == Init => StateInv /\ ReportInv
<1>. SUFFICES ASSUME Init PROVE StateInv /\ ReportInv
  OBVIOUS
<1>1. bufferLength \in uint16_t /\ bufferLength >= 256 /\ bufferLength \in Nat
  BY MultiBuffers, Words, Enum DEF Init
<1>2. 0 \in uint16_t BY Words, Modulus
<1>3. StructType
  <2>1. Fields BY <1>1, <1>2, Seeds, FreshPads, Enum DEF Init, Fields
  <2>2. Flags BY ZenonT(30) DEF Init, Flags
  <2>. QED BY <2>1, <2>2 DEF StructType
<1>4. StateInv
  BY <1>3 DEF Init, StateInv, Owner, Inv, SempInv, NmeaInv, UbloxInv, SempRoutines, NmeaRoutines,
              UbloxRoutines
<1>5. ReportInv BY <1>1 DEF Init, NoFrame, ReportInv, CheckCoversFrame
<1>. QED BY <1>4, <1>5

\* mmpProcessByte keeps the invariant, whatever the byte.
LEMMA ByteStep ==
  ASSUME StateInv, PassesOver \/ \E data \in uint8_t : LooksAt(data)
  PROVE  StateInv' /\ ReportInv'
<1>1. CASE PassesOver
  BY <1>1, SempHeaderStep, SempDataStep, SempCrcStep, UbloxHeaderStep, UbloxDataStep,
     UbloxCheckStep DEF PassesOver
<1>2. CASE \E data \in uint8_t : LooksAt(data)
  <2>1. PICK data \in uint8_t : LooksAt(data) BY <1>2
  <2>2. CASE BufferFull(data) \/ SearchByte(data)
    BY <2>2, RestartStep DEF BufferFull, SearchByte, Restart
  <2>. QED BY <2>1, <2>2, SempSyncStep, NmeaNameStep, NmeaAsteriskStep, NmeaDigitStep, NmeaEndStep,
              UbloxHeaderStep, UbloxLengthStep DEF LooksAt
<1>. QED BY <1>1, <1>2

\* So does mmpInitParser.
LEMMA SetUpStep ==
  ASSUME StateInv, NEW n \in BufferLengths, mmpInitParser(n)
  PROVE  StateInv' /\ ReportInv'
<1>1. /\ bufferLength' \in uint16_t /\ bufferLength' >= MMP_MINIMUM_BUFFER_LENGTH
      /\ bufferLength' \in Nat
  BY MultiBuffers, Words DEF mmpInitParser
<1>2. 0 \in uint16_t BY Words, Modulus
<1>3. Fields'
  BY <1>1, <1>2, Seeds, FreshPads, Enum DEF mmpInitParser, StateInv, StructType, Fields
<1>4. Flags' BY ZenonT(30) DEF mmpInitParser, Flags
<1>. QED BY <1>1, <1>3, <1>4, IntoSearch, SilentReport DEF mmpInitParser, StructType

\* And a step that leaves the parser alone.
LEMMA IdleStep ==
  ASSUME UNCHANGED vars
  PROVE  (StateInv => StateInv') /\ (ReportInv => ReportInv')
<1>1. Fields => Fields' BY DEF vars, Fields
<1>2. (Flags => Flags') /\ (Owner => Owner') BY DEF vars, Flags, Owner
<1>3. SempInv => SempInv' BY DEF vars, SempInv
<1>4. NmeaInv => NmeaInv' BY DEF vars, NmeaInv
<1>5. UbloxInv => UbloxInv' BY DEF vars, UbloxInv
<1>6. ReportInv => ReportInv' BY ZenonT(30) DEF vars, ReportInv, CheckCoversFrame
<1>. QED BY <1>1, <1>2, <1>3, <1>4, <1>5, <1>6 DEF StateInv, StructType, Inv

\* One step of the specification.
LEMMA NextStep ==
  ASSUME StateInv, ReportInv, [Next]_vars
  PROVE  StateInv' /\ ReportInv'
BY MultiBytes, ByteStep, SetUpStep, IdleStep DEF Next, mmpProcessByte

\* While a routine of multi_protocol_parser.c is active, the bytes in the buffer, those
\* to come, those under the check and the declared length agree; and every frame that
\* an application is told of lies in the buffer, is of the protocol it is reported as,
\* ends where its length field says and was checked over what its protocol protects.
THEOREM MultiInvariant == Spec => [](StateInv /\ ReportInv)
<1>1. Init => StateInv /\ ReportInv BY InitStep
<1>2. (StateInv /\ ReportInv) /\ [Next]_vars => (StateInv /\ ReportInv)' BY NextStep
<1>. QED BY <1>1, <1>2, PTL DEF Spec

\* Inv holds in every state of the multi-protocol parser.
THEOREM MultiProgress == Spec => []Inv
<1>1. StateInv /\ ReportInv => Inv BY DEF StateInv
<1>. QED BY <1>1, MultiInvariant, PTL

\* Every field keeps its type; a frame and a delivered sentence lie in the buffer.
THEOREM MultiTypes == Spec => []TypeOK
<1>1. StateInv /\ ReportInv => TypeOK
  BY DEF StateInv, StructType, Fields, Flags, ReportInv, TypeOK
<1>. QED BY <1>1, MultiInvariant, PTL

\* Routine, type and CRC routine belong to one protocol, and reports name it.
THEOREM MultiTypeNamesProtocol == Spec => []TypeNamesProtocol
<1>1. StateInv /\ ReportInv => TypeNamesProtocol
  BY DEF StateInv, Owner, ReportInv, TypeNamesProtocol
<1>. QED BY <1>1, MultiInvariant, PTL

\* A SEMP or u-blox frame ends where its length field says.
THEOREM MultiFrameEnds == Spec => []FrameEndsWhereDeclared
<1>1. StateInv /\ ReportInv => FrameEndsWhereDeclared
  BY DEF StateInv, Inv, SempInv, UbloxInv, ReportInv, FrameEndsWhereDeclared
<1>. QED BY <1>1, MultiInvariant, PTL

\* A delivered frame was checked over exactly what its protocol protects.
THEOREM MultiCheckCovers == Spec => []CheckCoversFrame
<1>1. StateInv /\ ReportInv => CheckCoversFrame BY DEF ReportInv
<1>. QED BY <1>1, MultiInvariant, PTL

-----------------------------------------------------------------------------
(* SEMP frames, and u-blox frames, are framed as LengthFramer promises.    *)

\* A step that judges no frame, or a frame of the other protocol or without a declared
\* length, shows no verdict.
LEMMA NoVerdict ==
  /\ out' = NoFrame => VerdictOn("SEMP")' = "none" /\ VerdictOn("UBLOX")' = "none"
  /\ out'.protocol # 0 => VerdictOn("SEMP")' = "none"
  /\ out'.protocol # 2 => VerdictOn("UBLOX")' = "none"
  /\ out'.declared = Unset => VerdictOn("SEMP")' = "none" /\ VerdictOn("UBLOX")' = "none"
BY Enum DEF VerdictOn, NoFrame

\* After mmpFirstByte at most the first byte of a frame is there.
LEMMA FirstByteMapped ==
  ASSUME NEW data, mmpFirstByte(data)
  PROVE  /\ SempBytes' \in {0, 1} /\ SempTotal' = -1
         /\ UbloxBytes' \in {0, 1} /\ UbloxTotal' = -1
         /\ bufferLength' = bufferLength
<1>1. state' \in {"mmpFirstByte", "mmpSempSync2", "mmpNmeaFindFirstComma", "mmpUbloxSync2"}
      /\ length' = 1 /\ bufferLength' = bufferLength
  BY ZenonT(30), FirstByte DEF mmpSempPreamble, mmpNmeaPreamble, mmpUbloxPreamble
<1>. QED BY <1>1 DEF SempBytes, SempTotal, UbloxBytes, UbloxTotal

\* Outside a SEMP frame a byte that leads into none is a byte of the search.
LEMMA SempAside ==
  ASSUME state \notin {"mmpSempReadData", "mmpSempReadCrc"},
         state' \notin SempRoutines, VerdictOn("SEMP")' = "none"
  PROVE  SempFramer!Search
<1>1. SempTotal = -1 /\ SempTotal' = -1 /\ SempBytes' = 0
  BY DEF SempTotal, SempBytes, SempRoutines
<1>. QED BY <1>1 DEF SempFramer!Search, SempFramer!Elsewhere, SempFramer!Unknown

\* So is one that is given to mmpFirstByte.
LEMMA SempFirstByte ==
  ASSUME state \notin {"mmpSempReadData", "mmpSempReadCrc"}, NEW data, mmpFirstByte(data),
         VerdictOn("SEMP")' = "none"
  PROVE  SempFramer!Search
<1>1. SempTotal = -1 BY DEF SempTotal
<1>. QED BY <1>1, FirstByteMapped DEF SempFramer!Search, SempFramer!Elsewhere, SempFramer!Unknown

\* A header byte of a SEMP frame is collected.
LEMMA SempCollects ==
  ASSUME state \in {"mmpSempSync2", "mmpSempSync3", "mmpSempReadHeader"},
         state' \in {"mmpSempSync3", "mmpSempReadHeader"},
         length \in Nat, length > 0, length + 1 < 20, length' = length + 1, out' = NoFrame
  PROVE  SempFramer!Collect
<1>1. SempTotal = -1 /\ SempTotal' = -1 BY DEF SempTotal
<1>2. SempBytes = length /\ SempBytes' = length + 1 BY DEF SempBytes, SempRoutines
<1>. QED BY <1>1, <1>2, NoVerdict, Enum DEF SempFramer!Collect, SempFramer!Unknown

\* mmpSempSync2, mmpSempSync3 and mmpSempReadHeader collect, give up or learn.
LEMMA SempHeaderMapped ==
  ASSUME StateInv,
         \/ mmpSempReadHeader
         \/ \E data \in Bytes : \/ mmpSempSync("mmpSempSync2", "mmpSempSync3", 68, data)
                                \/ mmpSempSync("mmpSempSync3", "mmpSempReadHeader", 24, data)
  PROVE  SempFramer!Search \/ SempFramer!Collect \/ SempFramer!Learn
<1>1. /\ state \in {"mmpSempSync2", "mmpSempSync3", "mmpSempReadHeader"}
  BY DEF mmpSempReadHeader, mmpSempSync, In
<1>2. length \in 1 .. 19 /\ (state # "mmpSempReadHeader" => length < 3)
  BY <1>1, Enum DEF StateInv, Inv, SempInv
<1>3. ASSUME NEW data, Restart(data) PROVE SempFramer!Search
  BY <1>1, <1>3, SempFirstByte, NoVerdict DEF Restart
<1>4. ASSUME NEW r \in {"mmpSempSync3", "mmpSempReadHeader"}, Go(r), length + 1 < 20
      PROVE  SempFramer!Collect
  BY <1>1, <1>2, <1>4, SempCollects DEF Go
<1>5. CASE length + 1 >= 20 /\ mmpSempHeaderComplete
  <2>1. /\ declared' \in MessageLengths /\ state' \in {"mmpSempReadData", "mmpSempReadCrc"}
        /\ length' = length + 1 /\ out' = NoFrame
    BY <1>5 DEF mmpSempHeaderComplete, ExpectCrc, Go
  <2>2. length = 19 BY <1>2, <1>5
  <2>3. SempTotal = -1 /\ SempTotal' = 20 + declared' + 4 BY <1>1, <2>1, Enum DEF SempTotal
  <2>4. SempBytes = 19 /\ SempBytes' = 20 BY <1>1, <2>1, <2>2 DEF SempBytes, SempRoutines
  <2>5. VerdictOn("SEMP")' = "none" BY <2>1, NoVerdict
  <2>. QED BY <2>1, <2>3, <2>4, <2>5, Enum DEF SempFramer!Learn, SempFramer!Unknown
<1>6. CASE End(NoFrame)
  BY <1>1, <1>6, SempAside, NoVerdict DEF End, SempRoutines
<1>7. CASE mmpSempReadHeader BY <1>4, <1>5, <1>6, <1>7, Enum DEF mmpSempReadHeader
<1>8. ASSUME NEW data \in Bytes,
             \/ mmpSempSync("mmpSempSync2", "mmpSempSync3", 68, data)
             \/ mmpSempSync("mmpSempSync3", "mmpSempReadHeader", 24, data)
      PROVE  SempFramer!Search \/ SempFramer!Collect
  <2>1. length + 1 < 20 BY <1>2, <1>8 DEF mmpSempSync, In
  <2>. QED BY <1>3, <1>4, <1>8, <2>1 DEF mmpSempSync
<1>. QED BY <1>7, <1>8

\* mmpSempReadData and mmpSempReadCrc fill the frame; the last byte judges it.
LEMMA SempBodyMapped ==
  ASSUME StateInv, mmpSempReadData \/ \E equal \in BOOLEAN : mmpSempReadCrc(equal)
  PROVE  SempFramer!Fill \/ SempFramer!Deliver \/ SempFramer!Refuse
<1>. DEFINE left == Decrement(scratchPad.bytesRemaining, UINT16)
            n == scratchPad.bytesRemaining
<1>1. state \in {"mmpSempReadData", "mmpSempReadCrc"}
  BY DEF mmpSempReadData, mmpSempReadCrc, In
<1>2. /\ declared \in MessageLengths
      /\ state = "mmpSempReadData" => n \in 1 .. declared /\ n + length = 20 + declared
      /\ state = "mmpSempReadCrc" => n \in 1 .. 4 /\ n + length = 20 + declared + 4
  BY <1>1, Enum DEF StateInv, Inv, SempInv
<1>3. declared \in uint16_t /\ declared \in Nat /\ declared # Unset /\ length \in Nat
      /\ declared < UINT16
  BY <1>2, MultiLengths, Words DEF StateInv, StructType, Fields, Unset
<1>4. n \in Nat /\ n > 0 /\ n \in uint16_t BY <1>1, <1>2, <1>3, Words, Modulus
<1>5. left = n - 1 BY <1>4, Counting
<1>6. SempBytes = length /\ SempTotal = 24 + declared
  BY <1>1, <1>3, Enum DEF SempBytes, SempTotal, SempRoutines
<1>7. SempTotal # -1 BY <1>3, <1>6
<1>. HIDE DEF left, n
<1>8. ASSUME NEW r \in {"mmpSempReadData", "mmpSempReadCrc"}, Go(r), declared' = declared,
             length + 1 < 24 + declared
      PROVE  SempFramer!Fill
  <2>1. SempBytes' = length + 1 /\ SempTotal' = 24 + declared
    BY <1>3, <1>8, Enum DEF Go, SempBytes, SempTotal, SempRoutines
  <2>2. VerdictOn("SEMP")' = "none" BY <1>8, NoVerdict DEF Go
  <2>. QED BY <1>6, <1>7, <1>8, <2>1, <2>2 DEF SempFramer!Fill, SempFramer!Unknown
<1>9. CASE mmpSempReadData
  <2>1. declared' = declared /\ state = "mmpSempReadData" BY <1>9 DEF mmpSempReadData, In
  <2>2. length + 1 < 24 + declared BY <1>2, <1>3, <1>4, <2>1
  <2>. QED BY <1>8, <1>9, <2>1, <2>2 DEF mmpSempReadData, ExpectCrc
<1>10. ASSUME NEW equal \in BOOLEAN, mmpSempReadCrc(equal)
       PROVE  SempFramer!Fill \/ SempFramer!Deliver \/ SempFramer!Refuse
  <2>1. state = "mmpSempReadCrc" BY <1>10 DEF mmpSempReadCrc, In
  <2>2. n + length = 24 + declared BY <1>2, <1>3, <2>1
  <2>3. CASE left # 0 /\ Go("mmpSempReadCrc") /\ declared' = declared
    <3>1. length + 1 < 24 + declared BY <1>3, <1>4, <1>5, <2>2, <2>3
    <3>. QED BY <1>8, <2>3, <3>1
  <2>4. CASE left = 0 /\ End(Judged("SEMP", equal, equal, length + 1, scratchPad.crc.inverted))
    <3>1. length + 1 = 24 + declared BY <1>3, <1>4, <1>5, <2>2, <2>4
    <3>2. SempBytes' = 0 /\ SempTotal' = -1 BY <2>4 DEF End, SempBytes, SempTotal, SempRoutines
    <3>3. /\ out'.result = (IF equal THEN "delivered" ELSE "error") /\ out'.protocol = 0
          /\ out'.declared = declared
      BY <2>4, Enum DEF End, Judged
    <3>4. VerdictOn("SEMP")' = IF equal THEN "delivered" ELSE "refused"
      BY <1>3, <3>3, Enum DEF VerdictOn
    <3>5. CASE equal
      BY <1>6, <1>7, <3>1, <3>2, <3>4, <3>5 DEF SempFramer!Deliver, SempFramer!Unknown
    <3>6. CASE ~equal
      BY <1>3, <1>6, <1>7, <3>1, <3>2, <3>4, <3>6 DEF SempFramer!Refuse, SempFramer!Unknown
    <3>. QED BY <3>5, <3>6
  <2>. QED BY <1>10, <2>3, <2>4 DEF mmpSempReadCrc, left
<1>. QED BY <1>9, <1>10

\* A step outside the SEMP routines judges no SEMP frame; it leads to no SEMP routine
\* but through mmpFirstByte.
LEMMA NotSemp ==
  ASSUME StateInv,
         \/ mmpUbloxReadClass \/ mmpUbloxReadMessageId \/ mmpUbloxReadData
         \/ \E equal \in BOOLEAN : mmpUbloxChecksumA(equal) \/ mmpUbloxChecksumB(equal)
         \/ \E data \in Bytes :
              \/ SearchByte(data)
              \/ mmpNmeaFindFirstComma(data) \/ mmpNmeaFindAsterisk(data)
              \/ mmpNmeaChecksumByte("mmpNmeaChecksumByte1", "mmpNmeaChecksumByte2", data)
              \/ mmpNmeaChecksumByte("mmpNmeaChecksumByte2", "mmpNmeaLineTermination", data)
              \/ \E equal, answeredFalse \in BOOLEAN :
                   mmpNmeaLineTermination(data, equal, answeredFalse)
              \/ mmpUbloxSync2(data) \/ mmpUbloxReadLength(data)
  PROVE  SempFramer!Search
<1>1. state \notin SempRoutines
  BY ZenonT(30) DEF mmpUbloxReadClass, mmpUbloxReadMessageId, mmpUbloxReadData, mmpUbloxChecksumA,
         mmpUbloxChecksumB, SearchByte, mmpNmeaFindFirstComma, mmpNmeaFindAsterisk,
         mmpNmeaChecksumByte, mmpNmeaLineTermination, mmpUbloxSync2, mmpUbloxReadLength, In,
         SempRoutines
<1>2. state \notin {"mmpSempReadData", "mmpSempReadCrc"} BY <1>1 DEF SempRoutines
<1>3. ASSUME NEW r, Go(r), r \notin SempRoutines PROVE SempFramer!Search
  BY <1>2, <1>3, SempAside, NoVerdict DEF Go
<1>4. ASSUME NEW r, Uncovered(r), r \notin SempRoutines PROVE SempFramer!Search
  BY <1>3, <1>4 DEF Uncovered
<1>5. ASSUME NEW data, Restart(data) PROVE SempFramer!Search
  BY <1>2, <1>5, SempFirstByte, NoVerdict DEF Restart
<1>6. ASSUME NEW ok, NEW len, NEW covered, End(Judged("UBLOX", ok, ok, len, covered))
      PROVE  SempFramer!Search
  <2>1. out'.protocol # 0 /\ state' \notin SempRoutines
    BY <1>6, Enum DEF End, Judged, SempRoutines
  <2>. QED BY <1>2, <2>1, SempAside, NoVerdict
<1>7. CASE mmpUbloxReadClass BY <1>4, <1>7 DEF mmpUbloxReadClass, SempRoutines
<1>8. CASE mmpUbloxReadMessageId BY <1>3, <1>8 DEF mmpUbloxReadMessageId, SempRoutines
<1>9. CASE mmpUbloxReadData
  <2>1. PICK r \in {"mmpUbloxChecksumA", "mmpUbloxReadData"} : Go(r) BY <1>9 DEF mmpUbloxReadData
  <2>. QED BY <1>3, <2>1 DEF SempRoutines
<1>10. ASSUME NEW equal \in BOOLEAN, mmpUbloxChecksumA(equal) \/ mmpUbloxChecksumB(equal)
       PROVE  SempFramer!Search
  BY ZenonT(30), <1>4, <1>6, <1>10 DEF mmpUbloxChecksumA, mmpUbloxChecksumB, SempRoutines
<1>11. ASSUME NEW data \in Bytes, SearchByte(data) PROVE SempFramer!Search
  BY <1>5, <1>11 DEF SearchByte
<1>12. ASSUME NEW data \in Bytes, mmpNmeaFindFirstComma(data) \/ mmpNmeaFindAsterisk(data)
       PROVE  SempFramer!Search
  BY <1>3, <1>4, <1>5, <1>12 DEF mmpNmeaFindFirstComma, mmpNmeaNameComma, mmpNmeaFindAsterisk,
                                 SempRoutines
<1>13. ASSUME NEW data \in Bytes,
              \/ mmpNmeaChecksumByte("mmpNmeaChecksumByte1", "mmpNmeaChecksumByte2", data)
              \/ mmpNmeaChecksumByte("mmpNmeaChecksumByte2", "mmpNmeaLineTermination", data)
       PROVE  SempFramer!Search
  BY <1>4, <1>5, <1>13 DEF mmpNmeaChecksumByte, SempRoutines
<1>14. ASSUME NEW data \in Bytes, NEW equal \in BOOLEAN, NEW answeredFalse \in BOOLEAN,
              mmpNmeaLineTermination(data, equal, answeredFalse)
       PROVE  SempFramer!Search
  <2>1. out'.protocol # 0
    BY <1>14, Enum DEF mmpNmeaLineTermination, mmpNmeaValidateChecksum, Judged
  <2>2. VerdictOn("SEMP")' = "none" BY <2>1, NoVerdict
  <2>3. CASE state' = "mmpFirstByte" BY <1>2, <2>2, <2>3, SempAside DEF SempRoutines
  <2>4. CASE mmpFirstByte(data) BY <1>2, <2>2, <2>4, SempFirstByte
  <2>. QED BY <1>14, <2>3, <2>4 DEF mmpNmeaLineTermination
<1>15. ASSUME NEW data \in Bytes, mmpUbloxSync2(data) PROVE SempFramer!Search
  BY <1>4, <1>5, <1>15 DEF mmpUbloxSync2, SempRoutines
<1>16. ASSUME NEW data \in Bytes, mmpUbloxReadLength(data) PROVE SempFramer!Search
  <2>1. PICK r \in {"mmpUbloxReadLength", "mmpUbloxChecksumA", "mmpUbloxReadData"} : Go(r)
    BY ZenonT(30), <1>16 DEF mmpUbloxReadLength
  <2>. QED BY <1>3, <2>1 DEF SempRoutines
<1>. QED BY <1>7, <1>8, <1>9, <1>10, <1>11, <1>12, <1>13, <1>14, <1>15, <1>16

\* A full buffer ends the frame, of which there was no room for the rest.
LEMMA SempFullMapped ==
  ASSUME StateInv, NEW data, BufferFull(data)
  PROVE  SempFramer!Search \/ SempFramer!GiveUp
<1>1. mmpFirstByte(data) /\ out' = NoFrame /\ ~(length < bufferLength) BY DEF BufferFull, HasRoom
<1>2. VerdictOn("SEMP")' = "none" BY <1>1, NoVerdict
<1>3. CASE state \notin {"mmpSempReadData", "mmpSempReadCrc"} BY <1>1, <1>2, <1>3, SempFirstByte
<1>4. CASE state \in {"mmpSempReadData", "mmpSempReadCrc"}
  <2>1. length \in Nat /\ bufferLength \in Nat BY Words DEF StateInv, StructType, Fields
  <2>2. declared \in Nat
    <3>1. declared \in MessageLengths BY <1>4 DEF StateInv, Inv, SempInv
    <3>. QED BY <3>1, MultiLengths, Words
  <2>3. SempBytes = length /\ SempTotal # -1
    BY <1>4, <2>2, Enum DEF SempBytes, SempTotal, SempRoutines
  <2>4. SempBytes >= bufferLength BY <1>1, <2>1, <2>3
  <2>. QED BY <1>1, <1>2, <2>3, <2>4, FirstByteMapped
           DEF SempFramer!GiveUp, SempFramer!Elsewhere, SempFramer!Unknown
<1>. QED BY <1>3, <1>4

\* No byte changes the room.
LEMMA KeepsRoom ==
  ASSUME NEW data, LooksAt(data) \/ PassesOver
  PROVE  bufferLength' = bufferLength
<1>1. PassesOver => bufferLength' = bufferLength
  BY ZenonT(30) DEF PassesOver, mmpSempReadHeader, mmpSempHeaderComplete, mmpSempReadData, ExpectCrc,
         mmpUbloxReadClass, mmpUbloxReadMessageId, mmpUbloxReadData, mmpSempReadCrc,
         mmpUbloxChecksumA, mmpUbloxChecksumB, Uncovered, Go, End
<1>2. mmpFirstByte(data) => bufferLength' = bufferLength BY DEF mmpFirstByte
<1>3. LooksAt(data) => bufferLength' = bufferLength
  BY ZenonT(30), <1>2 DEF LooksAt, BufferFull, SearchByte, mmpSempSync, mmpNmeaFindFirstComma,
         mmpNmeaNameComma, mmpNmeaFindAsterisk, mmpNmeaChecksumByte, mmpNmeaLineTermination,
         mmpUbloxSync2, mmpUbloxReadLength, Uncovered, Restart, Go
<1>. QED BY <1>1, <1>3

\* So bufferLength changes only in mmpInitParser.
LEMMA SameRoom == mmpProcessByte => bufferLength' = bufferLength
BY KeepsRoom DEF mmpProcessByte

\* Every step of the parser is a step of the SEMP framer.
LEMMA SempMapped ==
  ASSUME StateInv, [Next]_vars
  PROVE  [SempFramer!Next]_(SempFramer!vars)
<1>1. CASE mmpProcessByte
  <2>1. SempFramer!Byte
    <3>1. CASE PassesOver
      BY <3>1, SempHeaderMapped, SempBodyMapped, NotSemp DEF PassesOver, SempFramer!Byte
    <3>2. ASSUME NEW data \in Bytes, LooksAt(data) PROVE SempFramer!Byte
      BY <3>2, SempHeaderMapped, SempFullMapped, NotSemp DEF LooksAt, SempFramer!Byte
    <3>. QED BY <1>1, <3>1, <3>2 DEF mmpProcessByte
  <2>. QED BY <1>1, <2>1, SameRoom DEF SempFramer!Next
<1>2. ASSUME NEW n \in BufferLengths, mmpInitParser(n) PROVE SempFramer!Reset
  <2>1. bufferLength' \in Nat BY <1>2, MultiBuffers, Words DEF mmpInitParser
  <2>2. SempBytes' = 0 /\ SempTotal' = -1
    BY <1>2 DEF mmpInitParser, SempBytes, SempTotal, SempRoutines
  <2>3. VerdictOn("SEMP")' = "none" BY <1>2, NoVerdict DEF mmpInitParser
  <2>. QED BY <2>1, <2>2, <2>3 DEF SempFramer!Reset, SempFramer!Unknown
<1>3. CASE UNCHANGED vars
  <2>1. UNCHANGED <<bufferLength, SempBytes, SempTotal, VerdictOn("SEMP")>>
    BY <1>3 DEF vars, SempBytes, SempTotal, VerdictOn
  <2>. QED BY <2>1 DEF SempFramer!vars
<1>. QED BY <1>1, <1>2, <1>3 DEF Next, SempFramer!Next

\* In the mixed stream SEMP frames are followed and judged as LengthFramer promises,
\* for every buffer length that mmpInitParser accepts and all message lengths.
THEOREM MultiFramesSemp == Spec => FramesSemp
<1>1. Init => SempFramer!Init
  <2>. SUFFICES ASSUME Init PROVE SempFramer!Init OBVIOUS
  <2>1. bufferLength \in Nat BY MultiBuffers, Words DEF Init
  <2>2. SempBytes = 0 /\ SempTotal = -1 BY DEF Init, SempBytes, SempTotal, SempRoutines
  <2>3. VerdictOn("SEMP") = "none" BY DEF Init, VerdictOn, NoFrame
  <2>. QED BY <2>1, <2>2, <2>3 DEF SempFramer!Init, SempFramer!Unknown
<1>2. StateInv /\ ReportInv /\ [Next]_vars => [SempFramer!Next]_(SempFramer!vars) BY SempMapped
<1>. QED BY <1>1, <1>2, MultiInvariant, PTL DEF Spec, FramesSemp, SempFramer!Spec

\* A u-blox frame that met a stale lengthBytes, and whatever is no u-blox frame, does
\* not count: a step from there to there is one of the search.
LEMMA UbloxAside ==
  ASSUME UbloxTotal = -1, state' \notin UbloxRoutines \/ LengthSkipped',
         VerdictOn("UBLOX")' = "none"
  PROVE  UbloxFramer!Search
<1>1. UbloxTotal' = -1 /\ UbloxBytes' = 0 BY DEF UbloxTotal, UbloxBytes, UbloxRoutines
<1>. QED BY <1>1 DEF UbloxFramer!Search, UbloxFramer!Elsewhere, UbloxFramer!Unknown

\* So is a byte that is given to mmpFirstByte.
LEMMA UbloxFirstByte ==
  ASSUME UbloxTotal = -1, NEW data, mmpFirstByte(data), VerdictOn("UBLOX")' = "none"
  PROVE  UbloxFramer!Search
BY FirstByteMapped DEF UbloxFramer!Search, UbloxFramer!Elsewhere, UbloxFramer!Unknown

\* A header byte of a u-blox frame is collected.
LEMMA UbloxCollects ==
  ASSUME state \in UbloxRoutines, state' \in UbloxRoutines, ~LengthSkipped, ~LengthSkipped',
         UbloxTotal = -1, UbloxTotal' = -1,
         length \in Nat, length > 0, length + 1 < 6, length' = length + 1, out' = NoFrame
  PROVE  UbloxFramer!Collect
<1>1. UbloxBytes = length /\ UbloxBytes' = length + 1 BY DEF UbloxBytes
<1>. QED BY <1>1, NoVerdict DEF UbloxFramer!Collect, UbloxFramer!Unknown

\* Sync byte, class and id are collected; a stale lengthBytes loses the frame.
LEMMA UbloxHeaderMapped ==
  ASSUME StateInv, (\E data \in Bytes : mmpUbloxSync2(data)) \/ mmpUbloxReadClass \/ mmpUbloxReadMessageId
  PROVE  UbloxFramer!Search \/ UbloxFramer!Collect
<1>1. state \in {"mmpUbloxSync2", "mmpUbloxReadClass", "mmpUbloxReadMessageId"}
  BY DEF mmpUbloxSync2, mmpUbloxReadClass, mmpUbloxReadMessageId, In
<1>2. length \in Nat /\ length > 0 /\ length + 1 < 6 /\ declared = Unset
  BY <1>1 DEF StateInv, Inv, UbloxInv
<1>3. UbloxTotal = -1 /\ ~LengthSkipped /\ state \in UbloxRoutines
  BY <1>1 DEF UbloxTotal, LengthSkipped, UbloxRoutines
<1>4. ASSUME NEW data, Restart(data) PROVE UbloxFramer!Search
  BY <1>3, <1>4, UbloxFirstByte, NoVerdict DEF Restart
<1>5. ASSUME NEW r \in {"mmpUbloxReadClass", "mmpUbloxReadMessageId", "mmpUbloxReadLength"}, Go(r)
      PROVE  UbloxFramer!Search \/ UbloxFramer!Collect
  <2>1. state' = r /\ length' = length + 1 /\ out' = NoFrame BY <1>5 DEF Go
  <2>2. UbloxTotal' = -1 /\ state' \in UbloxRoutines BY <2>1 DEF UbloxTotal, UbloxRoutines
  <2>3. CASE LengthSkipped' BY <1>3, <2>1, <2>3, UbloxAside, NoVerdict
  <2>4. CASE ~LengthSkipped' BY <1>2, <1>3, <2>1, <2>2, <2>4, UbloxCollects
  <2>. QED BY <2>3, <2>4
<1>6. ASSUME NEW data \in Bytes, mmpUbloxSync2(data)
      PROVE  UbloxFramer!Search \/ UbloxFramer!Collect
  BY <1>4, <1>5, <1>6 DEF mmpUbloxSync2, Uncovered
<1>7. CASE mmpUbloxReadClass BY <1>5, <1>7 DEF mmpUbloxReadClass, Uncovered
<1>8. CASE mmpUbloxReadMessageId BY <1>5, <1>8 DEF mmpUbloxReadMessageId
<1>. QED BY <1>6, <1>7, <1>8

\* The low length byte, once read, is one of the bytes that arrive.
LowByte == state = "mmpUbloxReadLength" /\ declared # Unset => declared \in Bytes

\* Only mmpUbloxReadLength reads a low length byte.
LEMMA LowByteStep ==
  ASSUME StateInv, LowByte, [Next]_vars
  PROVE  LowByte'
<1>1. ASSUME NEW r, Go(r), r # "mmpUbloxReadLength" PROVE LowByte'
  BY <1>1 DEF Go, LowByte
<1>2. ASSUME NEW data, Restart(data) \/ mmpFirstByte(data) PROVE LowByte'
  BY ZenonT(30), <1>2, FirstByte DEF Restart, LowByte
<1>3. ASSUME NEW v, End(v) PROVE LowByte' BY <1>3 DEF End, LowByte
<1>4. ASSUME NEW r, Uncovered(r), r # "mmpUbloxReadLength" PROVE LowByte'
  BY <1>1, <1>4 DEF Uncovered
<1>5. CASE mmpUbloxReadMessageId
  <2>1. declared' = Unset
    BY <1>5 DEF mmpUbloxReadMessageId, In, StateInv, Inv, UbloxInv
  <2>. QED BY <2>1 DEF LowByte
<1>6. ASSUME NEW data \in Bytes, mmpUbloxReadLength(data) PROVE LowByte'
  <2>1. CASE declared' = data BY <2>1 DEF LowByte
  <2>. QED BY ZenonT(30), <1>1, <1>6, <2>1 DEF mmpUbloxReadLength
<1>7. CASE PassesOver
  BY ZenonT(30), <1>1, <1>3, <1>4, <1>5, <1>7
     DEF PassesOver, mmpSempReadHeader, mmpSempHeaderComplete, mmpSempReadData, ExpectCrc,
         mmpSempReadCrc, mmpUbloxReadClass, mmpUbloxReadData, mmpUbloxChecksumA, mmpUbloxChecksumB
<1>8. ASSUME NEW data \in Bytes, LooksAt(data) PROVE LowByte'
  <2>1. CASE state' = "mmpFirstByte" BY <2>1 DEF LowByte
  <2>. QED
    BY <1>1, <1>2, <1>4, <1>6, <1>8, <2>1
       DEF LooksAt, BufferFull, SearchByte, mmpSempSync, mmpNmeaFindFirstComma, mmpNmeaNameComma,
           mmpNmeaFindAsterisk, mmpNmeaChecksumByte, mmpNmeaLineTermination, mmpUbloxSync2
<1>9. CASE \E n \in BufferLengths : mmpInitParser(n) BY <1>9 DEF mmpInitParser, LowByte
<1>10. CASE UNCHANGED vars BY <1>10 DEF vars, LowByte
<1>. QED BY <1>7, <1>8, <1>9, <1>10 DEF Next, mmpProcessByte

\* The two length bytes fix the end of the frame (mmpUbloxReadLength).
LEMMA UbloxLengthMapped ==
  ASSUME StateInv, LowByte, NEW data \in Bytes, mmpUbloxReadLength(data)
  PROVE  UbloxFramer!Search \/ UbloxFramer!Collect \/ UbloxFramer!Learn
<1>1. state = "mmpUbloxReadLength" /\ state \in UbloxRoutines
  BY ZenonT(30) DEF mmpUbloxReadLength, In, UbloxRoutines
<1>2. \/ declared = Unset /\ length = 4
      \/ declared \in Bytes /\ lengthBytes = 1 /\ length = 5
  BY <1>1, MultiBytes, TwoBytes DEF StateInv, Inv, UbloxInv, LowByte, Unset
<1>3. UbloxTotal = -1 BY <1>1 DEF UbloxTotal
<1>4. data # Unset BY MultiBytes, TwoBytes
<1>5. CASE lengthBytes = 0 /\ Go("mmpUbloxReadLength") /\ declared' = data
  <2>1. /\ state' = "mmpUbloxReadLength" /\ length' = length + 1 /\ out' = NoFrame
        /\ length = 4
    BY <1>2, <1>5 DEF Go
  <2>2. ~LengthSkipped BY <1>1, <1>5 DEF LengthSkipped
  <2>3. ~LengthSkipped' BY <1>4, <1>5 DEF LengthSkipped
  <2>4. UbloxTotal' = -1 BY <2>1 DEF UbloxTotal
  <2>. QED BY <1>1, <1>3, <2>1, <2>2, <2>3, <2>4, UbloxCollects
<1>6. CASE /\ lengthBytes = 1
           /\ \E left \in IF declared = Unset THEN MessageLengths ELSE {declared + 256 * data} :
                /\ Go(IF left = 0 THEN "mmpUbloxChecksumA" ELSE "mmpUbloxReadData")
                /\ declared' = IF declared = Unset THEN Unset ELSE left
  <2>1. PICK left \in IF declared = Unset THEN MessageLengths ELSE {declared + 256 * data} :
           /\ Go(IF left = 0 THEN "mmpUbloxChecksumA" ELSE "mmpUbloxReadData")
           /\ declared' = IF declared = Unset THEN Unset ELSE left
    BY <1>6
  <2>2. /\ state' \in {"mmpUbloxChecksumA", "mmpUbloxReadData"} /\ length' = length + 1
        /\ out' = NoFrame
    BY <2>1 DEF Go
  <2>3. VerdictOn("UBLOX")' = "none" BY <2>2, NoVerdict
  <2>4. CASE declared = Unset
    <3>1. LengthSkipped' BY <2>1, <2>2, <2>4 DEF LengthSkipped
    <3>. QED BY <1>3, <2>3, <3>1, UbloxAside
  <2>5. CASE declared # Unset
    <3>1. declared \in Bytes /\ length = 5 /\ left = declared + 256 * data /\ declared' = left
      BY <1>2, <2>1, <2>5
    <3>2. left \in uint16_t BY <3>1, MultiBytes, TwoBytes
    <3>3. left \in Nat /\ left # Unset BY <3>2, Words DEF Unset
    <3>4. ~LengthSkipped BY <2>5 DEF LengthSkipped
    <3>5. ~LengthSkipped' BY <3>1, <3>3 DEF LengthSkipped
    <3>6. UbloxBytes = 5 BY <1>1, <3>1, <3>4 DEF UbloxBytes
    <3>7. UbloxBytes' = 6 BY <2>2, <3>1, <3>5 DEF UbloxBytes, UbloxRoutines
    <3>8. UbloxTotal' = 6 + left + 2 BY <2>2, <3>1, <3>5 DEF UbloxTotal
    <3>9. left \in {lo + 256 * hi : lo, hi \in Bytes} BY <3>1
    <3>. QED BY <1>3, <2>3, <3>6, <3>7, <3>8, <3>9 DEF UbloxFramer!Learn, UbloxFramer!Unknown
  <2>. QED BY <2>4, <2>5
<1>. QED BY ZenonT(30), <1>5, <1>6 DEF mmpUbloxReadLength

\* Payload and checksum bytes fill the frame; a check byte that differs refuses it, and
\* the second one that does not delivers it.
LEMMA UbloxBodyMapped ==
  ASSUME StateInv,
         \/ mmpUbloxReadData
         \/ \E equal \in BOOLEAN : mmpUbloxChecksumA(equal) \/ mmpUbloxChecksumB(equal)
  PROVE  UbloxFramer!Search \/ UbloxFramer!Fill \/ UbloxFramer!Deliver \/ UbloxFramer!Refuse
<1>1. state \in {"mmpUbloxReadData", "mmpUbloxChecksumA", "mmpUbloxChecksumB"}
  BY ZenonT(30) DEF mmpUbloxReadData, mmpUbloxChecksumA, mmpUbloxChecksumB, In
<1>2. declared' = declared
  BY ZenonT(30) DEF mmpUbloxReadData, mmpUbloxChecksumA, mmpUbloxChecksumB, Uncovered, End
<1>3. \/ \E r \in {"mmpUbloxReadData", "mmpUbloxChecksumA", "mmpUbloxChecksumB"} :
           Go(r) /\ state # "mmpUbloxChecksumB"
      \/ \E ok \in BOOLEAN :
           /\ End(Judged("UBLOX", ok, ok, length + 1, scratchPad.checksum))
           /\ state \in {"mmpUbloxChecksumA", "mmpUbloxChecksumB"}
           /\ ok => state = "mmpUbloxChecksumB"
  <2>1. CASE mmpUbloxReadData BY <2>1 DEF mmpUbloxReadData, In
  <2>2. ASSUME NEW equal \in BOOLEAN, mmpUbloxChecksumA(equal)
        PROVE  \/ Go("mmpUbloxChecksumB") /\ state = "mmpUbloxChecksumA"
               \/ /\ End(Judged("UBLOX", FALSE, FALSE, length + 1, scratchPad.checksum))
                  /\ state = "mmpUbloxChecksumA"
    BY ZenonT(30), <2>2 DEF mmpUbloxChecksumA, Uncovered, In
  <2>3. ASSUME NEW equal \in BOOLEAN, mmpUbloxChecksumB(equal)
        PROVE  /\ End(Judged("UBLOX", equal, equal, length + 1, scratchPad.checksum))
               /\ state = "mmpUbloxChecksumB"
    BY <2>3 DEF mmpUbloxChecksumB, In
  <2>. QED BY ZenonT(30), <2>1, <2>2, <2>3
<1>4. CASE declared = Unset
  <2>1. UbloxTotal = -1 BY <1>1, <1>4 DEF UbloxTotal, LengthSkipped
  <2>2. CASE \E r \in {"mmpUbloxReadData", "mmpUbloxChecksumA", "mmpUbloxChecksumB"} : Go(r)
    <3>1. LengthSkipped' /\ out' = NoFrame BY <1>2, <1>4, <2>2 DEF Go, LengthSkipped
    <3>. QED BY <2>1, <3>1, UbloxAside, NoVerdict
  <2>3. CASE \E ok \in BOOLEAN : End(Judged("UBLOX", ok, ok, length + 1, scratchPad.checksum))
    <3>1. state' \notin UbloxRoutines /\ out'.declared = Unset
      BY <1>4, <2>3 DEF End, Judged, UbloxRoutines
    <3>. QED BY <2>1, <3>1, UbloxAside, NoVerdict
  <2>. QED BY <1>3, <2>2, <2>3
<1>5. CASE declared # Unset
  <2>1. declared \in Nat /\ length \in Nat BY <1>5, Words DEF StateInv, StructType, Fields
  <2>2. /\ state = "mmpUbloxReadData" => length < 6 + declared
        /\ state = "mmpUbloxChecksumA" => length = 6 + declared
        /\ state = "mmpUbloxChecksumB" => length = 7 + declared
    <3>1. CASE state = "mmpUbloxReadData"
      <4>1. /\ scratchPad.bytesRemaining > 0 /\ scratchPad \in ScratchPads
            /\ scratchPad.bytesRemaining + length = 6 + declared
        BY <1>5, <3>1 DEF StateInv, StructType, Fields, Inv, UbloxInv
      <4>2. scratchPad.bytesRemaining \in uint16_t BY <4>1 DEF ScratchPads, Unset
      <4>3. scratchPad.bytesRemaining \in Nat BY <4>2, Words
      <4>. QED BY <2>1, <3>1, <4>1, <4>3
    <3>2. CASE state # "mmpUbloxReadData" BY <1>5, <3>2 DEF StateInv, Inv, UbloxInv
    <3>. QED BY <3>1, <3>2
  <2>3. ~LengthSkipped /\ ~LengthSkipped' BY <1>2, <1>5 DEF LengthSkipped
  <2>4. UbloxBytes = length /\ UbloxTotal = 6 + declared + 2
    BY <1>1, <2>3 DEF UbloxBytes, UbloxTotal, UbloxRoutines
  <2>5. UbloxTotal # -1 BY <2>1, <2>4
  <2>6. CASE \E r \in {"mmpUbloxReadData", "mmpUbloxChecksumA", "mmpUbloxChecksumB"} :
               Go(r) /\ state # "mmpUbloxChecksumB"
    <3>1. /\ state' \in {"mmpUbloxReadData", "mmpUbloxChecksumA", "mmpUbloxChecksumB"}
          /\ length' = length + 1 /\ out' = NoFrame /\ state # "mmpUbloxChecksumB"
      BY <2>6 DEF Go
    <3>2. UbloxBytes' = length + 1 /\ UbloxTotal' = 6 + declared + 2
      BY <1>2, <2>3, <3>1 DEF UbloxBytes, UbloxTotal, UbloxRoutines
    <3>3. VerdictOn("UBLOX")' = "none" BY <3>1, NoVerdict
    <3>4. length + 1 < 6 + declared + 2 BY <1>1, <2>1, <2>2, <3>1
    <3>. QED BY <2>4, <2>5, <3>2, <3>3, <3>4 DEF UbloxFramer!Fill, UbloxFramer!Unknown
  <2>7. ASSUME NEW ok \in BOOLEAN,
               End(Judged("UBLOX", ok, ok, length + 1, scratchPad.checksum)),
               state \in {"mmpUbloxChecksumA", "mmpUbloxChecksumB"},
               ok => state = "mmpUbloxChecksumB"
        PROVE  UbloxFramer!Deliver \/ UbloxFramer!Refuse
    <3>1. UbloxBytes' = 0 /\ UbloxTotal' = -1
      BY <2>7 DEF End, UbloxBytes, UbloxTotal, UbloxRoutines
    <3>2. /\ out'.result = (IF ok THEN "delivered" ELSE "error") /\ out'.protocol = 2
          /\ out'.declared = declared
      BY <2>7, Enum DEF End, Judged
    <3>3. VerdictOn("UBLOX")' = IF ok THEN "delivered" ELSE "refused"
      BY <1>5, <3>2, Enum DEF VerdictOn
    <3>4. CASE ok
      <4>1. length + 1 = 6 + declared + 2 BY <2>1, <2>2, <2>7, <3>4
      <4>. QED BY <2>4, <2>5, <3>1, <3>3, <3>4, <4>1 DEF UbloxFramer!Deliver, UbloxFramer!Unknown
    <3>5. CASE ~ok
      <4>1. length + 1 > (6 + declared + 2) - 2 /\ length + 1 <= 6 + declared + 2
        BY <2>1, <2>2, <2>7
      <4>. QED BY <2>4, <2>5, <3>1, <3>3, <3>5, <4>1 DEF UbloxFramer!Refuse, UbloxFramer!Unknown
    <3>. QED BY <3>4, <3>5
  <2>. QED BY <1>3, <2>6, <2>7
<1>. QED BY <1>4, <1>5

\* A step outside the u-blox routines judges no u-blox frame; it leads to no u-blox
\* routine but through mmpFirstByte.
LEMMA NotUblox ==
  ASSUME StateInv,
         \/ mmpSempReadHeader \/ mmpSempReadData \/ \E equal \in BOOLEAN : mmpSempReadCrc(equal)
         \/ \E data \in Bytes :
              \/ SearchByte(data)
              \/ mmpSempSync("mmpSempSync2", "mmpSempSync3", 68, data)
              \/ mmpSempSync("mmpSempSync3", "mmpSempReadHeader", 24, data)
              \/ mmpNmeaFindFirstComma(data) \/ mmpNmeaFindAsterisk(data)
              \/ mmpNmeaChecksumByte("mmpNmeaChecksumByte1", "mmpNmeaChecksumByte2", data)
              \/ mmpNmeaChecksumByte("mmpNmeaChecksumByte2", "mmpNmeaLineTermination", data)
              \/ \E equal, answeredFalse \in BOOLEAN :
                   mmpNmeaLineTermination(data, equal, answeredFalse)
  PROVE  UbloxFramer!Search
<1>1. state \notin UbloxRoutines
  BY DEF mmpSempReadHeader, mmpSempReadData, mmpSempReadCrc, SearchByte, mmpSempSync,
         mmpNmeaFindFirstComma, mmpNmeaFindAsterisk, mmpNmeaChecksumByte, mmpNmeaLineTermination,
         In, UbloxRoutines
<1>2. UbloxTotal = -1 BY <1>1 DEF UbloxTotal, UbloxRoutines
<1>3. ASSUME NEW r, Go(r), r \notin UbloxRoutines PROVE UbloxFramer!Search
  BY <1>2, <1>3, UbloxAside, NoVerdict DEF Go
<1>4. ASSUME NEW r, Uncovered(r), r \notin UbloxRoutines PROVE UbloxFramer!Search
  BY <1>3, <1>4 DEF Uncovered
<1>5. ASSUME NEW data, Restart(data) PROVE UbloxFramer!Search
  BY <1>2, <1>5, UbloxFirstByte, NoVerdict DEF Restart
<1>6. ASSUME NEW v, End(v), v.protocol # 2 PROVE UbloxFramer!Search
  <2>1. out'.protocol # 2 /\ state' \notin UbloxRoutines BY <1>6 DEF End, UbloxRoutines
  <2>. QED BY <1>2, <2>1, UbloxAside, NoVerdict
<1>7. CASE ExpectCrc BY <1>3, <1>7 DEF ExpectCrc, UbloxRoutines
<1>8. CASE mmpSempReadHeader
  <2>1. CASE mmpSempHeaderComplete BY <1>3, <1>7, <2>1 DEF mmpSempHeaderComplete, UbloxRoutines
  <2>2. CASE End(NoFrame)
    <3>1. NoFrame.protocol # 2 BY DEF NoFrame, Unset
    <3>. QED BY <1>6, <2>2, <3>1
  <2>. QED BY <1>3, <1>8, <2>1, <2>2 DEF mmpSempReadHeader, UbloxRoutines
<1>9. CASE mmpSempReadData BY <1>3, <1>7, <1>9 DEF mmpSempReadData, UbloxRoutines
<1>10. ASSUME NEW equal \in BOOLEAN, mmpSempReadCrc(equal) PROVE UbloxFramer!Search
  <2>1. Judged("SEMP", equal, equal, length + 1, scratchPad.crc.inverted).protocol # 2
    BY Enum DEF Judged
  <2>. QED BY <1>3, <1>6, <1>10, <2>1 DEF mmpSempReadCrc, UbloxRoutines
<1>11. ASSUME NEW data \in Bytes, SearchByte(data) PROVE UbloxFramer!Search
  BY <1>5, <1>11 DEF SearchByte
<1>12. ASSUME NEW data \in Bytes,
              \/ mmpSempSync("mmpSempSync2", "mmpSempSync3", 68, data)
              \/ mmpSempSync("mmpSempSync3", "mmpSempReadHeader", 24, data)
       PROVE  UbloxFramer!Search
  BY <1>3, <1>5, <1>12 DEF mmpSempSync, UbloxRoutines
<1>13. ASSUME NEW data \in Bytes, mmpNmeaFindFirstComma(data) \/ mmpNmeaFindAsterisk(data)
       PROVE  UbloxFramer!Search
  BY <1>3, <1>4, <1>5, <1>13 DEF mmpNmeaFindFirstComma, mmpNmeaNameComma, mmpNmeaFindAsterisk,
                                 UbloxRoutines
<1>14. ASSUME NEW data \in Bytes,
              \/ mmpNmeaChecksumByte("mmpNmeaChecksumByte1", "mmpNmeaChecksumByte2", data)
              \/ mmpNmeaChecksumByte("mmpNmeaChecksumByte2", "mmpNmeaLineTermination", data)
       PROVE  UbloxFramer!Search
  BY <1>4, <1>5, <1>14 DEF mmpNmeaChecksumByte, UbloxRoutines
<1>15. ASSUME NEW data \in Bytes, NEW equal \in BOOLEAN, NEW answeredFalse \in BOOLEAN,
              mmpNmeaLineTermination(data, equal, answeredFalse)
       PROVE  UbloxFramer!Search
  <2>1. out'.protocol # 2
    BY <1>15, Enum DEF mmpNmeaLineTermination, mmpNmeaValidateChecksum, Judged
  <2>2. VerdictOn("UBLOX")' = "none" BY <2>1, NoVerdict
  <2>3. CASE state' = "mmpFirstByte" BY <1>2, <2>2, <2>3, UbloxAside DEF UbloxRoutines
  <2>4. CASE mmpFirstByte(data) BY <1>2, <2>2, <2>4, UbloxFirstByte
  <2>. QED BY <1>15, <2>3, <2>4 DEF mmpNmeaLineTermination
<1>. QED BY <1>8, <1>9, <1>10, <1>11, <1>12, <1>13, <1>14, <1>15

\* A full buffer ends the frame, of which there was no room for the rest.
LEMMA UbloxFullMapped ==
  ASSUME StateInv, NEW data, BufferFull(data)
  PROVE  UbloxFramer!Search \/ UbloxFramer!GiveUp
<1>1. mmpFirstByte(data) /\ out' = NoFrame /\ ~(length < bufferLength) BY DEF BufferFull, HasRoom
<1>2. VerdictOn("UBLOX")' = "none" BY <1>1, NoVerdict
<1>3. CASE UbloxTotal = -1 BY <1>1, <1>2, <1>3, UbloxFirstByte
<1>4. CASE UbloxTotal # -1
  <2>1. length \in Nat /\ bufferLength \in Nat BY Words DEF StateInv, StructType, Fields
  <2>2. UbloxBytes = length BY <1>4 DEF UbloxBytes, UbloxTotal, UbloxRoutines
  <2>3. UbloxBytes >= bufferLength BY <1>1, <2>1, <2>2
  <2>. QED BY <1>1, <1>2, <1>4, <2>3, FirstByteMapped
           DEF UbloxFramer!GiveUp, UbloxFramer!Elsewhere, UbloxFramer!Unknown
<1>. QED BY <1>3, <1>4

\* Every step of the parser is a step of the u-blox framer.
LEMMA UbloxMapped ==
  ASSUME StateInv, LowByte, [Next]_vars
  PROVE  [UbloxFramer!Next]_(UbloxFramer!vars)
<1>1. CASE mmpProcessByte
  <2>1. UbloxFramer!Byte
    <3>1. CASE PassesOver
      BY <3>1, UbloxHeaderMapped, UbloxBodyMapped, NotUblox DEF PassesOver, UbloxFramer!Byte
    <3>2. ASSUME NEW data \in Bytes, LooksAt(data) PROVE UbloxFramer!Byte
      BY <3>2, UbloxHeaderMapped, UbloxLengthMapped, UbloxFullMapped, NotUblox
         DEF LooksAt, UbloxFramer!Byte
    <3>. QED BY <1>1, <3>1, <3>2 DEF mmpProcessByte
  <2>. QED BY <1>1, <2>1, SameRoom DEF UbloxFramer!Next
<1>2. ASSUME NEW n \in BufferLengths, mmpInitParser(n) PROVE UbloxFramer!Reset
  <2>1. bufferLength' \in Nat BY <1>2, MultiBuffers, Words DEF mmpInitParser
  <2>2. UbloxBytes' = 0 /\ UbloxTotal' = -1
    BY <1>2 DEF mmpInitParser, UbloxBytes, UbloxTotal, UbloxRoutines
  <2>3. VerdictOn("UBLOX")' = "none" BY <1>2, NoVerdict DEF mmpInitParser
  <2>. QED BY <2>1, <2>2, <2>3 DEF UbloxFramer!Reset, UbloxFramer!Unknown
<1>3. CASE UNCHANGED vars
  <2>1. UNCHANGED <<bufferLength, UbloxBytes, UbloxTotal, VerdictOn("UBLOX")>>
    BY <1>3 DEF vars, UbloxBytes, UbloxTotal, LengthSkipped, VerdictOn
  <2>. QED BY <2>1 DEF UbloxFramer!vars
<1>. QED BY <1>1, <1>2, <1>3 DEF Next, UbloxFramer!Next

\* In the mixed stream u-blox frames are followed and judged as LengthFramer promises,
\* but for those that meet a stale lengthBytes, which do not count as frames.
THEOREM MultiFramesUblox == Spec => FramesUblox
<1>1. Init => UbloxFramer!Init
  <2>. SUFFICES ASSUME Init PROVE UbloxFramer!Init OBVIOUS
  <2>1. bufferLength \in Nat BY MultiBuffers, Words DEF Init
  <2>2. UbloxBytes = 0 /\ UbloxTotal = -1 BY DEF Init, UbloxBytes, UbloxTotal, UbloxRoutines
  <2>3. VerdictOn("UBLOX") = "none" BY DEF Init, VerdictOn, NoFrame
  <2>. QED BY <2>1, <2>2, <2>3 DEF UbloxFramer!Init, UbloxFramer!Unknown
<1>2. StateInv /\ LowByte /\ [Next]_vars => [UbloxFramer!Next]_(UbloxFramer!vars) BY UbloxMapped
<1>3. Init => LowByte BY DEF Init, LowByte
<1>4. StateInv /\ LowByte /\ [Next]_vars => LowByte' BY LowByteStep
<1>. QED BY <1>1, <1>2, <1>3, <1>4, MultiInvariant, PTL DEF Spec, FramesUblox, UbloxFramer!Spec

-----------------------------------------------------------------------------
(* NMEA sentences are framed as SentenceFramer promises.                   *)

\* What the framer sees of a byte that belongs to no sentence, or begins one.
NoSentence == NmeaBytes' \in {0, 1} /\ NmeaTotal' = -1

\* Outside the NMEA routines there is no sentence.
LEMMA NmeaOutside ==
  /\ state \notin NmeaRoutines => NmeaBytes = 0 /\ NmeaTotal = -1
  /\ state' \notin NmeaRoutines => NmeaBytes' = 0 /\ NmeaTotal' = -1
BY DEF NmeaBytes, NmeaTotal, NmeaRoutines

\* mmpFirstByte begins a sentence or none.
LEMMA NmeaFirstByte ==
  ASSUME NEW data, mmpFirstByte(data)
  PROVE  NoSentence
<1>1. state' \in {"mmpFirstByte", "mmpSempSync2", "mmpNmeaFindFirstComma", "mmpUbloxSync2"}
      /\ length' = 1
  BY ZenonT(30), FirstByte DEF mmpSempPreamble, mmpNmeaPreamble, mmpUbloxPreamble
<1>. QED BY <1>1 DEF NoSentence, NmeaBytes, NmeaTotal

\* A step that judges no sentence shows no verdict on one.
LEMMA NoNmeaVerdict ==
  /\ out' = NoFrame => NmeaVerdict' = "none"
  /\ out'.protocol # 1 => NmeaVerdict' = "none"
BY Enum DEF NmeaVerdict, NoFrame

\* How a byte that ends no complete sentence is dropped.
LEMMA NmeaDropped ==
  ASSUME NmeaTotal = -1 \/ NmeaBytes < NmeaTotal, NoSentence, NmeaVerdict' = "none"
  PROVE  NmeaFramer!Drop
BY DEF NmeaFramer!Drop, NmeaFramer!Elsewhere, NmeaFramer!Unknown, NoSentence

\* A sentence in the buffer has at least its preamble byte.
LEMMA NmeaNotEmpty ==
  ASSUME StateInv, state \in NmeaRoutines
  PROVE  length \in Nat /\ bufferLength \in Nat /\ length > 0 /\ NmeaBytes = length
<1>1. length \in Nat /\ bufferLength \in Nat BY Words DEF StateInv, StructType, Fields
<1>2. crc.cover \in Nat BY InSentence
<1>3. \/ crc.cover = length - 1 \/ crc.cover = length - 2
      \/ crc.cover = length - 3 \/ crc.cover = length - 4
  BY DEF StateInv, Inv, NmeaInv, NmeaRoutines
<1>4. length > 0 BY <1>1, <1>2, <1>3
<1>. QED BY <1>1, <1>4 DEF NmeaBytes

\* Name and text (mmpNmeaFindFirstComma, mmpNmeaFindAsterisk).
LEMMA NmeaTextMapped ==
  ASSUME StateInv, NEW data, mmpNmeaFindFirstComma(data) \/ mmpNmeaFindAsterisk(data)
  PROVE  NmeaFramer!Byte
<1>1. state \in {"mmpNmeaFindFirstComma", "mmpNmeaFindAsterisk"} /\ state \in NmeaRoutines
  BY DEF mmpNmeaFindFirstComma, mmpNmeaFindAsterisk, In, NmeaRoutines
<1>2. /\ NmeaTotal = -1 /\ NmeaBytes = length
      /\ length \in Nat /\ bufferLength \in Nat /\ length > 0
  BY <1>1, NmeaNotEmpty DEF NmeaTotal
<1>3. CASE Restart(data)
  BY <1>2, <1>3, NmeaFirstByte, NoNmeaVerdict, NmeaDropped DEF Restart, NmeaFramer!Byte
<1>4. ASSUME NEW r \in {"mmpNmeaFindFirstComma", "mmpNmeaFindAsterisk"}, Go(r),
             length + 1 + 5 <= bufferLength
      PROVE  NmeaFramer!Byte
  <2>1. state' = r /\ length' = length + 1 /\ out' = NoFrame BY <1>4 DEF Go
  <2>2. NmeaBytes' = length + 1 /\ NmeaTotal' = -1 /\ NmeaVerdict' = "none"
    BY <2>1, NoNmeaVerdict DEF NmeaBytes, NmeaTotal, NmeaRoutines
  <2>. QED BY <1>2, <1>4, <2>2
           DEF NmeaFramer!Byte, NmeaFramer!Text, NmeaFramer!Grow, NmeaFramer!Unknown
<1>5. CASE mmpNmeaFindFirstComma(data) /\ ~Restart(data)
  <2>1. PICK r \in {"mmpNmeaFindFirstComma", "mmpNmeaFindAsterisk"} : Go(r)
    BY <1>5 DEF mmpNmeaFindFirstComma, mmpNmeaNameComma
  <2>2. /\ length = 1 + scratchPad.sentenceNameLength
        /\ scratchPad.sentenceNameLength \in Int /\ scratchPad.sentenceNameLength <= 15
    BY <1>5 DEF mmpNmeaFindFirstComma, In, StateInv, StructType, Fields, Inv, NmeaInv,
                ScratchPads, SEMP_SENTENCE_NAME_BYTES, Unset
  <2>3. bufferLength >= 256 BY Enum DEF StateInv, StructType, Fields
  <2>4. length + 1 + 5 <= bufferLength BY <1>2, <2>2, <2>3
  <2>. QED BY <1>4, <2>1, <2>4
<1>6. CASE mmpNmeaFindAsterisk(data) /\ ~Restart(data)
  <2>1. CASE Uncovered("mmpNmeaChecksumByte1")
    <3>1. state' = "mmpNmeaChecksumByte1" /\ length' = length + 1 /\ out' = NoFrame
      BY <2>1 DEF Uncovered, Go
    <3>2. NmeaBytes' = length + 1 /\ NmeaTotal' = length + 1 + 2 /\ NmeaVerdict' = "none"
      BY <3>1, NoNmeaVerdict DEF NmeaBytes, NmeaTotal, NmeaRoutines
    <3>. QED BY <1>2, <3>2
             DEF NmeaFramer!Byte, NmeaFramer!Asterisk, NmeaFramer!Grow, NmeaFramer!Unknown
  <2>. QED BY <1>4, <1>6, <2>1 DEF mmpNmeaFindAsterisk
<1>. QED BY <1>3, <1>5, <1>6

\* The two digits (mmpNmeaChecksumByte1, mmpNmeaChecksumByte2).
LEMMA NmeaDigitMapped ==
  ASSUME StateInv, NEW data,
         \/ mmpNmeaChecksumByte("mmpNmeaChecksumByte1", "mmpNmeaChecksumByte2", data)
         \/ mmpNmeaChecksumByte("mmpNmeaChecksumByte2", "mmpNmeaLineTermination", data)
  PROVE  NmeaFramer!Byte
<1>1. state \in {"mmpNmeaChecksumByte1", "mmpNmeaChecksumByte2"} /\ state \in NmeaRoutines
  BY DEF mmpNmeaChecksumByte, In, NmeaRoutines
<1>2. NmeaBytes = length /\ length \in Nat /\ length > 0 BY <1>1, NmeaNotEmpty
<1>3. /\ state = "mmpNmeaChecksumByte1" => NmeaTotal = length + 2
      /\ state = "mmpNmeaChecksumByte2" => NmeaTotal = length + 1
  BY DEF NmeaTotal
<1>4. NmeaTotal \in Nat /\ NmeaTotal # -1 /\ NmeaBytes < NmeaTotal BY <1>1, <1>2, <1>3
<1>5. CASE Restart(data)
  BY <1>4, <1>5, NmeaFirstByte, NoNmeaVerdict, NmeaDropped DEF Restart, NmeaFramer!Byte
<1>6. ASSUME NEW r \in {"mmpNmeaChecksumByte2", "mmpNmeaLineTermination"}, Uncovered(r),
             NmeaTotal = length + 1 + (IF r = "mmpNmeaChecksumByte2" THEN 1 ELSE 0)
      PROVE  NmeaFramer!Byte
  <2>1. state' = r /\ length' = length + 1 /\ out' = NoFrame BY <1>6 DEF Uncovered, Go
  <2>2. NmeaBytes' = length + 1 /\ NmeaVerdict' = "none"
    BY <2>1, NoNmeaVerdict DEF NmeaBytes, NmeaRoutines
  <2>3. NmeaTotal' = NmeaTotal
    BY <1>2, <1>6, <2>1 DEF NmeaTotal
  <2>. QED BY <1>2, <1>4, <2>2, <2>3
           DEF NmeaFramer!Byte, NmeaFramer!Digit, NmeaFramer!Grow, NmeaFramer!Unknown
<1>7. CASE In("mmpNmeaChecksumByte1") /\ Uncovered("mmpNmeaChecksumByte2")
  <2>1. NmeaTotal = length + 1 + 1 BY <1>2, <1>3, <1>7 DEF In
  <2>. QED BY <1>6, <1>7, <2>1
<1>8. CASE In("mmpNmeaChecksumByte2") /\ Uncovered("mmpNmeaLineTermination")
  <2>1. NmeaTotal = length + 1 + 0 BY <1>2, <1>3, <1>8 DEF In
  <2>. QED BY <1>6, <1>8, <2>1
<1>. QED BY <1>5, <1>7, <1>8 DEF mmpNmeaChecksumByte

\* mmpNmeaLineTermination judges the sentence, whatever the byte.
LEMMA NmeaEndMapped ==
  ASSUME StateInv, NEW data, NEW equal \in BOOLEAN, NEW answeredFalse \in BOOLEAN,
         mmpNmeaLineTermination(data, equal, answeredFalse)
  PROVE  NmeaFramer!Byte
<1>1. state = "mmpNmeaLineTermination" /\ state \in NmeaRoutines
  BY DEF mmpNmeaLineTermination, In, NmeaRoutines
<1>2. NmeaBytes = NmeaTotal BY <1>1, NmeaNotEmpty DEF NmeaTotal
<1>3. NoSentence
  <2>1. CASE state' = "mmpFirstByte" BY <2>1, NmeaOutside DEF NoSentence, NmeaRoutines
  <2>2. CASE mmpFirstByte(data) BY <2>2, NmeaFirstByte
  <2>. QED BY <2>1, <2>2 DEF mmpNmeaLineTermination
<1>4. NmeaVerdict' \in {"delivered", "refused"}
  <2>1. out' = mmpNmeaValidateChecksum(equal, answeredFalse) BY DEF mmpNmeaLineTermination
  <2>2. out'.protocol = 1 /\ out'.result # "none"
    BY <2>1, Enum DEF mmpNmeaValidateChecksum, Judged
  <2>. QED BY <2>2, Enum DEF NmeaVerdict
<1>. QED BY <1>2, <1>3, <1>4
     DEF NoSentence, NmeaFramer!Byte, NmeaFramer!Judge, NmeaFramer!Elsewhere, NmeaFramer!Unknown

\* A routine of another protocol judges no sentence and leads to no NMEA routine but
\* through mmpFirstByte.
LEMMA NotNmea ==
  ASSUME StateInv,
         \/ PassesOver
         \/ \E data \in Bytes :
              \/ SearchByte(data)
              \/ mmpSempSync("mmpSempSync2", "mmpSempSync3", 68, data)
              \/ mmpSempSync("mmpSempSync3", "mmpSempReadHeader", 24, data)
              \/ mmpUbloxSync2(data) \/ mmpUbloxReadLength(data)
  PROVE  NmeaFramer!Byte
<1>1. state \notin NmeaRoutines
  BY ZenonT(30) DEF PassesOver, mmpSempReadHeader, mmpSempReadData, mmpSempReadCrc, mmpUbloxReadClass,
         mmpUbloxReadMessageId, mmpUbloxReadData, mmpUbloxChecksumA, mmpUbloxChecksumB, SearchByte,
         mmpSempSync, mmpUbloxSync2, mmpUbloxReadLength, In, NmeaRoutines
<1>2. NmeaTotal = -1 BY <1>1, NmeaOutside
<1>3. ASSUME state' \notin NmeaRoutines, out' = NoFrame \/ out'.protocol # 1
      PROVE  NmeaFramer!Byte
  BY <1>2, <1>3, NmeaOutside, NoNmeaVerdict, NmeaDropped DEF NoSentence, NmeaFramer!Byte
<1>4. ASSUME NEW r, Go(r), r \notin NmeaRoutines PROVE NmeaFramer!Byte
  BY <1>3, <1>4 DEF Go
<1>5. ASSUME NEW r, Uncovered(r), r \notin NmeaRoutines PROVE NmeaFramer!Byte
  BY <1>4, <1>5 DEF Uncovered
<1>6. ASSUME NEW data, Restart(data) PROVE NmeaFramer!Byte
  BY <1>2, <1>6, NmeaFirstByte, NoNmeaVerdict, NmeaDropped DEF Restart, NmeaFramer!Byte
<1>7. ASSUME NEW verdict, End(verdict), verdict = NoFrame \/ verdict.protocol # 1
      PROVE  NmeaFramer!Byte
  BY <1>3, <1>7 DEF End, NmeaRoutines
<1>8. ASSUME NEW p \in {"SEMP", "UBLOX"}, NEW ok, NEW len, NEW covered,
             End(Judged(p, ok, ok, len, covered))
      PROVE  NmeaFramer!Byte
  <2>1. Judged(p, ok, ok, len, covered).protocol # 1 BY Enum DEF Judged
  <2>. QED BY <1>7, <1>8, <2>1
<1>9. CASE mmpSempReadHeader
  BY ZenonT(30), <1>4, <1>7, <1>9 DEF mmpSempReadHeader, mmpSempHeaderComplete, ExpectCrc, NmeaRoutines
<1>10. CASE mmpSempReadData
  BY ZenonT(30), <1>4, <1>10 DEF mmpSempReadData, ExpectCrc, NmeaRoutines
<1>11. ASSUME NEW equal \in BOOLEAN, mmpSempReadCrc(equal) PROVE NmeaFramer!Byte
  BY ZenonT(30), <1>4, <1>8, <1>11 DEF mmpSempReadCrc, NmeaRoutines
<1>12. CASE mmpUbloxReadClass BY <1>5, <1>12 DEF mmpUbloxReadClass, NmeaRoutines
<1>13. CASE mmpUbloxReadMessageId BY <1>4, <1>13 DEF mmpUbloxReadMessageId, NmeaRoutines
<1>14. CASE mmpUbloxReadData
  <2>1. PICK r \in {"mmpUbloxChecksumA", "mmpUbloxReadData"} : Go(r) BY <1>14 DEF mmpUbloxReadData
  <2>. QED BY <1>4, <2>1 DEF NmeaRoutines
<1>15. ASSUME NEW equal \in BOOLEAN, mmpUbloxChecksumA(equal) \/ mmpUbloxChecksumB(equal)
       PROVE  NmeaFramer!Byte
  BY ZenonT(30), <1>5, <1>8, <1>15 DEF mmpUbloxChecksumA, mmpUbloxChecksumB, NmeaRoutines
<1>16. ASSUME NEW data \in Bytes, SearchByte(data) PROVE NmeaFramer!Byte
  BY <1>6, <1>16 DEF SearchByte
<1>17. ASSUME NEW data \in Bytes,
              \/ mmpSempSync("mmpSempSync2", "mmpSempSync3", 68, data)
              \/ mmpSempSync("mmpSempSync3", "mmpSempReadHeader", 24, data)
       PROVE  NmeaFramer!Byte
  BY ZenonT(30), <1>4, <1>6, <1>17 DEF mmpSempSync, NmeaRoutines
<1>18. ASSUME NEW data \in Bytes, mmpUbloxSync2(data) PROVE NmeaFramer!Byte
  BY <1>5, <1>6, <1>18 DEF mmpUbloxSync2, NmeaRoutines
<1>19. ASSUME NEW data \in Bytes, mmpUbloxReadLength(data) PROVE NmeaFramer!Byte
  <2>1. PICK r \in {"mmpUbloxReadLength", "mmpUbloxChecksumA", "mmpUbloxReadData"} : Go(r)
    BY ZenonT(30), <1>19 DEF mmpUbloxReadLength
  <2>. QED BY <1>4, <2>1 DEF NmeaRoutines
<1>. QED BY <1>9, <1>10, <1>11, <1>12, <1>13, <1>14, <1>15, <1>16, <1>17, <1>18, <1>19
     DEF PassesOver

\* A full buffer never holds a complete sentence, and what it holds is given up.
LEMMA NmeaFullMapped ==
  ASSUME StateInv, NEW data, BufferFull(data)
  PROVE  NmeaFramer!Byte
<1>1. mmpFirstByte(data) /\ out' = NoFrame /\ ~(length < bufferLength) BY DEF BufferFull, HasRoom
<1>2. NoSentence /\ NmeaVerdict' = "none" BY <1>1, NmeaFirstByte, NoNmeaVerdict
<1>3. CASE state \notin NmeaRoutines
  BY <1>2, <1>3, NmeaOutside, NmeaDropped DEF NmeaFramer!Byte
<1>4. CASE state \in NmeaRoutines
  <2>1. NmeaBytes >= bufferLength BY <1>1, <1>4, NmeaNotEmpty
  <2>. QED BY <1>2, <2>1
       DEF NoSentence, NmeaFramer!Byte, NmeaFramer!GiveUp, NmeaFramer!Elsewhere, NmeaFramer!Unknown
<1>. QED BY <1>3, <1>4

\* Every step of the parser is a step of the NMEA framer.
LEMMA NmeaMapped ==
  ASSUME StateInv, [Next]_vars
  PROVE  [NmeaFramer!Next]_(NmeaFramer!vars)
<1>1. CASE mmpProcessByte
  <2>1. NmeaFramer!Byte
    <3>1. CASE PassesOver BY <3>1, NotNmea
    <3>2. ASSUME NEW data \in Bytes, LooksAt(data) PROVE NmeaFramer!Byte
      BY <3>2, NmeaTextMapped, NmeaDigitMapped, NmeaEndMapped, NmeaFullMapped, NotNmea DEF LooksAt
    <3>. QED BY <1>1, <3>1, <3>2 DEF mmpProcessByte
  <2>. QED BY <1>1, <2>1, SameRoom DEF NmeaFramer!Next
<1>2. ASSUME NEW n \in BufferLengths, mmpInitParser(n) PROVE NmeaFramer!Reset
  <2>1. bufferLength' \in Nat BY <1>2, MultiBuffers, Words DEF mmpInitParser
  <2>2. NmeaBytes' = 0 /\ NmeaTotal' = -1
    BY <1>2, NmeaOutside DEF mmpInitParser, NmeaRoutines
  <2>3. NmeaVerdict' = "none" BY <1>2, NoNmeaVerdict DEF mmpInitParser
  <2>. QED BY <2>1, <2>2, <2>3 DEF NmeaFramer!Reset, NmeaFramer!Between, NmeaFramer!Unknown
<1>3. CASE UNCHANGED vars
  <2>1. UNCHANGED <<bufferLength, NmeaBytes, NmeaTotal, NmeaVerdict>>
    BY <1>3 DEF vars, NmeaBytes, NmeaTotal, NmeaVerdict
  <2>. QED BY <2>1 DEF NmeaFramer!vars
<1>. QED BY <1>1, <1>2, <1>3 DEF Next, NmeaFramer!Next

\* In the mixed stream an NMEA sentence is judged once, complete with its two digits, at
\* the byte behind them, which is not lost when it begins the next frame.
THEOREM MultiFramesNmea == Spec => FramesNmea
<1>1. Init => NmeaFramer!Init
  <2>. SUFFICES ASSUME Init PROVE NmeaFramer!Init OBVIOUS
  <2>1. bufferLength \in Nat BY MultiBuffers, Words DEF Init
  <2>2. NmeaBytes = 0 /\ NmeaTotal = -1 BY NmeaOutside DEF Init, NmeaRoutines
  <2>3. NmeaVerdict = "none" BY DEF Init, NmeaVerdict, NoFrame
  <2>. QED BY <2>1, <2>2, <2>3 DEF NmeaFramer!Init, NmeaFramer!Between, NmeaFramer!Unknown
<1>2. StateInv /\ ReportInv /\ [Next]_vars => [NmeaFramer!Next]_(NmeaFramer!vars) BY NmeaMapped
<1>. QED BY <1>1, <1>2, MultiInvariant, PTL DEF Spec, FramesNmea, NmeaFramer!Spec

=============================================================================
