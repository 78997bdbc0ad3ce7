------------------------------ MODULE LinkProofs ------------------------------
(***************************************************************************)
(* Proofs about Link: for frames of every length, every buffer and any     *)
(* number of faults, an undisturbed frame is followed and delivered.  The  *)
(* invariant of MultiParserProofs says how far the parser has come;        *)
(* ParserFollows ties that to how far the sender has.                      *)
(***************************************************************************)
EXTENDS Link, MultiParserProofs

\* How long a prover may take for one leaf.
USE SMTT(30), ZenonT(30)

\* What is sent: how long the frames are, and where the parser has them complete.
LEMMA FrameLengths ==
  ASSUME NEW f \in Frames
  PROVE  /\ f.data \in Nat /\ f.data \in uint16_t
         /\ f.protocol \in {"SEMP", "NMEA", "UBLOX"}
         /\ f.protocol = "SEMP" => FrameLength(f) = 24 + f.data /\ Complete(f) = 24 + f.data
         /\ f.protocol = "UBLOX" => FrameLength(f) = 8 + f.data /\ Complete(f) = 8 + f.data
         /\ f.protocol = "NMEA" => FrameLength(f) = 8 + f.data /\ Complete(f) = 7 + f.data
<1>1. f.data \in Nat /\ f.data \in uint16_t /\ f.protocol \in {"SEMP", "NMEA", "UBLOX"}
  BY LinkFrames, Words
<1>2. CASE f.protocol = "SEMP" BY <1>1, <1>2, Enum DEF FrameLength, Complete
<1>3. CASE f.protocol = "UBLOX" BY <1>1, <1>3 DEF FrameLength, Complete
<1>4. CASE f.protocol = "NMEA" BY <1>1, <1>4 DEF FrameLength, Complete
<1>. QED BY <1>1, <1>2, <1>3, <1>4

\* The bytes of a SEMP frame that the parser looks at (sempTestData).
LEMMA SempBytesSent ==
  ASSUME NEW f, f.protocol = "SEMP", NEW i \in Nat \ {0}, NEW content
  PROVE  /\ i = 1 => ByteOf(f, i, content) = 170
         /\ i = 2 => ByteOf(f, i, content) = 68
         /\ i = 3 => ByteOf(f, i, content) = 24
         /\ i > 3 => ByteOf(f, i, content) = content
<1>1. ByteOf(f, i, content) = sempTestData(i, content) BY DEF ByteOf
<1>. QED BY <1>1 DEF sempTestData

\* The bytes of a u-blox frame that the parser looks at (ubloxTestData).
LEMMA UbloxBytesSent ==
  ASSUME NEW f, f.protocol = "UBLOX", NEW i \in Nat \ {0}, NEW content
  PROVE  /\ i = 1 => ByteOf(f, i, content) = 181
         /\ i = 2 => ByteOf(f, i, content) = 98
         /\ i = 5 => ByteOf(f, i, content) = f.data % 256
         /\ i = 6 => ByteOf(f, i, content) = f.data \div 256
         /\ i \notin {1, 2, 5, 6} => ByteOf(f, i, content) = content
<1>1. ByteOf(f, i, content) = ubloxTestData(f, i, content) BY DEF ByteOf
<1>. QED BY <1>1 DEF ubloxTestData, UINT8

\* The bytes of a sentence, each of which the parser looks at (nmeaTestData).
LEMMA NmeaBytesSent ==
  ASSUME NEW f, f.protocol = "NMEA", f.data \in Nat, NEW i \in Nat \ {0}, NEW content
  PROVE  /\ i = 1 => ByteOf(f, i, content) = 36
         /\ i = 2 => ByteOf(f, i, content) = 71
         /\ i = 3 => ByteOf(f, i, content) = 44
         /\ i \in 4 .. 3 + f.data => ByteOf(f, i, content) = 48
         /\ i = 4 + f.data => ByteOf(f, i, content) = 42
         /\ i \in {5 + f.data, 6 + f.data} => ByteOf(f, i, content) = 48
         /\ i = 7 + f.data => ByteOf(f, i, content) = 13
         /\ i = 8 + f.data => ByteOf(f, i, content) = 10
<1>1. ByteOf(f, i, content) = nmeaTestData(f, i) BY DEF ByteOf
<1>. QED BY <1>1 DEF nmeaTestData, Comma, Asterisk, CR, LF

\* The low and the high byte of a length make it up again.
LEMMA LengthSplit ==
  ASSUME NEW n \in uint16_t
  PROVE  n % 256 \in 0 .. 255 /\ n \div 256 \in 0 .. 255 /\ (n % 256) + 256 * (n \div 256) = n
<1>1. n \in Nat /\ n < 65536 BY Words DEF UINT16
<1>2. \A k \in Nat : /\ k % 256 \in 0 .. 255 /\ k \div 256 \in Int /\ k \div 256 >= 0
                    /\ (k % 256) + 256 * (k \div 256) = k
  OBVIOUS
<1>3. \A k \in Nat : k < 65536 => k \div 256 < 256 OBVIOUS
<1>. QED BY <1>1, <1>2, <1>3

\* What is sent are bytes.
LEMMA BytesSent ==
  ASSUME NEW f \in Frames, NEW i \in 1 .. FrameLength(f), NEW content \in Contents
  PROVE  ByteOf(f, i, content) \in uint8_t
<1>1. /\ f.data \in Nat /\ f.data \in uint16_t /\ f.protocol \in {"SEMP", "NMEA", "UBLOX"}
      /\ i \in Nat \ {0}
  BY FrameLengths
<1>2. content \in uint8_t /\ \A n : n \in 0 .. 255 => n \in uint8_t
  BY LinkContents DEF uint8_t, UINT8
<1>3. CASE f.protocol = "SEMP" BY <1>1, <1>2, <1>3, SempBytesSent
<1>4. CASE f.protocol = "UBLOX" BY <1>1, <1>2, <1>4, UbloxBytesSent, LengthSplit
<1>5. CASE f.protocol = "NMEA"
  <2>1. FrameLength(f) = 8 + f.data BY <1>5, FrameLengths
  <2>2. i <= 3 \/ i \in 4 .. 3 + f.data \/ i \in {4 + f.data, 5 + f.data, 6 + f.data, 7 + f.data, 8 + f.data}
    BY <1>1, <2>1
  <2>. QED BY <1>1, <1>2, <1>5, <2>2, NmeaBytesSent
<1>. QED BY <1>1, <1>3, <1>4, <1>5

-----------------------------------------------------------------------------
(* What the parser does with a byte.                                       *)

\* While there is room, the byte goes to the routine that state points to.
LEMMA Dispatch ==
  ASSUME NEW data, HasRoom, LooksAt(data) \/ PassesOver
  PROVE  /\ state = "mmpFirstByte" => SearchByte(data)
         /\ state = "mmpSempSync2" => mmpSempSync("mmpSempSync2", "mmpSempSync3", 68, data)
         /\ state = "mmpSempSync3" => mmpSempSync("mmpSempSync3", "mmpSempReadHeader", 24, data)
         /\ state = "mmpSempReadHeader" => mmpSempReadHeader
         /\ state = "mmpSempReadData" => mmpSempReadData
         /\ state = "mmpSempReadCrc" => \E equal \in BOOLEAN : mmpSempReadCrc(equal)
         /\ state = "mmpNmeaFindFirstComma" => mmpNmeaFindFirstComma(data)
         /\ state = "mmpNmeaFindAsterisk" => mmpNmeaFindAsterisk(data)
         /\ state = "mmpNmeaChecksumByte1" =>
              mmpNmeaChecksumByte("mmpNmeaChecksumByte1", "mmpNmeaChecksumByte2", data)
         /\ state = "mmpNmeaChecksumByte2" =>
              mmpNmeaChecksumByte("mmpNmeaChecksumByte2", "mmpNmeaLineTermination", data)
         /\ state = "mmpNmeaLineTermination" =>
              \E equal, answeredFalse \in BOOLEAN : mmpNmeaLineTermination(data, equal, answeredFalse)
         /\ state = "mmpUbloxSync2" => mmpUbloxSync2(data)
         /\ state = "mmpUbloxReadClass" => mmpUbloxReadClass
         /\ state = "mmpUbloxReadMessageId" => mmpUbloxReadMessageId
         /\ state = "mmpUbloxReadLength" => mmpUbloxReadLength(data)
         /\ state = "mmpUbloxReadData" => mmpUbloxReadData
         /\ state = "mmpUbloxChecksumA" => \E equal \in BOOLEAN : mmpUbloxChecksumA(equal)
         /\ state = "mmpUbloxChecksumB" => \E equal \in BOOLEAN : mmpUbloxChecksumB(equal)
<1>1. ~BufferFull(data) BY DEF BufferFull
<1>2. SearchByte(data) => state = "mmpFirstByte" BY DEF SearchByte, In
<1>3. \A r, n, s : mmpSempSync(r, n, s, data) => state = r BY DEF mmpSempSync, In
<1>4. mmpSempReadHeader => state = "mmpSempReadHeader" BY DEF mmpSempReadHeader, In
<1>5. mmpSempReadData => state = "mmpSempReadData" BY DEF mmpSempReadData, In
<1>6. \A e \in BOOLEAN : mmpSempReadCrc(e) => state = "mmpSempReadCrc" BY DEF mmpSempReadCrc, In
<1>7. mmpNmeaFindFirstComma(data) => state = "mmpNmeaFindFirstComma" BY DEF mmpNmeaFindFirstComma, In
<1>8. mmpNmeaFindAsterisk(data) => state = "mmpNmeaFindAsterisk" BY DEF mmpNmeaFindAsterisk, In
<1>9. \A r, n : mmpNmeaChecksumByte(r, n, data) => state = r BY DEF mmpNmeaChecksumByte, In
<1>10. \A e, f \in BOOLEAN : mmpNmeaLineTermination(data, e, f) => state = "mmpNmeaLineTermination"
  BY DEF mmpNmeaLineTermination, In
<1>11. mmpUbloxSync2(data) => state = "mmpUbloxSync2" BY DEF mmpUbloxSync2, In
<1>12. mmpUbloxReadClass => state = "mmpUbloxReadClass" BY DEF mmpUbloxReadClass, In
<1>13. mmpUbloxReadMessageId => state = "mmpUbloxReadMessageId" BY DEF mmpUbloxReadMessageId, In
<1>14. mmpUbloxReadLength(data) => state = "mmpUbloxReadLength" BY ZenonT(30) DEF mmpUbloxReadLength, In
<1>15. mmpUbloxReadData => state = "mmpUbloxReadData" BY DEF mmpUbloxReadData, In
<1>16. \A e \in BOOLEAN : mmpUbloxChecksumA(e) => state = "mmpUbloxChecksumA"
  BY DEF mmpUbloxChecksumA, In
<1>17. \A e \in BOOLEAN : mmpUbloxChecksumB(e) => state = "mmpUbloxChecksumB"
  BY DEF mmpUbloxChecksumB, In
<1>18. CASE LooksAt(data)
  BY <1>1, <1>2, <1>3, <1>7, <1>8, <1>9, <1>10, <1>11, <1>14, <1>18 DEF LooksAt
<1>19. CASE PassesOver
  BY <1>4, <1>5, <1>6, <1>12, <1>13, <1>15, <1>16, <1>17, <1>19 DEF PassesOver
<1>. QED BY <1>18, <1>19

\* The preamble that mmpFirstByte finds.
LEMMA Preambles ==
  ASSUME NEW data, mmpFirstByte(data)
  PROVE  /\ data = 170 => state' = "mmpSempSync2"
         /\ data = 36 => state' = "mmpNmeaFindFirstComma"
         /\ data = 181 => state' = "mmpUbloxSync2"
         /\ data \notin {170, 36, 181} => state' = "mmpFirstByte"
<1>1. /\ Len(mmp_parserTable) = 4 /\ mmp_parserTable[1] = "SEMP" /\ mmp_parserTable[2] = "NMEA"
      /\ mmp_parserTable[3] = "UBLOX" /\ mmp_parserTable[4] = "RTCM"
  BY DEF mmp_parserTable
<1>2. /\ Claims(data)["SEMP"] <=> data = 170
      /\ Claims(data)["NMEA"] <=> data = 36
      /\ Claims(data)["UBLOX"] <=> data = 181
      /\ ~Claims(data)["RTCM"]
  BY ZenonT(30) DEF Claims
<1>3. CASE \E i \in 1 .. Len(mmp_parserTable) :
             /\ Claims(data)[mmp_parserTable[i]]
             /\ \/ mmp_parserTable[i] = "SEMP" /\ mmpSempPreamble
                \/ mmp_parserTable[i] = "NMEA" /\ mmpNmeaPreamble
                \/ mmp_parserTable[i] = "UBLOX" /\ mmpUbloxPreamble
  <2>1. PICK i \in 1 .. 4 :
             /\ Claims(data)[mmp_parserTable[i]]
             /\ \/ mmp_parserTable[i] = "SEMP" /\ mmpSempPreamble
                \/ mmp_parserTable[i] = "NMEA" /\ mmpNmeaPreamble
                \/ mmp_parserTable[i] = "UBLOX" /\ mmpUbloxPreamble
    BY <1>1, <1>3
  <2>2. CASE mmp_parserTable[i] = "SEMP" BY <1>2, <2>1, <2>2 DEF mmpSempPreamble
  <2>3. CASE mmp_parserTable[i] = "NMEA" BY <1>2, <2>1, <2>3 DEF mmpNmeaPreamble
  <2>4. CASE mmp_parserTable[i] = "UBLOX" BY <1>2, <2>1, <2>4 DEF mmpUbloxPreamble
  <2>. QED BY <2>1, <2>2, <2>3, <2>4
<1>4. CASE /\ \A i \in 1 .. Len(mmp_parserTable) : ~Claims(data)[mmp_parserTable[i]]
           /\ state' = "mmpFirstByte"
  <2>1. data \notin {170, 36, 181} BY <1>1, <1>2, <1>4
  <2>. QED BY <1>4, <2>1
<1>. QED BY <1>3, <1>4 DEF mmpFirstByte

\* A routine that goes on judges nothing.
LEMMA Goes ==
  ASSUME NEW r, Go(r)
  PROVE  /\ state' = r /\ length' = length + 1 /\ bufferLength' = bufferLength
         /\ out'.result = "none"
BY DEF Go, NoFrame

\* A frame with a right check is delivered.
LEMMA RightCheck ==
  ASSUME NEW p, NEW n, NEW c, NEW accepted \in BOOLEAN, NEW equal \in BOOLEAN,
         out' = Judged(p, accepted, equal, n, c), equal => accepted,
         out'.result # "none" => out'.equal
  PROVE  /\ out'.result = "delivered" /\ out'.protocol = MMP_PROTOCOL[p] /\ out'.len = n
         /\ equal = TRUE /\ accepted = TRUE
<1>1. out'.result = IF accepted THEN "delivered" ELSE "error" BY DEF Judged
<1>2. out'.result # "none" BY <1>1
<1>3. out'.equal = equal BY DEF Judged
<1>4. equal BY <1>2, <1>3
<1>5. accepted BY <1>4
<1>6. out'.protocol = MMP_PROTOCOL[p] /\ out'.len = n BY DEF Judged
<1>. QED BY ZenonT(30), <1>1, <1>4, <1>5, <1>6

\* The false answer of mmpProcessByte comes only with the search: from a byte that
\* starts nothing, and from the end of a frame.
LEMMA FalseBetween ==
  ASSUME NEW data, LooksAt(data) \/ PassesOver, ~answer'
  PROVE  state' = "mmpFirstByte"
<1>1. ASSUME NEW r, Go(r) PROVE FALSE BY <1>1 DEF Go
<1>2. ASSUME NEW d, mmpFirstByte(d) PROVE state' = "mmpFirstByte" BY ZenonT(30), <1>2, FirstByte
<1>3. ASSUME NEW v, End(v) PROVE state' = "mmpFirstByte" BY <1>3 DEF End
<1>4. CASE PassesOver
  BY ZenonT(30), <1>1, <1>3, <1>4
     DEF PassesOver, mmpSempReadHeader, mmpSempHeaderComplete, mmpSempReadData, ExpectCrc, Uncovered,
         mmpSempReadCrc, mmpUbloxReadClass, mmpUbloxReadMessageId, mmpUbloxReadData,
         mmpUbloxChecksumA, mmpUbloxChecksumB
<1>5. CASE LooksAt(data)
  BY ZenonT(30), <1>1, <1>2, <1>5
     DEF LooksAt, BufferFull, SearchByte, Restart, mmpSempSync, Uncovered, mmpNmeaFindFirstComma,
         mmpNmeaNameComma, mmpNmeaFindAsterisk, mmpNmeaChecksumByte, mmpNmeaLineTermination,
         mmpUbloxSync2, mmpUbloxReadLength
<1>. QED BY <1>4, <1>5

\* In a full buffer no routine is called.
LEMMA WhenFull ==
  ASSUME NEW data, ~HasRoom, LooksAt(data) \/ PassesOver
  PROVE  BufferFull(data)
BY ZenonT(30) DEF LooksAt, PassesOver, In, SearchByte, mmpSempSync, mmpNmeaFindFirstComma, mmpNmeaFindAsterisk,
       mmpNmeaChecksumByte, mmpNmeaLineTermination, mmpUbloxSync2, mmpUbloxReadLength,
       mmpSempReadHeader, mmpSempReadData, mmpSempReadCrc, mmpUbloxReadClass, mmpUbloxReadMessageId,
       mmpUbloxReadData, mmpUbloxChecksumA, mmpUbloxChecksumB

\* lengthBytes is set only between the bytes of a length field.
InLengthField == lengthBytes = 1 => state = "mmpUbloxReadLength" /\ declared # Unset

\* A byte keeps it so: the buffer cannot be full there (mmpUbloxReadLength).
LEMMA LengthFieldStep ==
  ASSUME StateInv, InLengthField, NEW data \in uint8_t, LooksAt(data) \/ PassesOver
  PROVE  InLengthField'
<1>1. lengthBytes \in {0, 1} BY DEF StateInv, StructType, Fields
<1>2. CASE lengthBytes = 1
  <2>1. state = "mmpUbloxReadLength" /\ length = 5 /\ bufferLength \in Nat /\ bufferLength >= 256
    BY <1>2, Words, Enum DEF InLengthField, StateInv, Inv, UbloxInv, StructType, Fields
  <2>2. HasRoom BY <2>1 DEF HasRoom
  <2>3. mmpUbloxReadLength(data) BY <2>1, <2>2, Dispatch
  <2>. QED BY <1>2, <2>3 DEF mmpUbloxReadLength, InLengthField
<1>3. CASE lengthBytes = 0
  <2>1. CASE UNCHANGED lengthBytes BY <1>3, <2>1 DEF InLengthField
  <2>2. CASE mmpUbloxReadLength(data)
    <3>1. data # Unset BY TwoBytes
    <3>. QED BY <1>3, <2>2, <3>1 DEF mmpUbloxReadLength, InLengthField, Go
  <2>3. ASSUME NEW d, mmpFirstByte(d) PROVE UNCHANGED lengthBytes BY ZenonT(30), <2>3, FirstByte
  <2>4. ASSUME NEW v, End(v) PROVE UNCHANGED lengthBytes BY <2>4 DEF End
  <2>5. CASE PassesOver
    BY ZenonT(30), <2>1, <2>4, <2>5
       DEF PassesOver, mmpSempReadHeader, mmpSempHeaderComplete, mmpSempReadData, ExpectCrc, Uncovered,
           mmpSempReadCrc, mmpUbloxReadClass, mmpUbloxReadMessageId, mmpUbloxReadData,
           mmpUbloxChecksumA, mmpUbloxChecksumB
  <2>6. CASE LooksAt(data)
    BY <2>1, <2>2, <2>3, <2>6
       DEF LooksAt, BufferFull, SearchByte, Restart, mmpSempSync, Uncovered, mmpNmeaFindFirstComma,
           mmpNmeaNameComma, mmpNmeaFindAsterisk, mmpNmeaChecksumByte, mmpNmeaLineTermination,
           mmpUbloxSync2
  <2>. QED BY <2>5, <2>6
<1>. QED BY <1>1, <1>2, <1>3

\* A u-blox payload begins only behind both bytes of the length field, as long as
\* lengthBytes is set only between them.
LEMMA LengthReadStep ==
  ASSUME StateInv, InLengthField, LengthFieldRead, NEW data \in uint8_t, LooksAt(data) \/ PassesOver
  PROVE  LengthFieldRead'
<1>1. CASE ~HasRoom
  <2>1. mmpFirstByte(data) BY <1>1, WhenFull DEF BufferFull
  <2>. QED BY <2>1, Preambles DEF LengthFieldRead
<1>2. CASE HasRoom /\ state = "mmpUbloxReadData"
  <2>1. mmpUbloxReadData BY <1>2, Dispatch
  <2>. QED BY <1>2, <2>1 DEF mmpUbloxReadData, LengthFieldRead
<1>3. CASE HasRoom /\ state = "mmpUbloxReadLength"
  <2>1. mmpUbloxReadLength(data) BY <1>3, Dispatch
  <2>2. CASE lengthBytes = 0 BY <2>1, <2>2 DEF mmpUbloxReadLength, Go, LengthFieldRead
  <2>3. CASE lengthBytes = 1
    <3>1. declared # Unset BY <2>3 DEF InLengthField
    <3>2. declared \in Nat BY <3>1, Words DEF StateInv, StructType, Fields
    <3>3. declared' = declared + 256 * data
      <4>1. lengthBytes # 0 BY <2>3
      <4>2. PICK n \in (IF declared = Unset THEN MessageLengths ELSE {declared + 256 * data}) :
              declared' = IF declared = Unset THEN Unset ELSE n
        BY ZenonT(30), <2>1, <4>1 DEF mmpUbloxReadLength
      <4>. QED BY <3>1, <4>2
    <3>4. data \in Nat BY DEF uint8_t
    <3>5. declared + 256 * data \in Nat BY <3>2, <3>4
    <3>6. declared' # Unset BY <3>3, <3>5, TwoBytes DEF Unset
    <3>. QED BY <3>6 DEF LengthFieldRead
  <2>. QED BY <2>1, <2>2, <2>3 DEF mmpUbloxReadLength
<1>4. CASE HasRoom /\ state \notin {"mmpUbloxReadData", "mmpUbloxReadLength"}
  <2>. SUFFICES state' # "mmpUbloxReadData"
    BY DEF LengthFieldRead
  <2>1. ASSUME NEW d, mmpFirstByte(d) PROVE state' # "mmpUbloxReadData" BY <2>1, Preambles
  <2>2. ASSUME NEW v, End(v) PROVE state' # "mmpUbloxReadData" BY <2>2 DEF End
  <2>3. CASE PassesOver
    BY ZenonT(30), <1>4, <2>2, <2>3
       DEF PassesOver, In, Go, mmpSempReadHeader, mmpSempHeaderComplete, mmpSempReadData, ExpectCrc,
           Uncovered, mmpSempReadCrc, mmpUbloxReadClass, mmpUbloxReadMessageId, mmpUbloxReadData,
           mmpUbloxChecksumA, mmpUbloxChecksumB
  <2>4. CASE LooksAt(data)
    BY <1>4, <2>1, <2>4
       DEF LooksAt, In, Go, BufferFull, SearchByte, Restart, mmpSempSync, Uncovered,
           mmpNmeaFindFirstComma, mmpNmeaNameComma, mmpNmeaFindAsterisk, mmpNmeaChecksumByte,
           mmpNmeaLineTermination, mmpUbloxSync2, mmpUbloxReadLength
  <2>. QED BY <2>3, <2>4
<1>. QED BY <1>1, <1>2, <1>3, <1>4

-----------------------------------------------------------------------------
(* The next byte of an undisturbed frame that fits.                        *)

\* The byte takes the parser on in the frame, or completes and delivers it.
Advances ==
  /\ bufferLength' = bufferLength
  /\ sent' < Complete(frame) => Followed' /\ out'.result = "none"
  /\ sent' = Complete(frame) =>
       /\ state' = "mmpFirstByte" /\ out'.result = "delivered"
       /\ out'.protocol = MMP_PROTOCOL[frame.protocol] /\ out'.len = FrameLength(frame)

\* Sender and parser are at the same place, and the next byte arrives.
NextByte ==
  /\ StateInv /\ frame \in Frames /\ Fits(frame)
  /\ sent \in Nat /\ sent > 0 /\ sent < Complete(frame) /\ Followed
  /\ \E content \in Contents : LooksAt(ByteOf(frame, sent + 1, content)) \/ PassesOver
  /\ Reads(frame)
  /\ frame' = frame /\ sent' = sent + 1

\* There is room for it.
LEMMA RoomForIt ==
  ASSUME NextByte
  PROVE  /\ HasRoom /\ length = sent /\ length \in Nat /\ bufferLength \in Nat
         /\ frame.data \in Nat /\ (declared = Unset \/ declared \in uint16_t)
<1>1. length = sent /\ length \in Nat /\ bufferLength \in Nat
  BY Words DEF NextByte, Followed, StateInv, StructType, Fields
<1>2. Complete(frame) <= FrameLength(frame) /\ FrameLength(frame) \in Nat /\ Complete(frame) \in Nat
  BY FrameLengths DEF NextByte
<1>3. HasRoom BY <1>1, <1>2 DEF NextByte, Fits, HasRoom
<1>. QED BY <1>1, <1>3, FrameLengths DEF NextByte, StateInv, StructType, Fields

\* A SEMP frame: sync bytes, header, data, CRC.
LEMMA SempFollows ==
  ASSUME NextByte, frame.protocol = "SEMP"
  PROVE  Advances
<1>1. /\ HasRoom /\ length = sent /\ length \in Nat /\ frame.data \in Nat
      /\ Complete(frame) = 24 + frame.data /\ FrameLength(frame) = 24 + frame.data
      /\ sent' = sent + 1 /\ frame' = frame
  BY RoomForIt, FrameLengths DEF NextByte
<1>2. PICK content \in Contents : LooksAt(ByteOf(frame, sent + 1, content)) \/ PassesOver
  BY DEF NextByte
<1>3. state \in SempRoutines /\ (state \in {"mmpSempReadData", "mmpSempReadCrc"} => declared = frame.data)
  BY DEF NextByte, Followed, AtSemp
<1>4. SempInv BY DEF NextByte, StateInv, Inv
<1>5. ASSUME NEW r \in SempRoutines, Go(r), length + 1 < 24 + frame.data,
             r \in {"mmpSempReadData", "mmpSempReadCrc"} => declared' = frame.data
      PROVE  Advances
  <2>1. state' = r /\ length' = length + 1 /\ bufferLength' = bufferLength /\ out'.result = "none"
    BY <1>5, Goes
  <2>2. AtSemp' BY <1>1, <1>5, <2>1 DEF AtSemp
  <2>3. Followed' BY <1>1, <2>1, <2>2 DEF Followed
  <2>. QED BY <1>1, <1>5, <2>1, <2>3 DEF Advances
<1>6. CASE state = "mmpSempSync2"
  <2>1. length = 1 BY <1>4, <1>6 DEF SempInv
  <2>2. ByteOf(frame, sent + 1, content) = 68 BY <1>1, <2>1, SempBytesSent
  <2>3. Go("mmpSempSync3") BY <1>1, <1>2, <1>6, <2>2, Dispatch DEF mmpSempSync
  <2>. QED BY <1>1, <1>5, <2>1, <2>3 DEF SempRoutines
<1>7. CASE state = "mmpSempSync3"
  <2>1. length = 2 BY <1>4, <1>7 DEF SempInv
  <2>2. ByteOf(frame, sent + 1, content) = 24 BY <1>1, <2>1, SempBytesSent
  <2>3. Go("mmpSempReadHeader") BY <1>1, <1>2, <1>7, <2>2, Dispatch DEF mmpSempSync
  <2>. QED BY <1>1, <1>5, <2>1, <2>3 DEF SempRoutines
<1>8. CASE state = "mmpSempReadHeader"
  <2>1. length \in 3 .. 19 BY <1>4, <1>8, Enum DEF SempInv
  <2>2. mmpSempReadHeader BY <1>1, <1>2, <1>8, Dispatch
  <2>3. CASE Go("mmpSempReadHeader") BY <1>1, <1>5, <2>1, <2>3 DEF SempRoutines
  <2>4. CASE length + 1 >= 20 /\ (mmpSempHeaderComplete \/ End(NoFrame))
    <3>1. length + 1 = 20 BY <2>1, <2>4
    <3>2. state' # "mmpFirstByte" /\ declared' = frame.data
      BY <1>8, <3>1, Enum DEF NextByte, Reads
    <3>3. mmpSempHeaderComplete BY <2>4, <3>2 DEF End
    <3>4. Go("mmpSempReadCrc") \/ Go("mmpSempReadData") BY <3>3 DEF mmpSempHeaderComplete, ExpectCrc
    <3>. QED BY <1>1, <1>5, <3>1, <3>2, <3>4 DEF SempRoutines
  <2>. QED BY <2>2, <2>3, <2>4, Enum DEF mmpSempReadHeader
<1>9. scratchPad.bytesRemaining \in uint16_t \cup {Unset}
  BY DEF NextByte, StateInv, StructType, Fields, ScratchPads
<1>10. CASE state = "mmpSempReadData"
  <2>1. /\ declared = frame.data /\ scratchPad.bytesRemaining \in 1 .. declared
        /\ scratchPad.bytesRemaining + length = 20 + declared
    BY <1>3, <1>4, <1>10, Enum DEF SempInv
  <2>2. length + 1 < 24 + frame.data BY <1>1, <2>1
  <2>3. mmpSempReadData BY <1>1, <1>2, <1>10, Dispatch
  <2>4. declared' = frame.data /\ (Go("mmpSempReadCrc") \/ Go("mmpSempReadData"))
    BY <2>1, <2>3 DEF mmpSempReadData, ExpectCrc
  <2>. QED BY <1>5, <2>2, <2>4 DEF SempRoutines
<1>11. CASE state = "mmpSempReadCrc"
  <2>1. /\ declared = frame.data /\ scratchPad.bytesRemaining \in 1 .. 4
        /\ scratchPad.bytesRemaining + length = 24 + declared
    BY <1>1, <1>3, <1>4, <1>11, Enum DEF SempInv
  <2>2. scratchPad.bytesRemaining \in uint16_t BY <1>9, <2>1 DEF Unset
  <2>3. Decrement(scratchPad.bytesRemaining, UINT16) = scratchPad.bytesRemaining - 1
    BY <2>1, <2>2, Counting
  <2>4. PICK equal \in BOOLEAN : mmpSempReadCrc(equal) BY <1>1, <1>2, <1>11, Dispatch
  <2>5. CASE Decrement(scratchPad.bytesRemaining, UINT16) # 0
    <3>1. length + 1 < 24 + frame.data BY <1>1, <2>1, <2>3, <2>5
    <3>2. Go("mmpSempReadCrc") /\ declared' = frame.data BY <2>1, <2>4, <2>5 DEF mmpSempReadCrc
    <3>. QED BY <1>5, <3>1, <3>2 DEF SempRoutines
  <2>6. CASE Decrement(scratchPad.bytesRemaining, UINT16) = 0
    <3>1. length + 1 = 24 + frame.data BY <1>1, <2>1, <2>3, <2>6
    <3>2. End(Judged("SEMP", equal, equal, length + 1, scratchPad.crc.inverted))
      BY <2>4, <2>6 DEF mmpSempReadCrc
    <3>3. /\ state' = "mmpFirstByte" /\ bufferLength' = bufferLength
          /\ out' = Judged("SEMP", equal, equal, length + 1, scratchPad.crc.inverted)
      BY <3>2 DEF End
    <3>4. out'.result # "none" => out'.equal BY DEF NextByte, Reads
    <3>5. out'.result = "delivered" /\ out'.protocol = MMP_PROTOCOL["SEMP"] /\ out'.len = length + 1
      BY ZenonT(30), <3>3, <3>4, RightCheck
    <3>. QED BY <1>1, <3>1, <3>3, <3>5 DEF Advances
  <2>. QED BY <2>5, <2>6
<1>. QED BY <1>3, <1>6, <1>7, <1>8, <1>10, <1>11 DEF SempRoutines

\* The second length byte completes the length (mmpUbloxReadLength).
LEMMA HighByte ==
  ASSUME NEW data, mmpUbloxReadLength(data), lengthBytes = 1, declared # Unset
  PROVE  /\ Go("mmpUbloxChecksumA") \/ Go("mmpUbloxReadData")
         /\ declared' = declared + 256 * data
<1>1. lengthBytes # 0 OBVIOUS
<1>2. \E n \in IF declared = Unset THEN MessageLengths ELSE {declared + 256 * data} :
         /\ Go(IF n = 0 THEN "mmpUbloxChecksumA" ELSE "mmpUbloxReadData")
         /\ scratchPad' = [scratchPad EXCEPT !.bytesRemaining = n, !.checksum = @ + 1]
         /\ declared' = IF declared = Unset THEN Unset ELSE n
  BY <1>1, ZenonT(30) DEF mmpUbloxReadLength
<1>. QED BY <1>2

\* A u-blox frame: sync bytes, class, id, the two bytes of the length, data, checksum.
LEMMA UbloxFollows ==
  ASSUME NextByte, InLengthField, frame.protocol = "UBLOX"
  PROVE  Advances
<1>1. /\ HasRoom /\ length = sent /\ length \in Nat /\ frame.data \in Nat /\ frame.data \in uint16_t
      /\ Complete(frame) = 8 + frame.data /\ FrameLength(frame) = 8 + frame.data
      /\ sent' = sent + 1 /\ frame' = frame
  BY RoomForIt, FrameLengths DEF NextByte
<1>2. PICK content \in Contents : LooksAt(ByteOf(frame, sent + 1, content)) \/ PassesOver
  BY DEF NextByte
<1>3. /\ state \in UbloxRoutines
      /\ state = "mmpUbloxReadLength" /\ sent = 5 => declared = frame.data % 256
      /\ state \in {"mmpUbloxReadData", "mmpUbloxChecksumA", "mmpUbloxChecksumB"} =>
           declared = frame.data
  BY DEF NextByte, Followed, AtUblox, UINT8
<1>4. UbloxInv BY DEF NextByte, StateInv, Inv
<1>5. frame.data # Unset BY <1>1 DEF Unset
<1>6. ASSUME NEW r \in UbloxRoutines, Go(r), length + 1 < 8 + frame.data,
             r = "mmpUbloxReadLength" /\ length + 1 = 5 => declared' = frame.data % 256,
             r \in {"mmpUbloxReadData", "mmpUbloxChecksumA", "mmpUbloxChecksumB"} =>
               declared' = frame.data
      PROVE  Advances
  <2>1. state' = r /\ length' = length + 1 /\ bufferLength' = bufferLength /\ out'.result = "none"
    BY <1>6, Goes
  <2>2. AtUblox' BY <1>1, <1>6, <2>1 DEF AtUblox, UINT8
  <2>3. Followed' BY <1>1, <2>1, <2>2 DEF Followed
  <2>. QED BY <1>1, <1>6, <2>1, <2>3 DEF Advances
<1>7. CASE state = "mmpUbloxSync2"
  <2>1. length = 1 BY <1>4, <1>7 DEF UbloxInv
  <2>2. ByteOf(frame, sent + 1, content) = 98 BY <1>1, <2>1, UbloxBytesSent
  <2>3. Go("mmpUbloxReadClass") BY <1>1, <1>2, <1>7, <2>2, Dispatch DEF mmpUbloxSync2, Uncovered
  <2>. QED BY <1>1, <1>6, <2>1, <2>3 DEF UbloxRoutines
<1>8. CASE state = "mmpUbloxReadClass"
  <2>1. length = 2 BY <1>4, <1>8 DEF UbloxInv
  <2>2. Go("mmpUbloxReadMessageId") BY <1>1, <1>2, <1>8, Dispatch DEF mmpUbloxReadClass, Uncovered
  <2>. QED BY <1>1, <1>6, <2>1, <2>2 DEF UbloxRoutines
<1>9. CASE state = "mmpUbloxReadMessageId"
  <2>1. length = 3 BY <1>4, <1>9 DEF UbloxInv
  <2>2. Go("mmpUbloxReadLength") BY <1>1, <1>2, <1>9, Dispatch DEF mmpUbloxReadMessageId
  <2>. QED BY <1>1, <1>6, <2>1, <2>2 DEF UbloxRoutines
<1>10. CASE state = "mmpUbloxReadLength"
  <2>1. mmpUbloxReadLength(ByteOf(frame, sent + 1, content)) BY <1>1, <1>2, <1>10, Dispatch
  <2>2. CASE declared = Unset
    <3>1. length = 4 BY <1>4, <1>10, <2>2, TwoBytes DEF UbloxInv
    <3>2. lengthBytes # 1 BY <2>2 DEF InLengthField
    <3>3. Go("mmpUbloxReadLength") /\ declared' = ByteOf(frame, sent + 1, content)
      BY ZenonT(30), <2>1, <3>2 DEF mmpUbloxReadLength
    <3>4. ByteOf(frame, sent + 1, content) = frame.data % 256 BY <1>1, <3>1, UbloxBytesSent
    <3>5. length + 1 < 8 + frame.data BY <1>1, <3>1
    <3>6. "mmpUbloxReadLength" \in UbloxRoutines BY DEF UbloxRoutines
    <3>7. declared' = frame.data % 256 BY <3>3, <3>4
    <3>. QED BY <1>6, <3>3, <3>5, <3>6, <3>7
  <2>3. CASE declared # Unset
    <3>1. length = 5 /\ lengthBytes = 1 BY <1>4, <1>10, <2>3 DEF UbloxInv
    <3>2. declared = frame.data % 256 BY <1>1, <1>3, <1>10, <3>1
    <3>3. ByteOf(frame, sent + 1, content) = frame.data \div 256 BY <1>1, <3>1, UbloxBytesSent
    <3>4. declared + 256 * ByteOf(frame, sent + 1, content) = frame.data BY <1>1, <3>2, <3>3, LengthSplit
    <3>5. (Go("mmpUbloxChecksumA") \/ Go("mmpUbloxReadData")) /\ declared' = frame.data
      BY <2>1, <2>3, <3>1, <3>4, HighByte
    <3>. QED BY <1>1, <1>6, <3>1, <3>5 DEF UbloxRoutines
  <2>. QED BY <2>2, <2>3
<1>11. CASE state = "mmpUbloxReadData"
  <2>1. scratchPad.bytesRemaining \in uint16_t \cup {Unset}
    BY DEF NextByte, StateInv, StructType, Fields, ScratchPads
  <2>2. /\ declared = frame.data /\ scratchPad.bytesRemaining > 0
        /\ scratchPad.bytesRemaining + length = 6 + declared
    BY <1>3, <1>4, <1>5, <1>11 DEF UbloxInv
  <2>3. scratchPad.bytesRemaining \in Int BY <2>1, Words DEF Unset
  <2>4. length + 1 < 8 + frame.data BY <1>1, <2>2, <2>3
  <2>5. mmpUbloxReadData BY <1>1, <1>2, <1>11, Dispatch
  <2>6. declared' = frame.data /\ (Go("mmpUbloxChecksumA") \/ Go("mmpUbloxReadData"))
    BY <2>2, <2>5 DEF mmpUbloxReadData
  <2>. QED BY <1>6, <2>4, <2>6 DEF UbloxRoutines
<1>12. out'.result # "none" => out'.equal BY DEF NextByte, Reads
<1>13. CASE state = "mmpUbloxChecksumA"
  <2>1. declared = frame.data /\ length = 6 + frame.data BY <1>3, <1>4, <1>5, <1>13 DEF UbloxInv
  <2>2. PICK equal \in BOOLEAN : mmpUbloxChecksumA(equal) BY <1>1, <1>2, <1>13, Dispatch
  <2>3. CASE Uncovered("mmpUbloxChecksumB")
    BY <1>1, <1>6, <2>1, <2>3 DEF Uncovered, UbloxRoutines
  <2>4. CASE out' = Judged("UBLOX", FALSE, FALSE, length + 1, scratchPad.checksum)
    <3>1. FALSE = TRUE BY ZenonT(30), <1>12, <2>4, RightCheck
    <3>. QED BY <3>1
  <2>. QED BY ZenonT(30), <2>2, <2>3, <2>4 DEF mmpUbloxChecksumA, End
<1>14. CASE state = "mmpUbloxChecksumB"
  <2>1. length + 1 = 8 + frame.data BY <1>1, <1>3, <1>4, <1>5, <1>14 DEF UbloxInv
  <2>2. PICK equal \in BOOLEAN : mmpUbloxChecksumB(equal) BY <1>1, <1>2, <1>14, Dispatch
  <2>3. /\ state' = "mmpFirstByte" /\ bufferLength' = bufferLength
        /\ out' = Judged("UBLOX", equal, equal, length + 1, scratchPad.checksum)
    BY <2>2 DEF mmpUbloxChecksumB, End
  <2>4. out'.result = "delivered" /\ out'.protocol = MMP_PROTOCOL["UBLOX"] /\ out'.len = length + 1
    BY ZenonT(30), <1>12, <2>3, RightCheck
  <2>. QED BY <1>1, <2>1, <2>3, <2>4 DEF Advances
<1>. QED BY <1>3, <1>7, <1>8, <1>9, <1>10, <1>11, <1>13, <1>14 DEF UbloxRoutines

\* What the sentence is made of, as the parser tells characters apart.
LEMMA Characters ==
  /\ IsNameCharacter(71) /\ ~IsNameCharacter(44)
  /\ semp_util_asciiToNibble(48) = 0
<1>1. 71 \div 32 = 2 /\ 44 \div 32 = 1 /\ 48 \div 32 = 1 OBVIOUS
<1>2. 2 % 2 = 0 /\ 1 % 2 = 1 OBVIOUS
<1>3. ClearBit5(71) = 71 /\ ClearBit5(44) = 12 /\ SetBit5(48) = 48
  BY <1>1, <1>2 DEF ClearBit5, SetBit5
<1>4. semp_util_asciiToNibble(48) = 0 BY <1>3 DEF semp_util_asciiToNibble
<1>. QED BY <1>3, <1>4 DEF IsNameCharacter

\* A sentence: $, its name, the comma, data, *, two digits, CR.
LEMMA NmeaFollows ==
  ASSUME NextByte, frame.protocol = "NMEA"
  PROVE  Advances
<1>1. /\ HasRoom /\ length = sent /\ length \in Nat /\ frame.data \in Nat /\ bufferLength \in Nat
      /\ Complete(frame) = 7 + frame.data /\ FrameLength(frame) = 8 + frame.data
      /\ sent' = sent + 1 /\ frame' = frame /\ sent > 0 /\ 8 + frame.data <= bufferLength
  BY RoomForIt, FrameLengths DEF NextByte, Fits
<1>2. PICK content \in Contents : LooksAt(ByteOf(frame, sent + 1, content)) \/ PassesOver
  BY DEF NextByte
<1>3. AtNmea BY DEF NextByte, Followed
<1>4. NmeaInv BY DEF NextByte, StateInv, Inv
<1>5. ASSUME NEW r, Go(r),
             \/ length + 1 <= 2 /\ r = "mmpNmeaFindFirstComma"
             \/ length + 1 \in 3 .. 3 + frame.data /\ r = "mmpNmeaFindAsterisk"
             \/ length + 1 = 4 + frame.data /\ r = "mmpNmeaChecksumByte1"
             \/ length + 1 = 5 + frame.data /\ r = "mmpNmeaChecksumByte2"
             \/ length + 1 = 6 + frame.data /\ r = "mmpNmeaLineTermination"
      PROVE  Advances
  <2>1. state' = r /\ length' = length + 1 /\ bufferLength' = bufferLength /\ out'.result = "none"
    BY <1>5, Goes
  <2>2. AtNmea' BY <1>1, <1>5, <2>1 DEF AtNmea
  <2>3. Followed' BY <1>1, <2>1, <2>2 DEF Followed
  <2>4. length + 1 < 7 + frame.data BY <1>1, <1>5
  <2>. QED BY <1>1, <2>1, <2>3, <2>4 DEF Advances
<1>6. CASE sent <= 2 /\ state = "mmpNmeaFindFirstComma"
  <2>1. mmpNmeaFindFirstComma(ByteOf(frame, sent + 1, content)) BY <1>1, <1>2, <1>6, Dispatch
  <2>2. scratchPad.sentenceNameLength \in -1 .. 15
    BY DEF NextByte, StateInv, StructType, Fields, ScratchPads, Unset, SEMP_SENTENCE_NAME_BYTES
  <2>3. scratchPad.sentenceNameLength = sent - 1 BY <1>1, <1>4, <1>6, <2>2 DEF NmeaInv
  <2>4. CASE sent = 1
    <3>1. ByteOf(frame, sent + 1, content) = 71 BY <1>1, <2>4, NmeaBytesSent
    <3>2. Go("mmpNmeaFindFirstComma")
      BY <2>1, <2>3, <2>4, <3>1, Characters
         DEF mmpNmeaFindFirstComma, mmpNmeaNameComma, Comma, SEMP_SENTENCE_NAME_BYTES
    <3>. QED BY <1>1, <1>5, <2>4, <3>2
  <2>5. CASE sent = 2
    <3>1. ByteOf(frame, sent + 1, content) = 44 BY <1>1, <2>5, NmeaBytesSent
    <3>2. Go("mmpNmeaFindAsterisk")
      BY <2>1, <2>3, <2>5, <3>1, Characters DEF mmpNmeaFindFirstComma, mmpNmeaNameComma, Comma
    <3>3. length + 1 \in 3 .. 3 + frame.data BY <1>1, <2>5
    <3>. QED BY <1>5, <3>2, <3>3
  <2>. QED BY <1>1, <1>6, <2>4, <2>5
<1>7. CASE sent \in 3 .. 3 + frame.data /\ state = "mmpNmeaFindAsterisk"
  <2>1. mmpNmeaFindAsterisk(ByteOf(frame, sent + 1, content)) BY <1>1, <1>2, <1>7, Dispatch
  <2>2. CASE sent = 3 + frame.data
    <3>1. sent + 1 = 4 + frame.data /\ sent + 1 \in Nat \ {0} BY <1>1, <2>2
    <3>2. ByteOf(frame, sent + 1, content) = 42 BY <1>1, <3>1, NmeaBytesSent
    <3>3. Go("mmpNmeaChecksumByte1")
      BY <2>1, <3>2 DEF mmpNmeaFindAsterisk, Asterisk, Uncovered
    <3>. QED BY <1>1, <1>5, <3>1, <3>3
  <2>3. CASE sent < 3 + frame.data
    <3>1. /\ sent + 1 \in 4 .. 3 + frame.data /\ sent + 1 \in Nat \ {0}
          /\ length + 1 \in 3 .. 3 + frame.data
      BY <1>1, <1>7, <2>3
    <3>2. ByteOf(frame, sent + 1, content) = 48 BY <1>1, <3>1, NmeaBytesSent
    <3>3. ~(length + 1 + 5 > bufferLength) BY <1>1, <3>1
    <3>4. Go("mmpNmeaFindAsterisk") BY <2>1, <3>2, <3>3 DEF mmpNmeaFindAsterisk, Asterisk
    <3>. QED BY <1>5, <3>1, <3>4
  <2>. QED BY <1>1, <1>7, <2>2, <2>3
<1>8. CASE sent = 4 + frame.data /\ state = "mmpNmeaChecksumByte1"
  <2>1. sent + 1 = 5 + frame.data /\ sent + 1 \in Nat \ {0} BY <1>1, <1>8
  <2>2. ByteOf(frame, sent + 1, content) = 48 BY <1>1, <2>1, NmeaBytesSent
  <2>3. mmpNmeaChecksumByte("mmpNmeaChecksumByte1", "mmpNmeaChecksumByte2", ByteOf(frame, sent + 1, content))
    BY <1>1, <1>2, <1>8, Dispatch
  <2>4. Go("mmpNmeaChecksumByte2") BY <2>2, <2>3, Characters DEF mmpNmeaChecksumByte, Uncovered
  <2>. QED BY <1>1, <1>5, <2>1, <2>4
<1>9. CASE sent = 5 + frame.data /\ state = "mmpNmeaChecksumByte2"
  <2>1. sent + 1 = 6 + frame.data /\ sent + 1 \in Nat \ {0} BY <1>1, <1>9
  <2>2. ByteOf(frame, sent + 1, content) = 48 BY <1>1, <2>1, NmeaBytesSent
  <2>3. mmpNmeaChecksumByte("mmpNmeaChecksumByte2", "mmpNmeaLineTermination", ByteOf(frame, sent + 1, content))
    BY <1>1, <1>2, <1>9, Dispatch
  <2>4. Go("mmpNmeaLineTermination") BY <2>2, <2>3, Characters DEF mmpNmeaChecksumByte, Uncovered
  <2>. QED BY <1>1, <1>5, <2>1, <2>4
<1>10. CASE sent = 6 + frame.data /\ state = "mmpNmeaLineTermination"
  <2>1. sent + 1 = 7 + frame.data /\ sent + 1 \in Nat \ {0} BY <1>1, <1>10
  <2>2. ByteOf(frame, sent + 1, content) = 13 BY <1>1, <2>1, NmeaBytesSent
  <2>3. PICK equal \in BOOLEAN, answeredFalse \in BOOLEAN :
           mmpNmeaLineTermination(ByteOf(frame, sent + 1, content), equal, answeredFalse)
    BY <1>1, <1>2, <1>10, Dispatch
  <2>4. /\ state' = "mmpFirstByte" /\ bufferLength' = bufferLength
        /\ out' = mmpNmeaValidateChecksum(equal, answeredFalse)
    BY <2>2, <2>3 DEF mmpNmeaLineTermination, CR, LF
  <2>5. PICK accepted \in BOOLEAN : accepted = (equal \/ answeredFalse) OBVIOUS
  <2>6. out' = Judged("NMEA", accepted, equal, length + (IF accepted THEN 2 ELSE 0), crc.cover)
    BY <2>4, <2>5 DEF mmpNmeaValidateChecksum
  <2>7. out'.result # "none" => out'.equal BY DEF NextByte, Reads
  <2>8. equal => accepted BY ZenonT(30), <2>5
  <2>9. /\ out'.result = "delivered" /\ out'.protocol = MMP_PROTOCOL["NMEA"]
        /\ out'.len = length + (IF accepted THEN 2 ELSE 0) /\ accepted = TRUE
    BY ZenonT(30), <2>6, <2>7, <2>8, RightCheck
  <2>10. out'.len = 8 + frame.data BY <1>1, <2>1, <2>9
  <2>. QED BY <1>1, <2>1, <2>4, <2>9, <2>10 DEF Advances
<1>. QED BY <1>3, <1>6, <1>7, <1>8, <1>9, <1>10 DEF AtNmea

-----------------------------------------------------------------------------
(* The steps of the composition.                                           *)

\* In the search every byte goes to mmpFirstByte, whether there is room or not.
LEMMA Searches ==
  ASSUME NEW data, state = "mmpFirstByte", LooksAt(data) \/ PassesOver
  PROVE  mmpFirstByte(data) /\ out'.result = "none"
<1>1. CASE HasRoom BY <1>1, Dispatch DEF SearchByte, Restart, NoFrame
<1>2. CASE ~HasRoom BY <1>2, WhenFull DEF BufferFull, NoFrame
<1>. QED BY <1>1, <1>2

\* The receiver's and the sender's variables.
LinkTypes ==
  /\ left \in Nat /\ skipped \in Nat /\ faults \in Nat
  /\ frame \in Frames \cup {Silence} /\ sent \in 0 .. FrameLength(frame)
  /\ sent = 0 => frame = Silence

\* The inductive invariant: of the parser, of the sender, and of both.
LinkInv == StateInv /\ LinkTypes /\ ParserFollows /\ UndisturbedFrameDelivered

\* The sender's next byte: one of a new frame, or the next of the same one.
LEMMA Turns ==
  ASSUME LinkTypes, Turn
  PROVE  /\ frame' \in Frames /\ sent' \in 1 .. FrameLength(frame') /\ sent' \in Nat /\ sent' > 0
         /\ Between => sent' = 1
         /\ ~Between => /\ frame' = frame /\ frame \in Frames /\ sent' = sent + 1
                        /\ sent \in Nat /\ sent < FrameLength(frame)
<1>1. FrameLength(Silence) = 0 BY DEF FrameLength, Silence
<1>2. \A f \in Frames : FrameLength(f) \in Nat /\ FrameLength(f) >= 1 BY FrameLengths
<1>3. FrameLength(frame) \in Nat /\ sent \in Nat /\ sent <= FrameLength(frame)
  BY <1>1, <1>2 DEF LinkTypes
<1>4. CASE Between
  <2>1. frame' \in Frames /\ sent' = 1 BY <1>4 DEF Turn
  <2>. QED BY <1>2, <1>4, <2>1
<1>5. CASE ~Between
  <2>1. sent < FrameLength(frame) BY <1>3, <1>5 DEF Between
  <2>2. frame \in Frames BY <1>1, <1>3, <2>1 DEF LinkTypes
  <2>3. frame' = frame /\ sent' = sent + 1 BY <1>5 DEF Turn
  <2>. QED BY <1>3, <1>5, <2>1, <2>2, <2>3
<1>. QED BY <1>4, <1>5

\* What a step of the composition is for the parser: a byte, a new set-up outside a
\* length field, or nothing.
LEMMA ParserSteps ==
  ASSUME LinkTypes, LinkNext
  PROVE  \/ \E data \in uint8_t : LooksAt(data) \/ PassesOver
         \/ lengthBytes = 0 /\ \E n \in BufferLengths : mmpInitParser(n)
         \/ UNCHANGED vars
<1>1. CASE SendByte
  <2>1. \A content \in Contents : ByteOf(frame', sent', content) \in uint8_t
    BY <1>1, Turns, BytesSent DEF SendByte
  <2>. QED BY <1>1, <2>1 DEF SendByte, Receive
<1>2. CASE SkipByte BY <1>2 DEF SkipByte
<1>3. CASE SendNoise BY <1>3, LinkNoise DEF SendNoise, Receive
<1>4. CASE LoseByte BY <1>4 DEF LoseByte, receiverVars
<1>5. CASE ChangeByte BY <1>5, MultiBytes DEF ChangeByte, Receive
<1>6. CASE InsertByte BY <1>6, MultiBytes DEF InsertByte, Receive
<1>7. CASE ReceiveBlock BY <1>7 DEF ReceiveBlock, mmpProcessBuffer
<1>8. CASE SetUpAgain BY <1>8 DEF SetUpAgain
<1>. QED BY <1>1, <1>2, <1>3, <1>4, <1>5, <1>6, <1>7, <1>8 DEF LinkNext, Sends

\* The parser's own invariant is kept, and that of its length field.
LEMMA ParserKept ==
  ASSUME StateInv, InLengthField, LinkTypes, [LinkNext]_linkVars
  PROVE  StateInv' /\ InLengthField'
<1>1. CASE \E data \in uint8_t : LooksAt(data) \/ PassesOver
  <2>1. PICK data \in uint8_t : LooksAt(data) \/ PassesOver BY <1>1
  <2>2. StateInv' BY <2>1, ByteStep
  <2>3. InLengthField' BY <2>1, LengthFieldStep
  <2>. QED BY <2>2, <2>3
<1>2. CASE lengthBytes = 0 /\ \E n \in BufferLengths : mmpInitParser(n)
  <2>1. PICK n \in BufferLengths : mmpInitParser(n) BY <1>2
  <2>2. StateInv' BY <2>1, SetUpStep
  <2>3. InLengthField' BY <1>2, <2>1 DEF mmpInitParser, InLengthField
  <2>. QED BY <2>2, <2>3
<1>3. CASE UNCHANGED vars BY <1>3, IdleStep DEF vars, InLengthField
<1>4. CASE UNCHANGED linkVars BY <1>3, <1>4 DEF linkVars, receiverVars
<1>. QED BY <1>1, <1>2, <1>3, <1>4, ParserSteps

\* mmpProcessBuffer's count stays a number; without an array nothing is counted.
LEMMA Blocks ==
  ASSUME LinkTypes, NEW data, Receive(data)
  PROVE  left' \in Nat /\ skipped' \in Nat /\ (left = 0 => left' = left /\ skipped' = skipped)
<1>1. left \in Nat /\ skipped \in Nat BY DEF LinkTypes
<1>2. CASE OneByte BY <1>1, <1>2 DEF OneByte, block
<1>3. CASE BlockByte BY <1>1, <1>3 DEF BlockByte
<1>. QED BY <1>2, <1>3 DEF Receive

\* Sender and receiver keep their types.
LEMMA TypesKept ==
  ASSUME LinkTypes, [LinkNext]_linkVars
  PROVE  LinkTypes'
<1>1. left \in Nat /\ skipped \in Nat /\ faults \in Nat BY DEF LinkTypes
<1>2. ASSUME NEW data, Receive(data) PROVE left' \in Nat /\ skipped' \in Nat BY <1>2, Blocks
<1>3. ASSUME Turn
      PROVE  /\ frame' \in Frames \cup {Silence} /\ sent' \in 0 .. FrameLength(frame')
             /\ sent' = 0 => frame' = Silence
  BY <1>3, Turns
<1>4. ASSUME UNCHANGED <<frame, sent>>
      PROVE  /\ frame' \in Frames \cup {Silence} /\ sent' \in 0 .. FrameLength(frame')
             /\ sent' = 0 => frame' = Silence
  BY <1>4 DEF LinkTypes
<1>5. ASSUME Fault PROVE faults' \in Nat BY <1>1, <1>5 DEF Fault
<1>6. CASE SendByte BY <1>1, <1>2, <1>3, <1>6 DEF SendByte, LinkTypes
<1>7. CASE SkipByte BY <1>1, <1>3, <1>7 DEF SkipByte, LinkTypes
<1>8. CASE SendNoise
  <2>1. FrameLength(Silence) = 0 BY DEF FrameLength, Silence
  <2>. QED BY <1>1, <1>2, <1>8, <2>1 DEF SendNoise, LinkTypes
<1>9. CASE LoseByte BY <1>1, <1>3, <1>5, <1>9 DEF LoseByte, receiverVars, LinkTypes
<1>10. CASE ChangeByte BY <1>2, <1>3, <1>5, <1>10 DEF ChangeByte, LinkTypes
<1>11. CASE InsertByte BY <1>2, <1>4, <1>5, <1>11 DEF InsertByte, LinkTypes
<1>12. CASE ReceiveBlock
  <2>1. left' \in Nat /\ skipped' \in Nat
    BY <1>12, ReceiverBlocks, Words DEF ReceiveBlock, mmpProcessBuffer
  <2>. QED BY <1>4, <1>5, <1>12, <2>1 DEF ReceiveBlock, LinkTypes
<1>13. CASE SetUpAgain BY <1>1, <1>4, <1>5, <1>13 DEF SetUpAgain, block, LinkTypes
<1>14. CASE UNCHANGED linkVars BY <1>1, <1>4, <1>14 DEF linkVars, receiverVars, LinkTypes
<1>. QED BY <1>6, <1>7, <1>8, <1>9, <1>10, <1>11, <1>12, <1>13, <1>14 DEF LinkNext, Sends

\* Where mmpProcessBuffer ends early, it does so at the search.
LEMMA EarlyReturn ==
  ASSUME LinkTypes, [LinkNext]_linkVars, left > 1, left' = 0
  PROVE  state' = "mmpFirstByte"
<1>1. left \in Nat BY DEF LinkTypes
<1>2. ASSUME NEW data, Receive(data) PROVE state' = "mmpFirstByte"
  <2>1. left' # left /\ left' # left - 1 BY <1>1
  <2>2. BlockByte BY <1>2, <2>1 DEF Receive, OneByte, block
  <2>3. ~answer' BY <2>1, <2>2 DEF BlockByte
  <2>. QED BY <1>2, <2>3, FalseBetween DEF Receive
<1>3. CASE UNCHANGED left BY <1>1, <1>3
<1>4. CASE ReceiveBlock BY <1>4 DEF ReceiveBlock, mmpProcessBuffer
<1>. QED BY <1>2, <1>3, <1>4
         DEF LinkNext, Sends, SendByte, SkipByte, SendNoise, LoseByte, ChangeByte, InsertByte,
             SetUpAgain, receiverVars, block, linkVars

\* What ParserFollows says of an intact frame, and of a line without faults.
IntactInv ==
  intact =>
    /\ frame \in Frames /\ sent > 0
    /\ Fits(frame) => IF sent < Complete(frame) THEN Followed ELSE state = "mmpFirstByte"

FaultlessInv ==
  faults = 0 =>
    /\ left = 0 /\ skipped = 0
    /\ (\A f \in Frames : Fits(f)) =>
         /\ sent > 0 => intact
         /\ sent = 0 => state = "mmpFirstByte" /\ out.result = "none"

\* The three parts of ParserFollows.
LEMMA FollowsParts == ParserFollows <=> InLengthField /\ IntactInv /\ FaultlessInv
BY DEF ParserFollows, InLengthField, IntactInv, FaultlessInv

\* The first byte of a frame, where the parser takes it for one.
LEMMA FirstByteFollows ==
  ASSUME LinkInv, SendByte, Between
  PROVE  IntactInv' /\ UndisturbedFrameDelivered'
<1>. SUFFICES ASSUME intact'
              PROVE  /\ frame' \in Frames /\ sent' > 0
                     /\ sent' < Complete(frame') /\ Followed' /\ sent' = 1
  BY DEF IntactInv, UndisturbedFrameDelivered, Complete
<1>1. Begins(frame') BY DEF SendByte
<1>2. frame' \in Frames /\ sent' = 1 BY Turns DEF LinkInv, SendByte
<1>3. 1 < Complete(frame') BY <1>2, FrameLengths
<1>4. /\ frame'.protocol = "SEMP" => state' = "mmpSempSync2"
      /\ frame'.protocol = "UBLOX" => state' = "mmpUbloxSync2"
      /\ frame'.protocol = "NMEA" => state' = "mmpNmeaFindFirstComma"
      /\ length' = 1
  BY <1>1 DEF Begins
<1>5. (frame.protocol = "SEMP" => AtSemp)' BY <1>4 DEF AtSemp, SempRoutines
<1>6. (frame.protocol = "UBLOX" => AtUblox)' BY <1>4 DEF AtUblox, UbloxRoutines
<1>7. (frame.protocol = "NMEA" => AtNmea)' BY <1>2, <1>4 DEF AtNmea
<1>8. Followed' BY <1>2, <1>4, <1>5, <1>6, <1>7 DEF Followed
<1>. QED BY <1>2, <1>3, <1>8

\* Every further byte of it.
LEMMA NextByteFollows ==
  ASSUME LinkInv, SendByte, ~Between
  PROVE  IntactInv' /\ UndisturbedFrameDelivered'
<1>. SUFFICES ASSUME intact' PROVE IntactInv' /\ UndisturbedFrameDelivered'
  BY DEF IntactInv, UndisturbedFrameDelivered
<1>1. intact /\ Reads(frame) BY DEF SendByte
<1>2. /\ frame' = frame /\ frame \in Frames /\ sent' = sent + 1 /\ sent' \in Nat /\ sent' > 0
      /\ sent \in Nat /\ sent < FrameLength(frame)
  BY Turns DEF LinkInv, SendByte
<1>3. PICK content \in Contents : LooksAt(ByteOf(frame, sent + 1, content)) \/ PassesOver
  BY <1>2 DEF SendByte, Receive
<1>4. bufferLength' = bufferLength BY <1>3, KeepsRoom
<1>5. Complete(frame') = Complete(frame) /\ FrameLength(frame') = FrameLength(frame) BY <1>2
<1>6. CASE ~Fits(frame)
  <2>1. ~Fits(frame)' BY <1>4, <1>5, <1>6 DEF Fits
  <2>. QED BY <1>2, <2>1 DEF IntactInv, UndisturbedFrameDelivered
<1>7. CASE Fits(frame) /\ sent < Complete(frame)
  <2>1. sent > 0 /\ Followed BY <1>1, <1>2, <1>7, FollowsParts DEF LinkInv, IntactInv
  <2>2. NextByte BY <1>1, <1>2, <1>3, <1>7, <2>1 DEF NextByte, LinkInv
  <2>3. Advances
    BY <1>2, <2>2, SempFollows, UbloxFollows, NmeaFollows, FollowsParts, FrameLengths DEF LinkInv
  <2>4. sent' <= Complete(frame) BY <1>2, <1>7, FrameLengths
  <2>5. CASE sent' < Complete(frame)
    BY <1>2, <1>5, <2>3, <2>5 DEF Advances, IntactInv, UndisturbedFrameDelivered
  <2>6. CASE sent' = Complete(frame)
    <3>1. ~(sent' < Complete(frame)) BY <1>2, <2>6
    <3>. QED BY <1>2, <1>5, <2>3, <2>6, <3>1 DEF Advances, IntactInv, UndisturbedFrameDelivered
  <2>. QED BY <1>2, <2>4, <2>5, <2>6, FrameLengths
<1>8. CASE Fits(frame) /\ ~(sent < Complete(frame))
  <2>1. state = "mmpFirstByte" BY <1>1, <1>8, FollowsParts DEF LinkInv, IntactInv
  <2>2. frame.protocol = "NMEA" /\ sent' = 8 + frame.data /\ frame.data \in Nat
        /\ Complete(frame) = 7 + frame.data
    BY <1>2, <1>8, FrameLengths
  <2>3. ByteOf(frame, sent + 1, content) = 10 BY <1>2, <2>2, NmeaBytesSent
  <2>4. state' = "mmpFirstByte" /\ out'.result = "none" BY <1>3, <2>1, <2>3, Searches, Preambles
  <2>5. ~(sent' < Complete(frame)) /\ sent' # Complete(frame) BY <2>2
  <2>. QED BY <1>2, <1>5, <2>4, <2>5 DEF IntactInv, UndisturbedFrameDelivered
<1>. QED BY <1>6, <1>7, <1>8

\* Without faults the search is on when a frame has been sent.
LEMMA SearchBetween ==
  ASSUME LinkInv, faults = 0, \A f \in Frames : Fits(f), Between
  PROVE  state = "mmpFirstByte"
<1>1. FaultlessInv /\ IntactInv BY FollowsParts DEF LinkInv
<1>2. CASE sent = 0 BY <1>1, <1>2 DEF FaultlessInv
<1>3. CASE sent # 0
  <2>1. FrameLength(Silence) = 0 BY DEF FrameLength, Silence
  <2>2. frame \in Frames BY <1>3, <2>1 DEF LinkInv, LinkTypes, Between
  <2>3. sent \in Nat /\ ~(sent < Complete(frame)) /\ sent > 0
    BY <1>3, <2>2, FrameLengths DEF Between
  <2>4. intact BY <1>1, <2>3 DEF FaultlessInv
  <2>. QED BY <1>1, <2>2, <2>3, <2>4 DEF IntactInv
<1>. QED BY <1>2, <1>3

\* In the search the first byte of a frame is taken for one.
LEMMA FirstByteTaken ==
  ASSUME LinkInv, SendByte, Between, state = "mmpFirstByte"
  PROVE  intact'
<1>1. frame' \in Frames /\ sent' = 1 BY Turns DEF LinkInv, SendByte
<1>2. PICK content \in Contents : LooksAt(ByteOf(frame', sent', content)) \/ PassesOver
  BY DEF SendByte, Receive
<1>3. mmpFirstByte(ByteOf(frame', 1, content)) BY <1>1, <1>2, Searches
<1>4. length' = 1 BY ZenonT(30), <1>3, FirstByte
<1>5. CASE frame'.protocol = "SEMP"
  <2>1. ByteOf(frame', 1, content) = 170 BY <1>5, SempBytesSent
  <2>2. state' = "mmpSempSync2" BY <1>3, <2>1, Preambles
  <2>. QED BY <1>4, <1>5, <2>2 DEF Begins, SendByte
<1>6. CASE frame'.protocol = "UBLOX"
  <2>1. ByteOf(frame', 1, content) = 181 BY <1>6, UbloxBytesSent
  <2>2. state' = "mmpUbloxSync2" BY <1>3, <2>1, Preambles
  <2>. QED BY <1>4, <1>6, <2>2 DEF Begins, SendByte
<1>7. CASE frame'.protocol = "NMEA"
  <2>1. frame'.data \in Nat BY <1>1, FrameLengths
  <2>2. ByteOf(frame', 1, content) = 36 BY <1>7, <2>1, NmeaBytesSent
  <2>3. state' = "mmpNmeaFindFirstComma" BY <1>3, <2>2, Preambles
  <2>. QED BY <1>4, <1>7, <2>3 DEF Begins, SendByte
<1>. QED BY <1>1, <1>5, <1>6, <1>7, FrameLengths

\* In step and between frames, the parser searches.
LEMMA SearchInStep ==
  ASSUME LinkInv, InStep, Between
  PROVE  state = "mmpFirstByte"
<1>. SUFFICES ASSUME intact, Fits(frame) PROVE state = "mmpFirstByte"
  BY DEF InStep
<1>1. IntactInv BY FollowsParts DEF LinkInv
<1>2. frame \in Frames BY <1>1 DEF IntactInv
<1>3. ~(sent < Complete(frame)) BY <1>2, FrameLengths DEF Between
<1>. QED BY <1>1, <1>3 DEF IntactInv

\* Without a fault the parser stays in step.
LEMMA InStepKept ==
  ASSUME LinkInv, [LinkNext]_linkVars, InStep, skipped = 0, faults' = faults, Fits(frame)'
  PROVE  InStep'
<1>1. CASE SendByte
  <2>1. CASE Between
    BY <1>1, <2>1, SearchInStep, FirstByteTaken DEF InStep
  <2>2. CASE ~Between
    BY <1>1, <2>2 DEF InStep, SendByte
  <2>. QED BY <2>1, <2>2
<1>2. CASE SkipByte
  BY <1>2 DEF SkipByte
<1>3. CASE SendNoise
  <2>1. PICK data \in Noise : Receive(data) BY <1>3 DEF SendNoise
  <2>2. LooksAt(data) \/ PassesOver BY <2>1 DEF Receive
  <2>3. data \notin {170, 36, 181} BY LinkNoise
  <2>4. state = "mmpFirstByte" BY <1>3, SearchInStep DEF SendNoise
  <2>5. state' = "mmpFirstByte" BY <2>2, <2>3, <2>4, Searches, Preambles
  <2>6. Between' BY <1>3 DEF SendNoise, Between, FrameLength, Silence
  <2>. QED BY <2>5, <2>6 DEF InStep
<1>4. CASE Fault
  BY <1>4 DEF Fault, LinkInv, LinkTypes
<1>5. CASE UNCHANGED linkVars
  BY <1>5 DEF linkVars, receiverVars, vars, InStep, Between, Fits
<1>. QED BY <1>1, <1>2, <1>3, <1>4, <1>5
         DEF LinkNext, Sends, LoseByte, ChangeByte, InsertByte, ReceiveBlock, SetUpAgain

\* A byte of a frame on a line without faults.
LEMMA FaultlessByte ==
  ASSUME LinkInv, SendByte
  PROVE  FaultlessInv'
<1>. SUFFICES ASSUME faults' = 0 PROVE FaultlessInv'
  BY DEF FaultlessInv
<1>1. faults = 0 /\ LinkTypes BY DEF SendByte, LinkInv
<1>2. FaultlessInv BY FollowsParts DEF LinkInv
<1>3. left' = 0 /\ skipped' = 0
  BY <1>1, <1>2, Blocks DEF FaultlessInv, SendByte
<1>4. /\ frame' \in Frames /\ sent' \in Nat /\ sent' > 0
      /\ Between => sent' = 1
      /\ ~Between => sent \in Nat /\ sent' = sent + 1 /\ frame \in Frames
  BY <1>1, Turns DEF SendByte
<1>5. PICK content \in Contents : LooksAt(ByteOf(frame', sent', content)) \/ PassesOver
  BY DEF SendByte, Receive
<1>6. ASSUME (\A f \in Frames : Fits(f))' PROVE intact'
  <2>1. \A f \in Frames : Fits(f) BY <1>5, <1>6, KeepsRoom DEF Fits
  <2>2. CASE Between BY <1>1, <2>1, <2>2, SearchBetween, FirstByteTaken
  <2>3. CASE ~Between
    <3>1. CASE sent = 0
      <4>1. frame = Silence /\ FrameLength(Silence) = 0
        BY <1>1, <3>1 DEF LinkTypes, FrameLength, Silence
      <4>. QED BY <2>3, <3>1, <4>1 DEF Between
    <3>2. CASE sent # 0
      <4>1. sent > 0 BY <1>4, <2>3, <3>2
      <4>2. intact BY <1>1, <1>2, <2>1, <4>1 DEF FaultlessInv
      <4>. QED BY <2>3, <4>2 DEF SendByte
    <3>. QED BY <3>1, <3>2
  <2>. QED BY <2>2, <2>3
<1>. QED BY <1>3, <1>4, <1>6 DEF FaultlessInv

\* A step disturbs neither the sender's and the parser's agreement nor the delivery.
LEMMA LinkStep ==
  ASSUME LinkInv, [LinkNext]_linkVars
  PROVE  LinkInv'
<1>1. StateInv' /\ InLengthField' /\ LinkTypes'
  BY ParserKept, TypesKept, FollowsParts DEF LinkInv
<1>2. InLengthField' /\ IntactInv' /\ FaultlessInv' => ParserFollows'
  BY DEF ParserFollows, InLengthField, IntactInv, FaultlessInv
<1>3. ASSUME ~intact' PROVE IntactInv' /\ UndisturbedFrameDelivered'
  BY <1>3 DEF IntactInv, UndisturbedFrameDelivered
<1>4. CASE SendByte
  BY <1>1, <1>4, FirstByteFollows, NextByteFollows, FaultlessByte, <1>2 DEF LinkInv
<1>5. CASE SkipByte
  <2>1. skipped # 0 BY <1>5 DEF SkipByte, LinkInv, LinkTypes
  <2>2. FaultlessInv' BY <1>5, <2>1, FollowsParts DEF LinkInv, FaultlessInv, SkipByte
  <2>3. ~intact' BY <1>5 DEF SkipByte
  <2>. QED BY <1>1, <1>3, <2>2, <2>3, <1>2 DEF LinkInv
<1>6. CASE SendNoise
  <2>1. PICK data \in Noise : Receive(data) BY <1>6 DEF SendNoise
  <2>2. LooksAt(data) \/ PassesOver BY <2>1 DEF Receive
  <2>3. data \notin {170, 36, 181} BY LinkNoise
  <2>4. ASSUME faults' = 0 PROVE left' = 0 /\ skipped' = 0
    BY <1>6, <2>1, <2>4, Blocks, FollowsParts DEF LinkInv, FaultlessInv, SendNoise
  <2>5. ASSUME faults' = 0, (\A f \in Frames : Fits(f))'
        PROVE  state' = "mmpFirstByte" /\ out'.result = "none"
    <3>1. \A f \in Frames : Fits(f) BY <2>2, <2>5, KeepsRoom DEF Fits
    <3>2. state = "mmpFirstByte" BY <1>6, <2>5, <3>1, SearchBetween DEF SendNoise
    <3>. QED BY <2>2, <2>3, <3>2, Searches, Preambles
  <2>6. sent' = 0 /\ ~intact' BY <1>6 DEF SendNoise
  <2>7. FaultlessInv' BY <2>4, <2>5, <2>6 DEF FaultlessInv
  <2>. QED BY <1>1, <1>3, <2>6, <2>7, <1>2 DEF LinkInv
<1>7. CASE Fault
  <2>1. faults' # 0 BY <1>7 DEF Fault, LinkInv, LinkTypes
  <2>2. FaultlessInv' BY <2>1 DEF FaultlessInv
  <2>3. ~intact' BY <1>7 DEF Fault
  <2>. QED BY <1>1, <1>3, <2>2, <2>3, <1>2 DEF LinkInv
<1>8. CASE UNCHANGED linkVars
  <2>1. /\ UNCHANGED <<bufferLength, state, length, declared, lengthBytes, out>>
        /\ UNCHANGED <<left, skipped, frame, sent, intact, faults>>
    BY <1>8 DEF linkVars, receiverVars, vars
  <2>2. Followed => Followed' BY <2>1 DEF Followed, AtSemp, AtUblox, AtNmea
  <2>3. \A f \in Frames : Fits(f) <=> Fits(f)' BY <2>1 DEF Fits
  <2>4. IntactInv => IntactInv' BY <2>1, <2>2 DEF IntactInv, Fits
  <2>5. FaultlessInv => FaultlessInv' BY <2>1, <2>3 DEF FaultlessInv
  <2>6. UndisturbedFrameDelivered => UndisturbedFrameDelivered'
    BY <2>1 DEF UndisturbedFrameDelivered, Fits
  <2>. QED BY <1>1, <2>4, <2>5, <2>6, <1>2, FollowsParts DEF LinkInv
<1>. QED BY <1>4, <1>5, <1>6, <1>7, <1>8
         DEF LinkNext, Sends, LoseByte, ChangeByte, InsertByte, ReceiveBlock, SetUpAgain

\* The composition starts in step.
LEMMA LinkStart == LinkInit => LinkInv
<1>. SUFFICES ASSUME LinkInit PROVE LinkInv
  OBVIOUS
<1>1. StateInv BY InitStep DEF LinkInit, ReceiverInit
<1>2. FrameLength(Silence) = 0 BY DEF FrameLength, Silence
<1>3. LinkTypes BY <1>2 DEF LinkInit, ReceiverInit, LinkTypes
<1>4. ~intact BY DEF LinkInit
<1>5. IntactInv /\ UndisturbedFrameDelivered BY <1>4 DEF IntactInv, UndisturbedFrameDelivered
<1>6. InLengthField /\ FaultlessInv
  BY DEF LinkInit, ReceiverInit, Init, NoFrame, InLengthField, FaultlessInv
<1>. QED BY <1>1, <1>3, <1>5, <1>6, FollowsParts DEF LinkInv

-----------------------------------------------------------------------------
(* The theorems.                                                           *)

\* The invariant that ties the parser to the sender, byte for byte: whatever the faults,
\* the frames and the buffers.
THEOREM LinkInvariant == LinkSpec => []LinkInv
<1>1. LinkInit => LinkInv BY LinkStart
<1>2. LinkInv /\ [LinkNext]_linkVars => LinkInv' BY LinkStep
<1>. QED BY <1>1, <1>2, PTL DEF LinkSpec

\* While an undisturbed frame is sent, mmpProcessByte is in the routine for its next
\* byte, holds what was sent of it and has read its length field.
THEOREM LinkParserFollows == LinkSpec => []ParserFollows
<1>1. LinkInv => ParserFollows BY DEF LinkInv
<1>. QED BY <1>1, LinkInvariant, PTL

\* An undisturbed frame that fits into the buffer is delivered, once, at the byte that
\* completes it, as what it is and in full length, after any number of lost, changed and
\* inserted bytes, abandoned arrays and new set-ups.
THEOREM LinkDelivers == LinkSpec => []UndisturbedFrameDelivered
<1>1. LinkInv => UndisturbedFrameDelivered BY DEF LinkInv
<1>. QED BY <1>1, LinkInvariant, PTL

\* As long as nothing goes wrong on the line, the first byte of every frame is taken for
\* one, and noise between frames makes mmpFirstByte report nothing.
THEOREM LinkInStep == LinkSpec => []InStepWithoutFaults
<1>1. LinkInv => InStepWithoutFaults BY DEF LinkInv, ParserFollows, InStepWithoutFaults
<1>. QED BY <1>1, LinkInvariant, PTL

\* A u-blox payload is read only after both bytes of its length, as long as the parser is
\* not set up again within a length field: that is the only way to the static lengthBytes
\* that mmpInitParser leaves set.
THEOREM LinkLengthFieldRead == LinkSpec => []LengthFieldRead
<1>1. LinkInit => LengthFieldRead BY DEF LinkInit, ReceiverInit, Init, LengthFieldRead
<1>2. ASSUME LinkInv, LengthFieldRead, [LinkNext]_linkVars PROVE LengthFieldRead'
  <2>1. StateInv /\ InLengthField /\ LinkTypes BY <1>2, FollowsParts DEF LinkInv
  <2>2. CASE \E data \in uint8_t : LooksAt(data) \/ PassesOver BY <1>2, <2>1, <2>2, LengthReadStep
  <2>3. CASE \E n \in BufferLengths : mmpInitParser(n) BY <2>3 DEF mmpInitParser, LengthFieldRead
  <2>4. CASE UNCHANGED vars BY <1>2, <2>4 DEF vars, LengthFieldRead
  <2>5. CASE UNCHANGED linkVars BY <2>4, <2>5 DEF linkVars, receiverVars
  <2>. QED BY <1>2, <2>1, <2>2, <2>3, <2>4, <2>5, ParserSteps
<1>. QED BY <1>1, <1>2, LinkInvariant, PTL DEF LinkSpec

\* After any delivered frame, and wherever else the search is on between two frames, the
\* parser is in step, and only a fault, an abandoned array or a frame larger than the
\* buffer takes it out of step, whatever went wrong before.
THEOREM LinkStaysInStep == LinkSpec => StaysInStep
<1>1. ASSUME LinkInv, [LinkNext]_linkVars
      PROVE  [InStep /\ skipped = 0 /\ faults' = faults /\ Fits(frame)' => InStep']_linkVars
  BY <1>1, InStepKept
<1>. QED BY <1>1, LinkInvariant, PTL DEF LinkSpec, StaysInStep

\* mmpProcessBuffer gives the rest of an array back only where no frame is under way.
THEOREM LinkReturnsBetweenFrames == LinkSpec => ReturnsBetweenFrames
<1>1. ASSUME LinkInv, [LinkNext]_linkVars
      PROVE  [left > 1 /\ left' = 0 => state' = "mmpFirstByte"]_receiverVars
  BY <1>1, EarlyReturn DEF LinkInv
<1>. QED BY <1>1, LinkInvariant, PTL DEF LinkSpec, ReturnsBetweenFrames

=============================================================================
