-------------------------- MODULE SingleParserProofs --------------------------
(***************************************************************************)
(* Proofs about SingleParser: its invariant Inv is inductive for every     *)
(* buffer size, every message length and every stream, and the properties  *)
(* follow from it.                                                         *)
(***************************************************************************)
EXTENDS SingleParser, TLAPS

\* How long a prover may take for one leaf.
USE SMTT(30), ZenonT(30)

\* 2^16 is a number and room for more than a header and a CRC.
LEMMA Modulus == UINT16 \in Nat /\ UINT16 > 100
BY DEF UINT16

\* The 16-bit words are the numbers below 2^16 (uint16_t).
LEMMA Words == \A n : n \in uint16_t <=> n \in Nat /\ n < UINT16
BY Modulus DEF uint16_t

\* Decrementing a counter that is not zero takes one from it.
LEMMA Counting ==
  ASSUME NEW n \in uint16_t, n > 0
  PROVE  Decrement(n, UINT16) = n - 1 /\ n - 1 \in uint16_t
<1>1. n - 1 \in Nat /\ n - 1 < UINT16 BY Words, Modulus
<1>2. \A k, m \in Nat : k < m => k % m = k OBVIOUS
<1>. QED BY <1>1, <1>2, Words, Modulus DEF Decrement

\* Storing a byte keeps the buffer at what is in it of one byte more
\* (the test `length < maxLength' before every store).
LEMMA Storing ==
  ASSUME ParserType
  PROVE  /\ Stored \in uint16_t /\ Stored <= maxLength
         /\ \A n \in Nat : length = Room(n) => Stored = Room(n + 1)
BY Words, Modulus DEF ParserType, Stored, Room

\* One more byte leaves a check register a check register.
LEMMA Registers ==
  ASSUME NEW c \in CheckRegisters
  PROVE  /\ ComputeCrc(c) \in CheckRegisters
         /\ ComputeCrc(c).inverted = c.inverted
         /\ c.cover < CoverBound => ComputeCrc(c).cover = c.cover + 1
         /\ ~(c.cover < CoverBound) => ComputeCrc(c) = c
         /\ Complement(c) \in CheckRegisters
         /\ Complement(c).cover = c.cover
         /\ Complement(c).inverted = c.cover
BY DEF ComputeCrc, Absorb, Complement, CheckRegisters

\* The two initial values of the register.
LEMMA Seeds ==
  /\ CrcZero \in CheckRegisters /\ CrcZero.cover = 0 /\ CrcZero.inverted = 0
  /\ CrcOnes \in CheckRegisters /\ CrcOnes.cover = 0 /\ CrcOnes.inverted = 0
BY DEF CrcZero, CrcOnes, CheckRegisters

\* The invariants of the parse structure.
ParserInv == ParserType /\ FrameInv /\ ReportInv

\* A quiet step reports nothing.
LEMMA QuietReport == Quiet.result = "none" /\ Quiet.len \in uint16_t
BY Words, Modulus DEF Quiet

\* sempFirstByte forgets the frame and keeps the invariant in every state that
\* it is called from.
LEMMA FirstByteStep ==
  ASSUME ParserInv, NEW data, sempFirstByte(data),
         state \in {"sempFirstByte", "sempBluetoothSync2", "sempBluetoothSync3"}
  PROVE  ParserInv'
<1>. DEFINE c == ComputeCrc(CrcOnes)
<1>1. c \in CheckRegisters /\ c.cover = 1 BY Seeds, Registers, SingleCover
<1>a. maxLength \in Nat /\ maxLength' = maxLength
  BY Words DEF ParserInv, ParserType, sempFirstByte
<1>b. length' \in uint16_t /\ length' <= maxLength
  BY <1>a, Words, Modulus DEF sempFirstByte
<1>c. crc' \in CheckRegisters /\ answer' \in BOOLEAN BY ZenonT(30), <1>1, Seeds DEF sempFirstByte
<1>2. ParserType'
  BY <1>a, <1>b, <1>c, QuietReport DEF ParserInv, ParserType, sempFirstByte, Frames
<1>3. FrameInv'
  <2>1. CASE data = 170
    <3>1. /\ state' = "sempBluetoothSync2" /\ crc' = c
          /\ length' = IF 0 < maxLength THEN 1 ELSE 0
      BY <2>1 DEF sempFirstByte
    <3>. QED BY <3>1, <1>1, <1>a DEF FrameInv, Room
  <2>2. CASE data # 170
    <3>1. state' = state /\ crc' = CrcZero /\ length' = 0
      BY <2>2 DEF sempFirstByte
    <3>. QED BY <3>1, <1>a, Seeds DEF FrameInv, Room
  <2>. QED BY <2>1, <2>2
<1>4. ReportInv' BY QuietReport DEF sempFirstByte, ReportInv
<1>. QED BY <1>2, <1>3, <1>4 DEF ParserInv

\* A sync byte takes the parser from Sync2 to Sync3 and to the header; any
\* other goes to sempFirstByte.
LEMMA SyncStep ==
  ASSUME ParserInv, NEW data, sempBluetoothSync2(data) \/ sempBluetoothSync3(data)
  PROVE  ParserInv'
<1>1. CASE sempFirstByte(data)
  BY <1>1, FirstByteStep DEF sempBluetoothSync2, sempBluetoothSync3
<1>2. CASE ~sempFirstByte(data)
  <2>. DEFINE c == ComputeCrc(crc)
  <2>1. PICK r \in {"sempBluetoothSync3", "sempBluetoothReadHeader"} :
          /\ Take(r, c) /\ UNCHANGED <<bytesRemaining, saved, declared>>
          /\ r = "sempBluetoothSync3" => state = "sempBluetoothSync2"
          /\ r = "sempBluetoothReadHeader" => state = "sempBluetoothSync3"
    BY <1>2 DEF sempBluetoothSync2, sempBluetoothSync3
  <2>2. c \in CheckRegisters /\ crc.cover \in Nat
    BY ZenonT(30), Registers DEF ParserInv, ParserType, CheckRegisters
  <2>3. crc.cover < 3 /\ c.cover = crc.cover + 1 /\ length = Room(crc.cover)
    BY <2>1, <2>2, Registers, SingleCover DEF ParserInv, ParserType, FrameInv
  <2>4. length' = Room(c.cover) /\ length' \in uint16_t /\ length' <= maxLength
    BY <2>1, <2>2, <2>3, Storing DEF ParserInv, Take
  <2>5. ParserType'
    BY <2>1, <2>2, <2>4, QuietReport DEF ParserInv, ParserType, Take, Frames
  <2>6. FrameInv'
    BY <2>1, <2>2, <2>3, <2>4, Words, Modulus
    DEF ParserInv, ParserType, FrameInv, Take, Room, SEMP_HEADER
  <2>7. ReportInv' BY <2>1, QuietReport DEF Take, ReportInv
  <2>. QED BY <2>5, <2>6, <2>7 DEF ParserInv
<1>. QED BY <1>1, <1>2

\* Expecting the CRC: the frame is complete up to its check bytes, and the saved
\* register covers the header and the data.
LEMMA ExpectCrcStep ==
  ASSUME ParserInv, ExpectCrc, declared' \in MessageLengths,
         crc.cover + 1 = SEMP_HEADER + declared', length = Room(crc.cover)
  PROVE  ParserInv'
<1>. DEFINE c == Complement(ComputeCrc(crc))
<1>1. crc \in CheckRegisters /\ crc.cover \in Nat /\ declared' \in Nat /\ declared' \in uint16_t
  BY SingleLengths, Words DEF ParserInv, ParserType, CheckRegisters
<1>2. crc.cover < CoverBound BY <1>1, SingleCover DEF SEMP_HEADER
<1>3. c \in CheckRegisters /\ c.cover = SEMP_HEADER + declared' /\ c.inverted = c.cover
  BY <1>1, <1>2, Registers
<1>4. length' = Room(SEMP_HEADER + declared') /\ length' \in uint16_t /\ length' <= maxLength
  BY <1>1, Storing DEF ParserInv, ExpectCrc, Take
<1>5. ParserType'
  BY <1>1, <1>3, <1>4, QuietReport, Words, Modulus
  DEF ParserInv, ParserType, ExpectCrc, Take, Frames, SEMP_CRC_SIZE
<1>6. FrameInv'
  BY <1>1, <1>3, <1>4 DEF FrameInv, ExpectCrc, Take, Room, SEMP_HEADER, SEMP_CRC_SIZE
<1>7. ReportInv' BY QuietReport DEF ExpectCrc, Take, ReportInv
<1>. QED BY <1>5, <1>6, <1>7 DEF ParserInv

\* The header: incomplete, rejected, or accepted with or without data.
LEMMA HeaderStep ==
  ASSUME ParserInv, sempBluetoothReadHeader
  PROVE  ParserInv'
<1>. DEFINE c == ComputeCrc(crc)
<1>1. /\ crc \in CheckRegisters /\ c \in CheckRegisters /\ crc.cover \in Nat
      /\ length = Room(crc.cover) /\ length < SEMP_HEADER /\ length \in Nat /\ maxLength \in Nat
      /\ state = "sempBluetoothReadHeader"
  BY ZenonT(30), Registers, Words
  DEF ParserInv, ParserType, FrameInv, CheckRegisters, sempBluetoothReadHeader
<1>2. Stored \in uint16_t /\ Stored <= maxLength /\ Stored = Room(crc.cover + 1)
  BY <1>1, Storing DEF ParserInv
<1>3. CASE Stored < SEMP_HEADER /\ Take("sempBluetoothReadHeader", c)
           /\ UNCHANGED <<bytesRemaining, saved, declared>>
  <2>1. Stored = Room(c.cover)
    <3>1. CASE crc.cover < CoverBound BY <3>1, <1>1, <1>2, Registers
    <3>2. CASE ~(crc.cover < CoverBound)
      <4>1. c = crc BY <3>2, <1>1, Registers
      <4>2. crc.cover > 20 BY <3>2, <1>1, SingleCover
      <4>. QED BY <4>1, <4>2, <1>1, <1>2 DEF Room, SEMP_HEADER
    <3>. QED BY <3>1, <3>2
  <2>2. ParserType'
    BY <1>1, <1>2, <1>3, QuietReport DEF ParserInv, ParserType, Take, Frames
  <2>3. FrameInv' BY <1>3, <2>1 DEF FrameInv, Take, Room
  <2>4. ReportInv' BY <1>3, QuietReport DEF Take, ReportInv
  <2>. QED BY <2>2, <2>3, <2>4 DEF ParserInv
<1>4. CASE HeaderRejected
  <2>1. ParserType'
    BY ZenonT(30), <1>1, <1>2, <1>4, QuietReport DEF ParserInv, ParserType, HeaderRejected, Frames
  <2>2. FrameInv' BY <1>4 DEF FrameInv, HeaderRejected
  <2>3. ReportInv' BY <1>4, QuietReport DEF HeaderRejected, ReportInv
  <2>. QED BY <2>1, <2>2, <2>3 DEF ParserInv
<1>5. CASE Stored >= SEMP_HEADER /\ HeaderAccepted
  <2>1. crc.cover + 1 = SEMP_HEADER
    BY <1>1, <1>2, <1>5 DEF Room, SEMP_HEADER
  <2>2. declared' \in MessageLengths /\ declared' \in uint16_t /\ declared' \in Nat
    BY <1>5, SingleLengths, Words DEF HeaderAccepted
  <2>3. CASE declared' = 0 /\ ExpectCrc
    <3>1. crc.cover + 1 = SEMP_HEADER + declared' BY <2>1, <2>3 DEF SEMP_HEADER
    <3>. QED BY <2>2, <2>3, <3>1, <1>1, ExpectCrcStep
  <2>4. CASE declared' # 0 /\ Take("sempBluetoothReadData", c)
             /\ bytesRemaining' = declared' /\ UNCHANGED saved
    <3>1. c.cover = SEMP_HEADER
      BY <1>1, <2>1, Registers, SingleCover DEF SEMP_HEADER
    <3>2. ParserType'
      BY <1>1, <1>2, <2>2, <2>4, QuietReport DEF ParserInv, ParserType, Take, Frames
    <3>3. FrameInv'
      <4>1. /\ state' = "sempBluetoothReadData" /\ maxLength' = maxLength
            /\ length' = Room(SEMP_HEADER) /\ crc'.cover = SEMP_HEADER
        BY <1>2, <2>1, <2>4, <3>1 DEF Take
      <4>2. bytesRemaining' > 0 /\ bytesRemaining' <= declared' BY <2>2, <2>4
      <4>a. \A n \in Nat : (SEMP_HEADER + n) - n = SEMP_HEADER BY DEF SEMP_HEADER
      <4>3. crc'.cover = (SEMP_HEADER + declared') - bytesRemaining'
        BY <2>2, <2>4, <4>1, <4>a, ZenonT(30)
      <4>4. length' = Room(crc.cover)' BY <4>1 DEF Room
      <4>. QED BY <2>2, <4>1, <4>2, <4>3, <4>4 DEF FrameInv
    <3>4. ReportInv' BY <2>4, QuietReport DEF Take, ReportInv
    <3>. QED BY <3>2, <3>3, <3>4 DEF ParserInv
  <2>. QED BY <1>5, <2>3, <2>4 DEF HeaderAccepted
<1>. QED BY <1>3, <1>4, <1>5 DEF sempBluetoothReadHeader

\* A byte of the data; the last one brings the CRC.
LEMMA DataStep ==
  ASSUME ParserInv, sempBluetoothReadData
  PROVE  ParserInv'
<1>. DEFINE c == ComputeCrc(crc)
            rest == Decrement(bytesRemaining, UINT16)
<1>1. /\ crc \in CheckRegisters /\ c \in CheckRegisters /\ crc.cover \in Nat
      /\ declared \in MessageLengths /\ declared \in Nat /\ declared \in uint16_t
      /\ bytesRemaining \in Nat /\ bytesRemaining > 0 /\ bytesRemaining <= declared
      /\ crc.cover = (SEMP_HEADER + declared) - bytesRemaining
      /\ length = Room(crc.cover) /\ maxLength \in Nat /\ declared' = declared
  BY ZenonT(30), Registers, Words, SingleLengths
  DEF ParserInv, ParserType, FrameInv, CheckRegisters, sempBluetoothReadData
<1>2. rest = bytesRemaining - 1 /\ rest \in uint16_t
  BY <1>1, Counting DEF ParserInv, ParserType
<1>3. CASE rest = 0 /\ ExpectCrc
  <2>1. crc.cover + 1 = SEMP_HEADER + declared' BY <1>1, <1>2, <1>3 DEF SEMP_HEADER
  <2>. QED BY <1>1, <1>3, <2>1, ExpectCrcStep
<1>4. CASE rest # 0 /\ Take("sempBluetoothReadData", c)
           /\ bytesRemaining' = rest /\ UNCHANGED saved
  <2>1. crc.cover < CoverBound BY <1>1, SingleCover DEF SEMP_HEADER
  <2>2. c.cover = crc.cover + 1 BY <1>1, <2>1, Registers
  <2>3. Stored \in uint16_t /\ Stored <= maxLength /\ Stored = Room(c.cover)
    BY <1>1, <2>2, Storing DEF ParserInv
  <2>4. ParserType'
    BY <1>1, <1>2, <1>4, <2>3, QuietReport DEF ParserInv, ParserType, Take, Frames
  <2>5. FrameInv'
    BY <1>1, <1>2, <1>4, <2>2, <2>3 DEF FrameInv, Take, Room, SEMP_HEADER
  <2>6. ReportInv' BY <1>4, QuietReport DEF Take, ReportInv
  <2>. QED BY <2>4, <2>5, <2>6 DEF ParserInv
<1>. QED BY <1>3, <1>4 DEF sempBluetoothReadData

\* A byte of the CRC; the last one ends the frame and calls the application.
LEMMA CrcStep ==
  ASSUME ParserInv, NEW equal \in BOOLEAN, sempBluetoothReadCrc(equal)
  PROVE  ParserInv'
<1>. DEFINE rest == Decrement(bytesRemaining, UINT16)
            end == SEMP_HEADER + declared + SEMP_CRC_SIZE
<1>1. /\ declared \in MessageLengths /\ declared \in Nat
      /\ bytesRemaining \in Nat /\ bytesRemaining > 0 /\ bytesRemaining <= SEMP_CRC_SIZE
      /\ saved.cover = SEMP_HEADER + declared /\ saved.inverted = saved.cover
      /\ length = Room(end - bytesRemaining) /\ maxLength \in Nat
      /\ declared' = declared /\ saved' = saved /\ bytesRemaining' = rest
  <2>1. state = "sempBluetoothReadCrc" BY DEF sempBluetoothReadCrc
  <2>2. declared' = declared /\ saved' = saved /\ bytesRemaining' = rest
    BY DEF sempBluetoothReadCrc
  <2>3. declared \in Nat /\ bytesRemaining \in Nat /\ maxLength \in Nat
    BY <2>1, Words, SingleLengths DEF ParserInv, ParserType, FrameInv
  <2>4. /\ declared \in MessageLengths
        /\ bytesRemaining > 0 /\ bytesRemaining <= SEMP_CRC_SIZE
        /\ saved.cover = SEMP_HEADER + declared /\ saved.inverted = saved.cover
        /\ length = Room(end - bytesRemaining)
    BY <2>1 DEF ParserInv, FrameInv
  <2>. QED BY <2>2, <2>3, <2>4
<1>2. rest = bytesRemaining - 1 /\ rest \in uint16_t
  BY <1>1, Counting DEF ParserInv, ParserType
<1>3. end - bytesRemaining \in Nat /\ (end - bytesRemaining) + 1 = end - rest
  BY <1>1, <1>2 DEF SEMP_HEADER, SEMP_CRC_SIZE
<1>4. Stored \in uint16_t /\ Stored <= maxLength /\ Stored = Room(end - rest)
  BY <1>1, <1>3, Storing DEF ParserInv
<1>5. CASE rest # 0 /\ Take("sempBluetoothReadCrc", crc)
  <2>1. ParserType'
    BY <1>1, <1>2, <1>4, <1>5, QuietReport DEF ParserInv, ParserType, Take, Frames
  <2>2. FrameInv'
    <3>1. state' = "sempBluetoothReadCrc" /\ length' = Room(end - rest) /\ maxLength' = maxLength
      BY <1>4, <1>5 DEF Take
    <3>2. length' = Room(end - bytesRemaining)' BY <1>1, <3>1 DEF Room, SEMP_HEADER, SEMP_CRC_SIZE
    <3>3. bytesRemaining' > 0 /\ bytesRemaining' <= SEMP_CRC_SIZE
      BY <1>1, <1>2, <1>5, Words DEF SEMP_CRC_SIZE
    <3>. QED BY <1>1, <3>1, <3>2, <3>3 DEF FrameInv
  <2>3. ReportInv' BY <1>5, QuietReport DEF Take, ReportInv
  <2>. QED BY <2>1, <2>2, <2>3 DEF ParserInv
<1>6. CASE /\ rest = 0 /\ state' = "sempFirstByte" /\ length' = Stored /\ answer' = FALSE
           /\ out' = [result |-> IF equal THEN "delivered" ELSE "badCrc",
                      len |-> Stored, sum |-> saved, declared |-> declared]
           /\ UNCHANGED <<maxLength, crc>>
  <2>1. ParserType'
    BY ZenonT(30), <1>1, <1>2, <1>4, <1>6 DEF ParserInv, ParserType, Frames
  <2>2. FrameInv' BY <1>6 DEF FrameInv
  <2>3. Stored = Room(end)
    BY <1>1, <1>4, <1>6 DEF SEMP_HEADER, SEMP_CRC_SIZE
  <2>4. ReportInv' BY <1>1, <1>6, <2>3 DEF ReportInv, Room
  <2>. QED BY <2>1, <2>2, <2>4 DEF ParserInv
<1>. QED BY ZenonT(30), <1>5, <1>6 DEF sempBluetoothReadCrc

\* Whatever the byte and the routine, sempProcessByte keeps the invariant.
LEMMA ByteStep ==
  ASSUME ParserInv, sempProcessByte
  PROVE  ParserInv'
BY FirstByteStep, SyncStep, HeaderStep, DataStep, CrcStep DEF sempProcessByte

\* sempProcessBuffer's counts: each byte of the array is parsed once, and all are
\* counted but the one that stops the loop.
ArrayInv ==
  /\ left \in uint16_t /\ processed \in uint16_t /\ consumed \in uint16_t
  /\ left + consumed \in uint16_t
  /\ left > 0 => processed = consumed
  /\ processed <= consumed /\ consumed <= processed + 1

\* One byte of the array moves it from what is left to what is consumed.
LEMMA ArrayCounts ==
  ASSUME ArrayInv, ArrayByte
  PROVE  ArrayInv'
<1>1. left \in Nat /\ consumed \in Nat /\ processed \in Nat /\ left + consumed < UINT16
  BY Words DEF ArrayInv
<1>2. left > 0 /\ consumed' = consumed + 1 /\ processed = consumed
  BY DEF ArrayInv, ArrayByte
<1>3. CASE processed' = processed + 1 /\ left' = left - 1
  BY <1>1, <1>2, <1>3, Words, Modulus DEF ArrayInv
<1>4. CASE left' = 0 /\ processed' = processed
  BY <1>1, <1>2, <1>4, Words, Modulus DEF ArrayInv
<1>. QED BY <1>3, <1>4 DEF ArrayByte

\* The state that sempInitParser sets up, here the first time.
LEMMA Initially == Init => ParserInv /\ ArrayInv
<1>. SUFFICES ASSUME Init PROVE ParserInv /\ ArrayInv OBVIOUS
<1>1. 0 \in uint16_t /\ maxLength \in uint16_t /\ maxLength >= 0
  BY SingleBuffers, Words, Modulus DEF Init
<1>2. ParserType BY <1>1, Seeds, QuietReport DEF Init, ParserType, Frames
<1>3. FrameInv BY DEF Init, FrameInv
<1>4. ReportInv BY QuietReport DEF Init, ReportInv
<1>5. ArrayInv BY <1>1 DEF Init, ArrayInv
<1>. QED BY <1>2, <1>3, <1>4, <1>5 DEF ParserInv

\* Starting over, with another buffer.
LEMMA InitParserStep ==
  ASSUME NEW n \in MaxLengths, sempInitParser(n)
  PROVE  ParserInv' /\ ArrayInv'
<1>1. 0 \in uint16_t /\ n \in uint16_t /\ n >= 0 BY SingleBuffers, Words, Modulus
<1>2. ParserType' BY <1>1, Seeds, QuietReport DEF sempInitParser, ParserType, Frames
<1>3. FrameInv' BY DEF sempInitParser, FrameInv
<1>4. ReportInv' BY QuietReport DEF sempInitParser, ReportInv
<1>5. ArrayInv' BY <1>1 DEF sempInitParser, ArrayInv
<1>. QED BY <1>2, <1>3, <1>4, <1>5 DEF ParserInv

\* A step that changes neither the structure nor the report keeps their invariants.
LEMMA SameFrame ==
  ASSUME ParserInv, UNCHANGED <<frame, answer, out>>
  PROVE  ParserInv'
BY DEF ParserInv, ParserType, FrameInv, ReportInv, Room, frame

\* Every step of the parser and of its application keeps both invariants.
LEMMA NextStep ==
  ASSUME ParserInv, ArrayInv, [Next]_vars
  PROVE  ParserInv' /\ ArrayInv'
<1>1. ASSUME NEW n \in MaxLengths, sempInitParser(n) PROVE ParserInv' /\ ArrayInv'
  BY <1>1, InitParserStep
<1>2. CASE OneByte
  BY <1>2, ByteStep DEF OneByte, array, ArrayInv
<1>3. ASSUME NEW n \in ArrayLengths, sempProcessBuffer(n) PROVE ParserInv' /\ ArrayInv'
  <2>1. ParserInv' BY <1>3, SameFrame DEF sempProcessBuffer
  <2>2. n \in uint16_t /\ n + 0 = n /\ 0 \in uint16_t BY SingleArrays, Words, Modulus
  <2>. QED BY <1>3, <2>1, <2>2 DEF sempProcessBuffer, ArrayInv
<1>4. CASE ArrayByte BY <1>4, ByteStep, ArrayCounts DEF ArrayByte
<1>5. CASE UNCHANGED vars
  <2>1. ParserInv' BY <1>5, SameFrame DEF vars, frame
  <2>. QED BY <1>5, <2>1 DEF vars, ArrayInv
<1>. QED BY <1>1, <1>2, <1>3, <1>4, <1>5 DEF Next

\* The parse structure and the counts of sempProcessBuffer keep the invariant Inv,
\* for every buffer, length field and stream.
THEOREM SingleInvariant == Spec => []Inv
<1>1. Init => ParserInv /\ ArrayInv BY Initially
<1>2. (ParserInv /\ ArrayInv) /\ [Next]_vars => (ParserInv /\ ArrayInv)' BY NextStep
<1>3. ParserInv /\ ArrayInv => Inv BY DEF ParserInv, ArrayInv, Inv, TypeOK
<1>. QED BY <1>1, <1>2, <1>3, PTL DEF Spec

\* No store leaves the caller's buffer and no counter wraps.
THEOREM SingleTypeCorrect == Spec => []TypeOK
<1>1. Inv => TypeOK BY DEF Inv
<1>. QED BY <1>1, SingleInvariant, PTL

\* Frames end where their header says, also in a buffer too short for them.
THEOREM SingleFramesEnd == Spec => []FrameEndsWhereDeclared
<1>1. Inv => FrameEndsWhereDeclared
  <2>. SUFFICES ASSUME Inv PROVE FrameEndsWhereDeclared OBVIOUS
  <2>1. ASSUME state = "sempBluetoothReadData" PROVE crc.cover < SEMP_HEADER + declared
    <3>1. /\ crc.cover = (SEMP_HEADER + declared) - bytesRemaining /\ bytesRemaining > 0
          /\ declared \in Nat /\ bytesRemaining \in Nat
      BY <2>1, SingleLengths, Words DEF Inv, TypeOK, ParserType, FrameInv
    <3>. QED BY <3>1 DEF SEMP_HEADER
  <2>. QED BY <2>1 DEF Inv, ReportInv, FrameEndsWhereDeclared
<1>. QED BY <1>1, SingleInvariant, PTL

\* A frame that fits is judged with its own CRC bytes.
THEOREM SingleFramesWhole == Spec => []FittingFrameIsWhole
<1>1. Inv => FittingFrameIsWhole
  <2>. SUFFICES ASSUME Inv, out.result # "none",
                       SEMP_HEADER + out.declared + SEMP_CRC_SIZE <= maxLength
                PROVE  out.len = SEMP_HEADER + out.declared + SEMP_CRC_SIZE
    BY DEF FittingFrameIsWhole
  <2>1. out.declared \in Nat /\ maxLength \in Nat
        /\ out.len = Room(SEMP_HEADER + out.declared + SEMP_CRC_SIZE)
    BY SingleLengths, Words DEF Inv, TypeOK, ParserType, ReportInv
  <2>. QED BY <2>1 DEF Room, SEMP_HEADER, SEMP_CRC_SIZE
<1>. QED BY <1>1, SingleInvariant, PTL

-----------------------------------------------------------------------------
(* SingleParser implements LengthFramer.  Beside the invariant the argument *)
(* needs that a buffer which cannot hold a header never leads past it.      *)


\* A buffer too short for a header: no data is read and no frame judged.
ShortBuffer ==
  maxLength < SEMP_HEADER =>
    /\ state \notin {"sempBluetoothReadData", "sempBluetoothReadCrc"}
    /\ out.result = "none"

\* A byte keeps it so (the test of length in sempBluetoothReadHeader).
LEMMA ShortBufferByte ==
  ASSUME ParserInv, ShortBuffer, sempProcessByte
  PROVE  ShortBuffer'
<1>1. maxLength' = maxLength
  BY DEF sempProcessByte, sempFirstByte, sempBluetoothSync2, sempBluetoothSync3,
         sempBluetoothReadHeader, HeaderRejected, HeaderAccepted, ExpectCrc,
         sempBluetoothReadData, sempBluetoothReadCrc, Take
<1>. SUFFICES ASSUME maxLength < SEMP_HEADER
              PROVE  /\ state' \notin {"sempBluetoothReadData", "sempBluetoothReadCrc"}
                     /\ out'.result = "none"
  BY <1>1 DEF ShortBuffer
<1>2. state \notin {"sempBluetoothReadData", "sempBluetoothReadCrc"} BY DEF ShortBuffer
<1>3. ASSUME NEW data, sempFirstByte(data)
      PROVE  /\ state' \notin {"sempBluetoothReadData", "sempBluetoothReadCrc"}
             /\ out'.result = "none"
  BY <1>3, <1>2, QuietReport DEF sempFirstByte
<1>4. ASSUME NEW data, sempBluetoothSync2(data) \/ sempBluetoothSync3(data)
      PROVE  /\ state' \notin {"sempBluetoothReadData", "sempBluetoothReadCrc"}
             /\ out'.result = "none"
  BY <1>4, <1>3, QuietReport DEF sempBluetoothSync2, sempBluetoothSync3, Take
<1>5. ~(Stored >= SEMP_HEADER)
  BY Storing, Words DEF ParserInv, ParserType, SEMP_HEADER
<1>6. CASE sempBluetoothReadHeader
  BY <1>6, <1>5, QuietReport DEF sempBluetoothReadHeader, Take
<1>. QED BY <1>2, <1>3, <1>4, <1>6
     DEF sempProcessByte, sempBluetoothReadData, sempBluetoothReadCrc

\* What the verdict of the mapping is after a byte that reports nothing.
LEMMA QuietVerdict == ASSUME out' = Quiet PROVE Verdict' = "none"
BY QuietReport DEF Verdict

\* In a buffer too short for a header the framer only searches.
LEMMA ShortBufferMapped ==
  ASSUME maxLength < SEMP_HEADER, ShortBuffer
  PROVE  FrameBytes = 0 /\ FrameTotal = -1 /\ Verdict = "none"
BY DEF ShortBuffer, FrameBytes, FrameTotal, Verdict, SEMP_HEADER

\* A byte in such a buffer is a byte of no frame.
LEMMA ShortBufferSearches ==
  ASSUME ParserInv, ShortBuffer, sempProcessByte, maxLength < SEMP_HEADER
  PROVE  Framer!Search
<1>1. ShortBuffer' BY ShortBufferByte
<1>2. maxLength' < SEMP_HEADER
  BY DEF sempProcessByte, sempFirstByte, sempBluetoothSync2, sempBluetoothSync3,
         sempBluetoothReadHeader, HeaderRejected, HeaderAccepted, ExpectCrc,
         sempBluetoothReadData, sempBluetoothReadCrc, Take
<1>3. FrameTotal = -1 BY ShortBufferMapped
<1>4. FrameBytes' = 0 /\ FrameTotal' = -1 /\ Verdict' = "none"
  BY <1>1, <1>2 DEF ShortBuffer, FrameBytes, FrameTotal, Verdict, SEMP_HEADER
<1>. QED BY <1>3, <1>4 DEF Framer!Search, Framer!Elsewhere, Framer!Unknown

\* sempFirstByte: a byte of no frame, or the first of one.
LEMMA FirstByteSearches ==
  ASSUME ParserInv, maxLength >= SEMP_HEADER, NEW data, sempFirstByte(data),
         state \in {"sempFirstByte", "sempBluetoothSync2", "sempBluetoothSync3"}
  PROVE  Framer!Search
<1>1. FrameTotal = -1 BY DEF FrameTotal
<1>2. Verdict' = "none" BY QuietVerdict DEF sempFirstByte
<1>3. state' \in {"sempFirstByte", "sempBluetoothSync2", "sempBluetoothSync3"}
  BY DEF sempFirstByte
<1>4. FrameTotal' = -1 BY <1>3 DEF FrameTotal
<1>5. crc'.cover \in {0, 1}
  BY Seeds, Registers, SingleCover DEF sempFirstByte
<1>6. FrameBytes' \in {0, 1} BY <1>3, <1>5 DEF FrameBytes
<1>. QED BY <1>1, <1>2, <1>4, <1>6 DEF Framer!Search, Framer!Elsewhere, Framer!Unknown

\* The second and third sync byte: collected, or the first byte that counts when
\* the frame was not begun by 0xAA.
LEMMA SyncCollects ==
  ASSUME ParserInv, maxLength >= SEMP_HEADER, NEW data,
         sempBluetoothSync2(data) \/ sempBluetoothSync3(data)
  PROVE  Framer!Search \/ Framer!Collect
<1>1. CASE sempFirstByte(data)
  BY <1>1, FirstByteSearches DEF sempBluetoothSync2, sempBluetoothSync3
<1>2. CASE ~sempFirstByte(data)
  <2>1. PICK r \in {"sempBluetoothSync3", "sempBluetoothReadHeader"} :
          Take(r, ComputeCrc(crc))
    BY <1>2 DEF sempBluetoothSync2, sempBluetoothSync3
  <2>2. state \in {"sempBluetoothSync2", "sempBluetoothSync3"}
    BY DEF sempBluetoothSync2, sempBluetoothSync3
  <2>3. crc \in CheckRegisters /\ crc.cover \in Nat /\ crc.cover < 3
    BY <2>2 DEF ParserInv, ParserType, FrameInv, CheckRegisters
  <2>4. crc'.cover = crc.cover + 1 BY <2>1, <2>3, Registers, SingleCover DEF Take
  <2>5. maxLength' = maxLength /\ maxLength \in Nat
    BY <2>1, Words DEF Take, ParserInv, ParserType
  <2>6. FrameBytes = crc.cover /\ FrameTotal = -1
    BY <2>2, <2>5 DEF FrameBytes, FrameTotal, SEMP_HEADER
  <2>7. FrameBytes' = crc.cover + 1 /\ FrameTotal' = -1
    BY <2>1, <2>4, <2>5 DEF Take, FrameBytes, FrameTotal, SEMP_HEADER
  <2>8. Verdict' = "none" BY <2>1, QuietVerdict DEF Take
  <2>9. CASE crc.cover = 0
    BY <2>6, <2>7, <2>8, <2>9 DEF Framer!Search, Framer!Elsewhere, Framer!Unknown
  <2>10. CASE crc.cover # 0
    BY <2>3, <2>6, <2>7, <2>8, <2>10 DEF Framer!Collect, Framer!Unknown, SEMP_HEADER
  <2>. QED BY <2>9, <2>10
<1>. QED BY <1>1, <1>2

\* A header byte is collected; the last one abandons the frame or fixes its end.
LEMMA HeaderCollects ==
  ASSUME ParserInv, maxLength >= SEMP_HEADER, sempBluetoothReadHeader
  PROVE  Framer!Search \/ Framer!Collect \/ Framer!Learn
<1>1. state = "sempBluetoothReadHeader" BY DEF sempBluetoothReadHeader
<1>2. crc \in CheckRegisters /\ crc.cover \in Nat /\ maxLength \in Nat
      /\ length = Room(crc.cover) /\ length < SEMP_HEADER /\ length \in Nat
  BY <1>1, Words DEF ParserInv, ParserType, FrameInv, CheckRegisters
<1>3. length = crc.cover /\ Stored = crc.cover + 1
  BY <1>2 DEF Room, Stored, SEMP_HEADER
<1>4. FrameBytes = crc.cover /\ FrameTotal = -1
  BY <1>1, <1>2 DEF FrameBytes, FrameTotal, SEMP_HEADER
<1>5. ComputeCrc(crc).cover = crc.cover + 1 /\ ComputeCrc(crc) \in CheckRegisters
  BY <1>2, <1>3, Registers, SingleCover DEF SEMP_HEADER
<1>6. CASE Stored < SEMP_HEADER /\ Take("sempBluetoothReadHeader", ComputeCrc(crc))
  <2>1. FrameBytes' = crc.cover + 1 /\ FrameTotal' = -1
    BY <1>6, <1>5, <1>2 DEF Take, FrameBytes, FrameTotal, SEMP_HEADER
  <2>2. Verdict' = "none" BY <1>6, QuietVerdict DEF Take
  <2>3. CASE crc.cover = 0
    BY <1>4, <2>1, <2>2, <2>3 DEF Framer!Search, Framer!Elsewhere, Framer!Unknown
  <2>4. CASE crc.cover # 0
    BY <1>2, <1>3, <1>4, <1>6, <2>1, <2>2, <2>4 DEF Framer!Collect, Framer!Unknown
  <2>. QED BY <2>3, <2>4
<1>7. CASE HeaderRejected
  <2>1. FrameBytes' = 0 /\ FrameTotal' = -1
    BY <1>7 DEF HeaderRejected, FrameBytes, FrameTotal
  <2>2. Verdict' = "none" BY <1>7, QuietVerdict DEF HeaderRejected
  <2>. QED BY <1>4, <2>1, <2>2 DEF Framer!Search, Framer!Elsewhere, Framer!Unknown
<1>8. CASE Stored >= SEMP_HEADER /\ HeaderAccepted
  <2>1. declared' \in MessageLengths /\ declared' \in Nat
    BY <1>8, SingleLengths, Words DEF HeaderAccepted
  <2>2. Verdict' = "none" /\ maxLength' = maxLength
    BY <1>8, QuietVerdict DEF HeaderAccepted, ExpectCrc, Take
  <2>3. crc.cover + 1 = SEMP_HEADER BY <1>8, <1>2, <1>3 DEF SEMP_HEADER
  <2>4. FrameTotal' = SEMP_HEADER + declared' + SEMP_CRC_SIZE
    BY <1>8, <1>2, <2>2 DEF HeaderAccepted, ExpectCrc, Take, FrameTotal
  <2>5. CASE declared' = 0 /\ ExpectCrc
    <3>1. FrameBytes' = SEMP_HEADER
      BY <2>5, <2>2, <1>2 DEF ExpectCrc, Take, FrameBytes, SEMP_HEADER, SEMP_CRC_SIZE
    <3>. QED BY <1>4, <2>1, <2>2, <2>3, <2>4, <3>1 DEF Framer!Learn, Framer!Unknown
  <2>6. CASE Take("sempBluetoothReadData", ComputeCrc(crc))
    <3>1. FrameBytes' = SEMP_HEADER
      BY <2>6, <2>2, <2>3, <1>2, <1>5 DEF Take, FrameBytes, SEMP_HEADER
    <3>. QED BY <1>4, <2>1, <2>2, <2>3, <2>4, <3>1 DEF Framer!Learn, Framer!Unknown
  <2>. QED BY <1>8, <2>5, <2>6 DEF HeaderAccepted
<1>. QED BY <1>6, <1>7, <1>8 DEF sempBluetoothReadHeader

\* A data byte leaves the frame short of its end, as the CRC is still to come.
LEMMA DataFills ==
  ASSUME ParserInv, maxLength >= SEMP_HEADER, sempBluetoothReadData
  PROVE  Framer!Fill
<1>1. state = "sempBluetoothReadData" /\ declared' = declared BY DEF sempBluetoothReadData
<1>2. /\ crc \in CheckRegisters /\ crc.cover \in Nat /\ maxLength \in Nat
      /\ declared \in MessageLengths /\ declared \in Nat
      /\ bytesRemaining \in uint16_t /\ bytesRemaining \in Nat /\ bytesRemaining > 0
      /\ bytesRemaining <= declared
      /\ crc.cover = (SEMP_HEADER + declared) - bytesRemaining
  BY <1>1, Words, SingleLengths DEF ParserInv, ParserType, FrameInv, CheckRegisters
<1>3. FrameBytes = crc.cover /\ FrameTotal = SEMP_HEADER + declared + SEMP_CRC_SIZE
  BY <1>1, <1>2 DEF FrameBytes, FrameTotal, SEMP_HEADER
<1>4. FrameTotal # -1 /\ FrameBytes + 1 < FrameTotal
  BY <1>2, <1>3 DEF SEMP_HEADER, SEMP_CRC_SIZE
<1>5. Decrement(bytesRemaining, UINT16) = bytesRemaining - 1 BY <1>2, Counting
<1>6. crc.cover < CoverBound
  <2>1. SEMP_HEADER + declared < CoverBound BY <1>2, SingleCover DEF SEMP_HEADER
  <2>. QED BY <1>2, <2>1, SingleCover DEF SEMP_HEADER
<1>7. ComputeCrc(crc).cover = crc.cover + 1 /\ ComputeCrc(crc) \in CheckRegisters
  BY <1>2, <1>6, Registers
<1>8. CASE bytesRemaining - 1 = 0 /\ ExpectCrc
  <2>1. Verdict' = "none" /\ maxLength' = maxLength /\ state' = "sempBluetoothReadCrc"
        /\ bytesRemaining' = SEMP_CRC_SIZE
    BY <1>8, QuietVerdict DEF ExpectCrc, Take
  <2>2. FrameTotal' = FrameTotal
    BY <1>1, <1>2, <1>3, <2>1 DEF FrameTotal
  <2>3. FrameBytes' = SEMP_HEADER + declared
    BY <1>1, <1>2, <2>1 DEF FrameBytes, SEMP_HEADER, SEMP_CRC_SIZE
  <2>4. FrameBytes' = FrameBytes + 1 BY <1>2, <1>3, <1>8, <2>3 DEF SEMP_HEADER
  <2>. QED BY <1>4, <2>1, <2>2, <2>4 DEF Framer!Fill, Framer!Unknown
<1>9. CASE Take("sempBluetoothReadData", ComputeCrc(crc))
  <2>1. Verdict' = "none" /\ maxLength' = maxLength /\ state' = "sempBluetoothReadData"
        /\ crc'.cover = crc.cover + 1
    BY <1>7, <1>9, QuietVerdict DEF Take
  <2>2. FrameTotal' = FrameTotal
    BY <1>1, <1>2, <1>3, <2>1 DEF FrameTotal
  <2>3. FrameBytes' = FrameBytes + 1 BY <1>2, <1>3, <2>1 DEF FrameBytes, SEMP_HEADER
  <2>. QED BY <1>4, <2>1, <2>2, <2>3 DEF Framer!Fill, Framer!Unknown
<1>. QED BY <1>5, <1>8, <1>9 DEF sempBluetoothReadData

\* The CRC bytes fill the frame, and the last one judges it.
LEMMA CrcEnds ==
  ASSUME ParserInv, maxLength >= SEMP_HEADER, NEW equal \in BOOLEAN,
         sempBluetoothReadCrc(equal)
  PROVE  Framer!Fill \/ Framer!Deliver \/ Framer!Refuse
<1>1. state = "sempBluetoothReadCrc" /\ declared' = declared BY DEF sempBluetoothReadCrc
<1>2. /\ maxLength \in Nat /\ declared \in Nat
      /\ bytesRemaining \in uint16_t /\ bytesRemaining \in Nat /\ bytesRemaining > 0
      /\ bytesRemaining <= SEMP_CRC_SIZE
  BY <1>1, Words, SingleLengths DEF ParserInv, ParserType, FrameInv
<1>3. /\ FrameBytes = (SEMP_HEADER + declared + SEMP_CRC_SIZE) - bytesRemaining
      /\ FrameTotal = SEMP_HEADER + declared + SEMP_CRC_SIZE
  BY <1>1, <1>2 DEF FrameBytes, FrameTotal, SEMP_HEADER
<1>4. FrameTotal # -1 /\ FrameTotal \in Nat BY <1>2, <1>3 DEF SEMP_HEADER, SEMP_CRC_SIZE
<1>5. Decrement(bytesRemaining, UINT16) = bytesRemaining - 1 BY <1>2, Counting
<1>6. bytesRemaining' = bytesRemaining - 1 BY <1>5 DEF sempBluetoothReadCrc
<1>7. CASE bytesRemaining - 1 # 0 /\ Take("sempBluetoothReadCrc", crc)
  <2>1. Verdict' = "none" /\ maxLength' = maxLength /\ state' = "sempBluetoothReadCrc"
    BY <1>7, QuietVerdict DEF Take
  <2>2. FrameTotal' = FrameTotal
    BY <1>1, <1>2, <1>3, <2>1 DEF FrameTotal
  <2>3. FrameBytes' = FrameBytes + 1
    BY <1>1, <1>2, <1>3, <1>6, <2>1 DEF FrameBytes, SEMP_HEADER, SEMP_CRC_SIZE
  <2>4. FrameBytes + 1 < FrameTotal
    BY <1>2, <1>3, <1>7 DEF SEMP_HEADER, SEMP_CRC_SIZE
  <2>. QED BY <1>4, <2>1, <2>2, <2>3, <2>4 DEF Framer!Fill, Framer!Unknown
<1>8. CASE /\ bytesRemaining - 1 = 0 /\ state' = "sempFirstByte"
           /\ out'.result = (IF equal THEN "delivered" ELSE "badCrc")
  <2>1. FrameBytes' = 0 /\ FrameTotal' = -1 BY <1>8 DEF FrameBytes, FrameTotal
  <2>2. FrameBytes + 1 = FrameTotal BY <1>2, <1>3, <1>8 DEF SEMP_HEADER, SEMP_CRC_SIZE
  <2>3. CASE equal
    <3>1. Verdict' = "delivered" BY <1>8, <2>3 DEF Verdict
    <3>. QED BY <1>4, <2>1, <2>2, <3>1 DEF Framer!Deliver, Framer!Unknown
  <2>4. CASE ~equal
    <3>1. Verdict' = "refused" BY <1>8, <2>4 DEF Verdict
    <3>2. FrameBytes + 1 > FrameTotal - SEMP_CRC_SIZE /\ FrameBytes + 1 <= FrameTotal
      BY <1>4, <2>2 DEF SEMP_CRC_SIZE
    <3>. QED BY <1>4, <2>1, <3>1, <3>2 DEF Framer!Refuse, Framer!Unknown
  <2>. QED BY <2>3, <2>4
<1>. QED BY <1>5, <1>7, <1>8 DEF sempBluetoothReadCrc

\* Every byte, handed over alone or in an array, is a step of the framer.
LEMMA ByteMapped ==
  ASSUME ParserInv, ShortBuffer, sempProcessByte
  PROVE  Framer!Byte
<1>. SUFFICES ASSUME maxLength >= SEMP_HEADER PROVE Framer!Byte
  <2>1. maxLength \in Nat BY Words DEF ParserInv, ParserType
  <2>. QED BY <2>1, ShortBufferSearches DEF Framer!Byte, SEMP_HEADER
<1>1. ASSUME NEW data \in Bytes, state = "sempFirstByte", sempFirstByte(data)
      PROVE  Framer!Byte
  BY <1>1, FirstByteSearches DEF Framer!Byte
<1>2. ASSUME NEW data \in Bytes, sempBluetoothSync2(data) \/ sempBluetoothSync3(data)
      PROVE  Framer!Byte
  BY <1>2, SyncCollects DEF Framer!Byte
<1>3. CASE sempBluetoothReadHeader BY <1>3, HeaderCollects DEF Framer!Byte
<1>4. CASE sempBluetoothReadData BY <1>4, DataFills DEF Framer!Byte
<1>5. ASSUME NEW equal \in BOOLEAN, sempBluetoothReadCrc(equal) PROVE Framer!Byte
  BY <1>5, CrcEnds DEF Framer!Byte
<1>. QED BY <1>1, <1>2, <1>3, <1>4, <1>5 DEF sempProcessByte

\* The mapped state that sempInitParser sets up.
LEMMA InitMapped ==
  ASSUME state = "sempFirstByte", out = Quiet
  PROVE  FrameBytes = 0 /\ FrameTotal = -1 /\ Verdict = "none"
BY QuietReport DEF FrameBytes, FrameTotal, Verdict

\* Every step of SingleParser is a step of the framer or changes nothing of it.
LEMMA NextMapped ==
  ASSUME ParserInv, ShortBuffer, [Next]_vars
  PROVE  ShortBuffer' /\ [Framer!Next]_(Framer!vars)
<1>1. EndlessRoom' = EndlessRoom /\ EndlessRoom \in Nat BY Modulus DEF EndlessRoom
<1>2. CASE sempProcessByte
  BY <1>1, <1>2, ByteMapped, ShortBufferByte DEF Framer!Next
<1>3. ASSUME NEW n \in MaxLengths, sempInitParser(n)
      PROVE  ShortBuffer' /\ [Framer!Next]_(Framer!vars)
  <2>1. FrameBytes' = 0 /\ FrameTotal' = -1 /\ Verdict' = "none"
    BY <1>3, QuietReport DEF sempInitParser, FrameBytes, FrameTotal, Verdict
  <2>2. ShortBuffer' BY <1>3, QuietReport DEF sempInitParser, ShortBuffer
  <2>. QED BY <1>1, <2>1, <2>2 DEF Framer!Next, Framer!Reset, Framer!Unknown
<1>4. CASE UNCHANGED <<frame, answer, out>>
  <2>1. UNCHANGED <<FrameBytes, FrameTotal, Verdict>>
    BY <1>4 DEF frame, FrameBytes, FrameTotal, Verdict
  <2>2. ShortBuffer' BY <1>4 DEF frame, ShortBuffer
  <2>. QED BY <1>1, <2>1, <2>2 DEF Framer!vars
<1>5. UNCHANGED vars => UNCHANGED <<frame, answer, out>> BY DEF vars, frame
<1>. QED BY <1>2, <1>3, <1>4, <1>5 DEF Next, OneByte, sempProcessBuffer, ArrayByte

\* SingleParser implements LengthFramer for every buffer size, every set of
\* message lengths and every stream: frames are judged where their headers say.
THEOREM SingleImplementsFramer == Spec => ImplementsFramer
<1>1. Init => Framer!Init
  <2>. SUFFICES ASSUME Init PROVE Framer!Init OBVIOUS
  <2>1. EndlessRoom \in Nat BY Modulus DEF EndlessRoom
  <2>. QED BY <2>1, InitMapped DEF Init, Framer!Init, Framer!Unknown
<1>2. Init => ParserInv /\ ArrayInv /\ ShortBuffer
  BY Initially, QuietReport DEF Init, ShortBuffer
<1>3. (ParserInv /\ ArrayInv /\ ShortBuffer) /\ [Next]_vars
        => (ParserInv /\ ArrayInv /\ ShortBuffer)' /\ [Framer!Next]_(Framer!vars)
  BY NextStep, NextMapped
<1>. QED BY <1>1, <1>2, <1>3, PTL DEF Spec, ImplementsFramer, Framer!Spec

=============================================================================
