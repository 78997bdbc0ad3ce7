----------------------------- MODULE LBandProofs -----------------------------
(***************************************************************************)
(* Proofs about the two parsers of LBand, for every buffer length, every   *)
(* stream and every set of SPARTN headers.  Each parser has an invariant   *)
(* of its own, which the steps of the other leave alone.                   *)
(***************************************************************************)
EXTENDS LBand, TLAPS

\* How long a prover may take for one leaf.
USE SMTT(30), ZenonT(30)

\* 2^16 is a number with room for every SPARTN frame.
LEMMA Modulus == UINT16 \in Nat /\ UINT16 > 1300
BY DEF UINT16

\* The 16-bit words are the numbers below 2^16 (uint16_t).
LEMMA Words == \A n : n \in uint16_t <=> n \in Nat /\ n < UINT16
BY Modulus DEF uint16_t

\* The two parsers count in the same words.
LEMMA SameWords == Spartn!UINT16 = UINT16 /\ Spartn!Unset = Unset /\ Unset = -1
BY DEF UINT16, Spartn!UINT16, Unset, Spartn!Unset

\* Decrementing a 16-bit counter (bytesRemaining--).
LEMMA Counting ==
  ASSUME NEW n \in uint16_t
  PROVE  /\ Decrement(n, UINT16) \in uint16_t
         /\ n > 0 => Decrement(n, UINT16) = n - 1
         /\ n = 0 => Decrement(n, UINT16) = UINT16 - 1
<1>1. n < 65536 => (n - 1) % 65536 = IF n = 0 THEN 65535 ELSE n - 1 BY Words
<1>2. n \in Nat /\ n < UINT16 BY Words
<1>3. Decrement(n, UINT16) = IF n = 0 THEN UINT16 - 1 ELSE n - 1
  BY <1>1, <1>2 DEF Decrement, UINT16
<1>. QED BY <1>2, <1>3, Words, Modulus

\* A count that stays below 2^16 is not reduced.
LEMMA Unreduced == ASSUME NEW n \in Nat, n < UINT16 PROVE n % UINT16 = n
<1>1. n < 65536 => n % 65536 = n OBVIOUS
<1>. QED BY <1>1 DEF UINT16

\* Counting a byte in 16 bits (parse->length++).
LEMMA Successor ==
  ASSUME NEW n \in uint16_t
  PROVE  /\ n \in Nat /\ (n + 1) % UINT16 \in uint16_t /\ (n + 1) % UINT16 <= n + 1
         /\ n + 1 < UINT16 => (n + 1) % UINT16 = n + 1
         /\ n + 1 >= UINT16 => n + 1 = UINT16 /\ (n + 1) % UINT16 = 0
<1>1. n \in Nat /\ n < UINT16 BY Words
<1>2. n < 65536 => (n + 1) % 65536 = IF n + 1 < 65536 THEN n + 1 ELSE 0 BY <1>1
<1>3. (n + 1) % UINT16 = IF n + 1 < UINT16 THEN n + 1 ELSE 0 BY <1>1, <1>2 DEF UINT16
<1>. QED BY <1>1, <1>3, Words, Modulus

\* A count that has come round at most once.
LEMMA Reduced ==
  ASSUME NEW n \in Nat, n < UINT16 + UINT16
  PROVE  n % UINT16 = IF n < UINT16 THEN n ELSE n - UINT16
<1>1. n < 131072 => n % 65536 = IF n < 65536 THEN n ELSE n - 65536 OBVIOUS
<1>. QED BY <1>1 DEF UINT16

\* Counted in 16 bits, it goes on as it does without.
LEMMA NextReduced ==
  ASSUME NEW n \in Nat, n + 1 < UINT16 + UINT16
  PROVE  ((n % UINT16) + 1) % UINT16 = (n + 1) % UINT16
<1>1. CASE n < UINT16 BY <1>1, Unreduced
<1>2. CASE ~(n < UINT16)
  <2>1. n % UINT16 = n - UINT16 BY <1>2, Modulus, Reduced
  <2>2. (n - UINT16) + 1 \in Nat /\ (n - UINT16) + 1 < UINT16 BY <1>2, Modulus
  <2>3. ((n - UINT16) + 1) % UINT16 = (n - UINT16) + 1 BY <2>2, Unreduced
  <2>4. (n + 1) % UINT16 = (n + 1) - UINT16
    <3>1. n + 1 \in Nat /\ n + 1 < UINT16 + UINT16 /\ ~(n + 1 < UINT16) BY <1>2, Modulus
    <3>. QED BY <3>1, Reduced
  <2>. QED BY <1>2, <2>1, <2>3, <2>4, Modulus
<1>. QED BY <1>1, <1>2

\* The length of a block from its two bytes (sempSbfLengthLSB, sempSbfLengthMSB).
LEMMA TwoBytes ==
  ASSUME NEW lo \in uint8_t, NEW hi \in uint8_t PROVE lo + 256 * hi \in uint16_t
<1>1. lo \in 0 .. 255 /\ hi \in 0 .. 255 BY DEF uint8_t, UINT8
<1>2. lo + 256 * hi \in Nat /\ lo + 256 * hi < 65536 BY <1>1
<1>. QED BY <1>2, Words DEF UINT16

\* Taking the 8 header bytes off the length, in 16 bits.
LEMMA HeaderOff ==
  ASSUME NEW n \in uint16_t
  PROVE  /\ (n - 8) % UINT16 \in uint16_t
         /\ n >= 8 => (n - 8) % UINT16 = n - 8
         /\ n < 8 => (n - 8) % UINT16 = (UINT16 + n) - 8
<1>1. n \in Nat /\ n < UINT16 BY Words
<1>2. n < 65536 => (n - 8) % 65536 = IF n >= 8 THEN n - 8 ELSE (65536 + n) - 8 BY <1>1
<1>3. (n - 8) % UINT16 = IF n >= 8 THEN n - 8 ELSE (UINT16 + n) - 8
  BY <1>1, <1>2 DEF UINT16
<1>. QED BY <1>1, <1>3, Words, Modulus

-----------------------------------------------------------------------------
(* The SBF parser.                                                         *)

BlockInv == SbfType /\ SbfInv /\ SbfCheckCoversBlock

\* What the two kinds of report hold that decide no block.
LEMMA Reports ==
  /\ Undecided.result = "none" /\ Undecided.declared = Unset
  /\ \A n : Invalid(n).result = "invalid" /\ Invalid(n).len = n /\ Invalid(n).declared = Unset
BY DEF Undecided, Invalid

\* sempFirstByte forgets the block, in whatever state it is called.
LEMMA RestartInv ==
  ASSUME BlockInv, NEW data, Restart(data), UNCHANGED invalidDataCallback
  PROVE  BlockInv'
<1>1. /\ bufferLength' = bufferLength /\ length' = 1 /\ out'.declared = Unset
      /\ state' \in {"sempFirstByte", "sempSbfPreamble2"}
      /\ sbfLength' = Unset /\ bytesRemaining' = Unset
  BY Reports DEF Restart, sempFirstByte
<1>2. bufferLength \in Nat /\ bufferLength >= 32 /\ 1 \in uint16_t
  BY Words, Modulus DEF BlockInv, SbfType, SbfInv, SEMP_MINIMUM_BUFFER_LENGTH
<1>3. SbfType' BY <1>1, <1>2 DEF BlockInv, SbfType, SbfRoutines
<1>4. SbfInv' BY <1>1, <1>2 DEF SbfInv, SEMP_MINIMUM_BUFFER_LENGTH
<1>. QED BY <1>1, <1>3, <1>4 DEF BlockInv, SbfCheckCoversBlock

\* Storing a byte: there is room for it, and the next routine is one of the parser's.
LEMMA Stored ==
  ASSUME BlockInv, HasRoom, NEW routine \in SbfRoutines, Go(routine)
  PROVE  /\ bufferLength' = bufferLength /\ bufferLength \in Nat
         /\ bufferLength >= SEMP_MINIMUM_BUFFER_LENGTH
         /\ length \in Nat /\ length' \in uint16_t /\ length' <= bufferLength
         /\ length + 1 < UINT16 => length' = length + 1
         /\ length < 8 => length' = length + 1
         /\ state' = routine
<1>1. /\ bufferLength \in Nat /\ length \in uint16_t /\ length < bufferLength
      /\ bufferLength >= SEMP_MINIMUM_BUFFER_LENGTH
  BY DEF BlockInv, SbfType, SbfInv, HasRoom
<1>2. length' = (length + 1) % UINT16 /\ bufferLength' = bufferLength /\ state' = routine
  BY DEF Go
<1>3. /\ length \in Nat /\ length' \in uint16_t /\ length' <= length + 1
      /\ length + 1 < UINT16 => length' = length + 1
  BY <1>1, <1>2, Successor
<1>4. length' \in Nat BY <1>3, Words
<1>. QED BY <1>1, <1>2, <1>3, <1>4, Modulus

\* The routines before the length: a byte each, at a place of its own.
LEMMA HeaderInv ==
  ASSUME BlockInv, UNCHANGED invalidDataCallback,
         \/ \E data : sempSbfPreamble2(data)
         \/ sempSbfCRC1 \/ sempSbfCRC2
         \/ sempSbfID("sempSbfID1", "sempSbfID2") \/ sempSbfID("sempSbfID2", "sempSbfLengthLSB")
  PROVE  BlockInv'
<1>. PICK routine \in {"sempFirstByte", "sempSbfCRC1", "sempSbfCRC2", "sempSbfID1", "sempSbfID2",
                      "sempSbfLengthLSB"} : Go(routine) /\ HasRoom
  BY DEF sempSbfPreamble2, sempSbfCRC1, sempSbfCRC2, sempSbfID, Continue, End, In
<1>1. out'.declared = Unset /\ UNCHANGED <<sbfLength, bytesRemaining>>
  BY Reports DEF sempSbfPreamble2, sempSbfCRC1, sempSbfCRC2, sempSbfID, Continue, End, scratch
<1>2. routine \in SbfRoutines BY DEF SbfRoutines
<1>3. SbfType' BY <1>1, <1>2, Stored DEF BlockInv, SbfType
<1>4. SbfInv'
  BY <1>2, Stored DEF BlockInv, SbfInv, sempSbfPreamble2, sempSbfCRC1, sempSbfCRC2, sempSbfID,
     Continue, End, In, Go
<1>. QED BY <1>1, <1>3, <1>4 DEF BlockInv, SbfCheckCoversBlock

\* The first byte of the length.
LEMMA LengthLsbInv ==
  ASSUME BlockInv, UNCHANGED invalidDataCallback, NEW data \in SbfBytes, sempSbfLengthLSB(data)
  PROVE  BlockInv'
<1>0. data \in uint8_t /\ data \in uint16_t
  BY SbfBytesAreBytes, Words, Modulus DEF uint8_t, UINT8
<1>1. /\ out'.declared = Unset /\ sbfLength' = data /\ UNCHANGED bytesRemaining
      /\ state = "sempSbfLengthLSB" /\ HasRoom /\ Go("sempSbfLengthMSB")
      /\ computedCRC' = computedCRC + 1
  BY Reports DEF sempSbfLengthLSB, Continue, In
<1>2. "sempSbfLengthMSB" \in SbfRoutines BY DEF SbfRoutines
<1>3. SbfType' BY <1>0, <1>1, <1>2, Stored DEF BlockInv, SbfType
<1>4. SbfInv' BY <1>0, <1>1, <1>2, Stored DEF BlockInv, SbfInv
<1>. QED BY <1>1, <1>3, <1>4 DEF BlockInv, SbfCheckCoversBlock

\* The second byte of the length: a block that ends, one that does not, or none.
LEMMA LengthMsbInv ==
  ASSUME BlockInv, UNCHANGED invalidDataCallback, NEW data \in SbfBytes, sempSbfLengthMSB(data)
  PROVE  BlockInv'
<1>0. data \in uint8_t BY SbfBytesAreBytes
<1>1. /\ state = "sempSbfLengthMSB" /\ HasRoom /\ length = 7 /\ computedCRC = 3
      /\ sbfLength \in uint8_t /\ sbfLength' = sbfLength + 256 * data /\ computedCRC' = 4
  BY DEF sempSbfLengthMSB, In, BlockInv, SbfInv
<1>2. sbfLength' \in uint16_t BY <1>0, <1>1, TwoBytes
<1>3. out'.declared = Unset BY Reports DEF sempSbfLengthMSB, Continue, End
<1>4. CASE /\ sbfLength' % 4 = 0 /\ bytesRemaining' = (sbfLength' - 8) % UINT16
           /\ Go("sempSbfReadBytes")
  <2>1. "sempSbfReadBytes" \in SbfRoutines BY DEF SbfRoutines
  <2>2. bytesRemaining' \in uint16_t BY <1>2, <1>4, HeaderOff
  <2>3. length' = 8 /\ state' = "sempSbfReadBytes" BY <1>1, <1>4, <2>1, Stored
  <2>4. SbfType' BY <1>1, <1>2, <1>4, <2>1, <2>2, Stored DEF BlockInv, SbfType
  <2>5. \/ sbfLength' >= 12 /\ bytesRemaining' = sbfLength' - 8
        \/ sbfLength' = 8 /\ bytesRemaining' = 0
        \/ sbfLength' < 8 /\ bytesRemaining' = (UINT16 + sbfLength') - 8
    <3>1. sbfLength' \in Nat /\ sbfLength' \notin {9, 10, 11} BY <1>2, <1>4, Words
    <3>. QED BY <1>2, <1>4, <3>1, HeaderOff
  <2>6. sbfLength' \in Nat BY <1>2, Words
  <2>7. BlockRead' = 8 BY <1>1 DEF BlockRead
  <2>8. \/ ~Endless' /\ BlockRead' + bytesRemaining' = sbfLength' /\ bytesRemaining' > 0
        \/ Endless' /\ BlockRead' = 8 /\ bytesRemaining' = 0 /\ sbfLength' = 8
        \/ Endless' /\ BlockRead' + bytesRemaining' = UINT16 + sbfLength' /\ bytesRemaining' > 0
    BY <2>3, <2>5, <2>6, <2>7, Modulus DEF Endless
  <2>9. length' = BlockRead' % UINT16 BY <2>3, <2>7, Modulus, Unreduced
  <2>10. SbfInv' BY <1>1, <1>2, <1>4, <2>1, <2>2, <2>3, <2>7, <2>8, <2>9, Stored DEF SbfInv
  <2>. QED BY <1>3, <2>4, <2>10 DEF BlockInv, SbfCheckCoversBlock
<1>5. CASE Go("sempFirstByte") /\ UNCHANGED bytesRemaining
  <2>1. "sempFirstByte" \in SbfRoutines BY DEF SbfRoutines
  <2>2. SbfType' BY <1>1, <1>2, <1>5, <2>1, Stored DEF BlockInv, SbfType
  <2>3. SbfInv' BY <1>1, <1>5, <2>1, Stored DEF SbfInv
  <2>. QED BY <1>3, <2>2, <2>3 DEF BlockInv, SbfCheckCoversBlock
<1>. QED BY <1>4, <1>5 DEF sempSbfLengthMSB, Continue, End

\* The counter of a block: it ends where it should, or, of an endless block, when it has
\* come round.
LEMMA ReadCount ==
  ASSUME BlockInv, NEW accepted, sempSbfReadBytes(accepted)
  PROVE  /\ state = "sempSbfReadBytes" /\ HasRoom
         /\ computedCRC \in Nat /\ computedCRC' = computedCRC + 1
         /\ BlockRead \in Nat /\ BlockRead >= 8 /\ BlockRead' = BlockRead + 1
         /\ BlockRead' < UINT16 + UINT16
         /\ length = BlockRead % UINT16
         /\ sbfLength \in uint16_t /\ sbfLength \in Nat /\ sbfLength' = sbfLength
         /\ bytesRemaining' \in uint16_t /\ bytesRemaining' \in Nat
         /\ ~Endless => BlockRead' + bytesRemaining' = sbfLength
         /\ Endless => BlockRead' + bytesRemaining' = UINT16 + sbfLength
<1>1. state = "sempSbfReadBytes" /\ HasRoom BY DEF sempSbfReadBytes, In
<1>2. /\ computedCRC \in Nat /\ BlockRead \in Nat /\ BlockRead >= 8
      /\ length = BlockRead % UINT16
      /\ sbfLength \in uint16_t /\ sbfLength \in Nat
      /\ bytesRemaining \in uint16_t /\ bytesRemaining \in Nat
  BY <1>1, Words DEF BlockInv, SbfInv, BlockRead
<1>3. bytesRemaining' = Decrement(bytesRemaining, UINT16) /\ computedCRC' = computedCRC + 1
      /\ sbfLength' = sbfLength
  BY DEF sempSbfReadBytes
<1>4. /\ bytesRemaining' \in uint16_t /\ bytesRemaining' \in Nat
      /\ bytesRemaining > 0 => bytesRemaining' = bytesRemaining - 1
      /\ bytesRemaining = 0 => bytesRemaining' = UINT16 - 1
  BY <1>2, <1>3, Counting, Words
<1>5. BlockRead' = BlockRead + 1 BY <1>2, <1>3 DEF BlockRead
<1>6. \/ ~Endless /\ BlockRead + bytesRemaining = sbfLength /\ bytesRemaining > 0
      \/ Endless /\ BlockRead = 8 /\ bytesRemaining = 0 /\ sbfLength = 8
      \/ Endless /\ BlockRead + bytesRemaining = UINT16 + sbfLength /\ bytesRemaining > 0
  BY <1>1 DEF BlockInv, SbfInv
<1>7. /\ ~Endless => BlockRead' + bytesRemaining' = sbfLength
      /\ Endless => BlockRead' + bytesRemaining' = UINT16 + sbfLength
  <2>1. CASE ~Endless
    <3>1. BlockRead + bytesRemaining = sbfLength /\ bytesRemaining > 0 BY <1>6, <2>1
    <3>2. BlockRead' + bytesRemaining' = sbfLength BY <1>2, <1>4, <1>5, <3>1
    <3>. QED BY <2>1, <3>2
  <2>2. CASE Endless /\ BlockRead = 8 /\ bytesRemaining = 0 /\ sbfLength = 8
    BY <1>2, <1>4, <1>5, <2>2, Modulus
  <2>3. CASE Endless /\ BlockRead + bytesRemaining = UINT16 + sbfLength /\ bytesRemaining > 0
    BY <1>2, <1>4, <1>5, <2>3, Modulus
  <2>. QED BY <1>6, <2>1, <2>2, <2>3
<1>8. BlockRead' < UINT16 + UINT16
  <2>1. BlockRead' \in Nat /\ sbfLength < UINT16 BY <1>2, <1>5, Words
  <2>2. \A a, b, c, u \in Nat : c < u /\ (a + b = c \/ a + b = u + c) => a < u + u OBVIOUS
  <2>3. /\ BlockRead' \in Nat /\ bytesRemaining' \in Nat /\ sbfLength \in Nat /\ UINT16 \in Nat
        /\ sbfLength < UINT16
    BY <1>2, <1>4, <2>1, Modulus
  <2>4. \/ BlockRead' + bytesRemaining' = sbfLength
        \/ BlockRead' + bytesRemaining' = UINT16 + sbfLength
    BY <1>7
  <2>. QED BY Zenon, <2>2, <2>3, <2>4
<1>. QED BY <1>1, <1>2, <1>3, <1>4, <1>5, <1>7, <1>8

\* What is in the buffer when the counter has run out.
LEMMA BlockEnd ==
  ASSUME BlockInv, NEW accepted, sempSbfReadBytes(accepted), bytesRemaining' = 0,
         Go("sempFirstByte")
  PROVE  /\ length' = sbfLength
         /\ computedCRC' = (IF sbfLength < 12 THEN UINT16 + length' ELSE length') - 4
<1>1. /\ state = "sempSbfReadBytes" /\ computedCRC \in Nat /\ computedCRC' = computedCRC + 1
      /\ BlockRead \in Nat /\ BlockRead' = BlockRead + 1 /\ length = BlockRead % UINT16
      /\ sbfLength \in Nat /\ sbfLength < UINT16
      /\ ~Endless => BlockRead' = sbfLength
      /\ Endless => BlockRead' = UINT16 + sbfLength
  <2>1. /\ ~Endless => BlockRead' + 0 = sbfLength
        /\ Endless => BlockRead' + 0 = UINT16 + sbfLength
    BY ReadCount
  <2>2. BlockRead \in Nat /\ BlockRead' = BlockRead + 1 BY ReadCount
  <2>. QED BY <2>1, <2>2, ReadCount, Words
<1>2. length' = (BlockRead + 1) % UINT16 BY <1>1, ReadCount, NextReduced DEF Go
<1>3. CASE ~Endless
  <2>1. length' = sbfLength BY <1>1, <1>2, <1>3, Unreduced
  <2>2. ~(sbfLength < 12) BY <1>1, <1>3 DEF Endless
  <2>. QED BY <1>1, <1>3, <2>1, <2>2 DEF BlockRead
<1>4. CASE Endless
  <2>1. length' = sbfLength
    <3>1. UINT16 + sbfLength \in Nat /\ UINT16 + sbfLength < UINT16 + UINT16
          /\ ~(UINT16 + sbfLength < UINT16) /\ (UINT16 + sbfLength) - UINT16 = sbfLength
      BY <1>1, Modulus
    <3>. QED BY <1>1, <1>2, <1>4, <3>1, Reduced
  <2>2. sbfLength < 12 BY <1>4 DEF Endless
  <2>. QED BY <1>1, <1>4, <2>1, <2>2, Modulus DEF BlockRead
<1>. QED BY <1>3, <1>4

\* A byte of the block.
LEMMA ReadBytesInv ==
  ASSUME BlockInv, UNCHANGED invalidDataCallback, NEW accepted, sempSbfReadBytes(accepted)
  PROVE  BlockInv'
<1>1. /\ sbfLength' = sbfLength /\ sbfLength \in uint16_t /\ sbfLength \in Nat
      /\ bytesRemaining' \in uint16_t /\ bytesRemaining' \in Nat
      /\ HasRoom /\ state = "sempSbfReadBytes"
      /\ computedCRC \in Nat /\ computedCRC' = computedCRC + 1
      /\ BlockRead \in Nat /\ BlockRead >= 8 /\ BlockRead' = BlockRead + 1
      /\ length = BlockRead % UINT16
  BY ReadCount
<1>2. CASE bytesRemaining' # 0 /\ Continue("sempSbfReadBytes")
  <2>1. "sempSbfReadBytes" \in SbfRoutines BY DEF SbfRoutines
  <2>2. Go("sempSbfReadBytes") /\ out'.declared = Unset BY <1>2, Reports DEF Continue
  <2>3. length' = BlockRead' % UINT16 /\ state' = "sempSbfReadBytes"
    BY <1>1, <2>2, ReadCount, NextReduced DEF Go
  <2>4. SbfType' BY <1>1, <2>1, <2>2, Stored DEF BlockInv, SbfType
  <2>5. Endless' <=> Endless BY <1>1, <2>3 DEF Endless
  <2>6. \/ ~Endless' /\ BlockRead' + bytesRemaining' = sbfLength' /\ bytesRemaining' > 0
        \/ Endless' /\ BlockRead' + bytesRemaining' = UINT16 + sbfLength' /\ bytesRemaining' > 0
    <3>1. /\ ~Endless => BlockRead' + bytesRemaining' = sbfLength
          /\ Endless => BlockRead' + bytesRemaining' = UINT16 + sbfLength
      BY ReadCount
    <3>2. bytesRemaining' > 0 BY <1>1, <1>2
    <3>. QED BY ZenonT(30), <1>1, <2>5, <3>1, <3>2
  <2>7. sbfLength' % 4 = 0 BY <1>1 DEF BlockInv, SbfInv
  <2>8. computedCRC' \in Nat /\ BlockRead' >= 8 BY <1>1
  <2>9. bufferLength' >= SEMP_MINIMUM_BUFFER_LENGTH BY <1>1, <2>1, <2>2, Stored
  <2>10. SbfInv' BY ZenonT(30), <1>1, <2>3, <2>6, <2>7, <2>8, <2>9 DEF SbfInv
  <2>. QED BY <2>2, <2>4, <2>10 DEF BlockInv, SbfCheckCoversBlock
<1>3. CASE /\ bytesRemaining' = 0 /\ Go("sempFirstByte") /\ out'.len = length'
           /\ out'.covered = computedCRC' /\ out'.declared = sbfLength
  <2>1. "sempFirstByte" \in SbfRoutines BY DEF SbfRoutines
  <2>2. SbfType' BY <1>1, <1>3, <2>1, Stored DEF BlockInv, SbfType
  <2>3. SbfInv' BY <1>1, <1>3, <2>1, Stored DEF SbfInv
  <2>4. computedCRC' = (IF sbfLength < 12 THEN UINT16 + length' ELSE length') - 4
    BY <1>3, BlockEnd
  <2>5. SbfCheckCoversBlock' BY <1>3, <2>4 DEF SbfCheckCoversBlock
  <2>. QED BY <2>2, <2>3, <2>5 DEF BlockInv
<1>. QED BY <1>2, <1>3 DEF sempSbfReadBytes, End

\* Every byte keeps the invariant of the SBF parser.
LEMMA SbfByteInv == ASSUME BlockInv, sempParseNextByte PROVE BlockInv'
<1>1. UNCHANGED invalidDataCallback BY DEF sempParseNextByte
<1>2. ASSUME NEW data \in SbfBytes, Restart(data) PROVE BlockInv'
  BY <1>1, <1>2, RestartInv
<1>3. ASSUME NEW data \in SbfBytes, sempSbfLengthLSB(data) PROVE BlockInv'
  BY <1>1, <1>3, LengthLsbInv
<1>4. ASSUME NEW data \in SbfBytes, sempSbfLengthMSB(data) PROVE BlockInv'
  BY <1>1, <1>4, LengthMsbInv
<1>5. ASSUME NEW accepted \in BOOLEAN, sempSbfReadBytes(accepted) PROVE BlockInv'
  BY <1>1, <1>5, ReadBytesInv
<1>6. ASSUME \/ \E data : sempSbfPreamble2(data)
             \/ sempSbfCRC1 \/ sempSbfCRC2
             \/ sempSbfID("sempSbfID1", "sempSbfID2")
             \/ sempSbfID("sempSbfID2", "sempSbfLengthLSB")
      PROVE  BlockInv'
  BY <1>1, <1>6, HeaderInv
<1>. QED BY <1>2, <1>3, <1>4, <1>5, <1>6 DEF sempParseNextByte, BufferFull

\* The bytes handed on are those in the buffer.
LEMMA InvalidIsBuffer ==
  ASSUME BlockInv, sempParseNextByte, out'.result # "none"
  PROVE  out'.len = length'
<1>1. ASSUME NEW data, Restart(data) PROVE out'.len = length'
  BY <1>1, Reports DEF Restart, sempFirstByte
<1>2. ASSUME End(Invalid(length')) PROVE out'.len = length'
  BY <1>2, Reports DEF End, Go
<1>3. ASSUME NEW accepted, sempSbfReadBytes(accepted) PROVE out'.len = length'
  BY <1>3, Reports DEF sempSbfReadBytes, Continue, End, Go
<1>. QED BY <1>1, <1>2, <1>3, Reports
     DEF sempParseNextByte, BufferFull, sempSbfPreamble2, sempSbfCRC1, sempSbfCRC2,
         sempSbfID, sempSbfLengthLSB, sempSbfLengthMSB, Continue

\* No byte is lost while there is room, or no block to lose.
LEMMA ByteAccounted ==
  ASSUME BlockInv, SbfByte, invalidDataCallback, Fitting \/ Kept = 0
  PROVE  Accounted
<1>1. sempParseNextByte /\ pipe' = (IF out'.result = "invalid" THEN out'.len ELSE 0)
  BY DEF SbfByte
<1>2. /\ length \in Nat
      /\ state # "sempFirstByte" => (length + 1) % UINT16 = length + 1
  <2>1. length \in uint16_t /\ length \in Nat BY Words DEF BlockInv, SbfType
  <2>2. state # "sempFirstByte" => length + 1 < UINT16 BY <2>1, Modulus DEF Fitting, Kept
  <2>. QED BY <2>1, <2>2, Successor
<1>3. Released' = IF out'.result \in {"delivered", "invalid"} THEN out'.len ELSE 0
  BY <1>1 DEF Released
<1>4. ASSUME NEW data, Restart(data), Kept = 0 PROVE Accounted
  <2>1. CASE data = 36
    BY <1>3, <1>4, <2>1, Reports DEF Restart, sempFirstByte, Accounted, Kept
  <2>2. CASE data # 36
    BY <1>3, <1>4, <2>2, Reports DEF Restart, sempFirstByte, Accounted, Kept
  <2>. QED BY <2>1, <2>2
<1>5. ASSUME NEW routine, routine # "sempFirstByte", state # "sempFirstByte", Continue(routine)
      PROVE  Accounted
  BY <1>2, <1>3, <1>5, Reports DEF Continue, Go, Accounted, Kept
<1>6. ASSUME NEW verdict, state # "sempFirstByte", End(verdict), verdict.len = length',
             verdict.result \in {"delivered", "invalid"}
      PROVE  Accounted
  BY <1>2, <1>3, <1>6 DEF End, Go, Accounted, Kept
<1>7. ASSUME NEW data, BufferFull(data) PROVE Accounted
  BY <1>4, <1>7 DEF BufferFull, Fitting
<1>8. ASSUME NEW data, In("sempFirstByte"), Restart(data) PROVE Accounted
  BY <1>4, <1>8 DEF In, Kept
<1>9. ASSUME NEW data,
             sempSbfPreamble2(data) \/ sempSbfLengthLSB(data) \/ sempSbfLengthMSB(data)
      PROVE  Accounted
  BY <1>5, <1>6, <1>9, Reports DEF sempSbfPreamble2, sempSbfLengthLSB, sempSbfLengthMSB, In
<1>10. ASSUME \/ sempSbfCRC1 \/ sempSbfCRC2
              \/ sempSbfID("sempSbfID1", "sempSbfID2")
              \/ sempSbfID("sempSbfID2", "sempSbfLengthLSB")
       PROVE  Accounted
  BY <1>5, <1>10 DEF sempSbfCRC1, sempSbfCRC2, sempSbfID, In
<1>11. ASSUME NEW accepted \in BOOLEAN, sempSbfReadBytes(accepted) PROVE Accounted
  BY <1>5, <1>6, <1>11 DEF sempSbfReadBytes, In
<1>. QED BY <1>1, <1>7, <1>8, <1>9, <1>10, <1>11 DEF sempParseNextByte

-----------------------------------------------------------------------------
(* The SPARTN parser.                                                      *)

FrameInv == SpartnType /\ SpartnInv /\ SpartnCheckIsLast

\* A byte that judges no frame.
LEMMA Unjudged == Spartn!Nothing.result = "none"
BY DEF Spartn!Nothing

\* sempFirstByte forgets the frame, in whatever state it is called.
LEMMA SpartnRestartInv ==
  ASSUME FrameInv, NEW claimed \in BOOLEAN, Spartn!Restart(claimed)
  PROVE  FrameInv'
<1>1. /\ spBufferLength' = spBufferLength /\ spLength' = 1 /\ frame'.result = "none"
      /\ \/ spState' = "sempFirstByte" /\ frameCount' = Unset
         \/ spState' = "sempSpartnReadTF002TF006" /\ frameCount' = 0
  BY Unjudged, SameWords DEF Spartn!Restart, Spartn!sempFirstByte
<1>2. spBufferLength \in Nat /\ spBufferLength >= 32
  BY DEF FrameInv, SpartnType, SpartnInv, SEMP_MINIMUM_BUFFER_LENGTH
<1>3. 0 \in uint16_t /\ 1 \in uint16_t BY Words, Modulus
<1>4. SpartnType' BY <1>1, <1>2, <1>3 DEF SpartnType, SpartnRoutines
<1>5. SpartnInv' BY <1>1, <1>2 DEF SpartnInv, SEMP_MINIMUM_BUFFER_LENGTH
<1>. QED BY <1>1, <1>4, <1>5 DEF FrameInv, SpartnCheckIsLast

\* Storing a byte, and what the type invariant needs of the step.
LEMMA SpartnStored ==
  ASSUME FrameInv, Spartn!HasRoom, NEW routine \in SpartnRoutines, Spartn!Go(routine),
         frameCount' \in Nat, frameCount' < UINT16
  PROVE  /\ SpartnType' /\ spState' = routine
         /\ spLength \in Nat /\ spLength' = (spLength + 1) % UINT16
         /\ spLength + 1 < UINT16 => spLength' = spLength + 1
         /\ spLength < 1200 => spLength' = spLength + 1
         /\ spBufferLength' >= SEMP_MINIMUM_BUFFER_LENGTH
<1>1. spLength \in uint16_t /\ spBufferLength \in Nat /\ spLength < spBufferLength
  BY DEF FrameInv, SpartnType, Spartn!HasRoom
<1>2. /\ spState' = routine /\ spLength' = (spLength + 1) % UINT16
      /\ spBufferLength' = spBufferLength
  BY SameWords DEF Spartn!Go
<1>3. frameCount' \in uint16_t BY Words
<1>4. /\ spLength \in Nat /\ spLength' \in uint16_t /\ spLength' <= spLength + 1
      /\ spLength + 1 < UINT16 => spLength' = spLength + 1
  BY <1>1, <1>2, Successor
<1>5. spLength' \in Nat /\ spLength' <= spBufferLength' BY <1>1, <1>2, <1>4, Words
<1>6. SpartnType' BY <1>1, <1>2, <1>3, <1>4, <1>5 DEF FrameInv, SpartnType
<1>7. spLength < 1200 => spLength + 1 < UINT16 BY <1>4, Modulus
<1>. QED BY <1>2, <1>4, <1>6, <1>7 DEF FrameInv, SpartnInv

\* The header bytes.
LEMMA HeaderBytesInv ==
  ASSUME FrameInv, Spartn!sempSpartnReadTF002TF006
  PROVE  FrameInv'
<1>1. /\ spState = "sempSpartnReadTF002TF006" /\ Spartn!HasRoom
      /\ frameCount \in 0 .. 2 /\ spLength = 1 + frameCount
  BY DEF Spartn!sempSpartnReadTF002TF006, Spartn!In, FrameInv, SpartnInv
<1>2. CASE frameCount < 2 /\ Spartn!Continue("sempSpartnReadTF002TF006", frameCount + 1)
  <2>1. /\ Spartn!Go("sempSpartnReadTF002TF006") /\ frameCount' = frameCount + 1
        /\ frame'.result = "none" /\ "sempSpartnReadTF002TF006" \in SpartnRoutines
    BY <1>2, Unjudged DEF Spartn!Continue, SpartnRoutines
  <2>2. frameCount' \in Nat /\ frameCount' < UINT16 BY <1>1, <2>1, Modulus
  <2>3. /\ SpartnType' /\ spState' = "sempSpartnReadTF002TF006" /\ spLength' = spLength + 1
        /\ spBufferLength' >= SEMP_MINIMUM_BUFFER_LENGTH
    BY <1>1, <2>1, <2>2, SpartnStored
  <2>4. SpartnInv' BY <1>1, <1>2, <2>1, <2>3 DEF SpartnInv
  <2>. QED BY <2>1, <2>3, <2>4 DEF FrameInv, SpartnCheckIsLast
<1>3. ASSUME frameCount = 2, NEW h \in Headers, payloadLength' = h.payloadLength,
             EAF' = h.EAF, crcBytes' = h.crcBytes,
             \/ Spartn!Continue("sempSpartnReadTF007", 3)
             \/ Spartn!Continue("sempFirstByte", 2)
      PROVE  FrameInv'
  <2>1. HeaderRead' BY <1>3, SpartnHeaders DEF HeaderRead
  <2>2. PICK routine \in {"sempSpartnReadTF007", "sempFirstByte"}, n \in {2, 3} :
          Spartn!Continue(routine, n)
    BY <1>3
  <2>3. /\ Spartn!Go(routine) /\ frameCount' = n /\ frame'.result = "none"
        /\ routine \in SpartnRoutines
    BY <2>2, Unjudged DEF Spartn!Continue, SpartnRoutines
  <2>4. frameCount' \in Nat /\ frameCount' < UINT16 BY <2>3, Modulus
  <2>5. /\ SpartnType' /\ spState' = routine /\ spLength' = spLength + 1
        /\ spBufferLength' >= SEMP_MINIMUM_BUFFER_LENGTH
    BY <1>1, <2>3, <2>4, SpartnStored
  <2>6. SpartnInv' BY <1>1, <1>3, <2>1, <2>5 DEF SpartnInv
  <2>. QED BY <2>3, <2>5, <2>6 DEF FrameInv, SpartnCheckIsLast
<1>. QED BY <1>2, <1>3 DEF Spartn!sempSpartnReadTF002TF006

\* The byte that says how long the time tag is.
LEMMA SubtypeInv ==
  ASSUME FrameInv, Spartn!sempSpartnReadTF007
  PROVE  FrameInv'
<1>1. spState = "sempSpartnReadTF007" /\ Spartn!HasRoom /\ HeaderRead /\ spLength = 4
  BY DEF Spartn!sempSpartnReadTF007, Spartn!In, FrameInv, SpartnInv
<1>2. /\ Spartn!Go("sempSpartnReadTF009") /\ frameCount' = 1 /\ frame'.result = "none"
      /\ "sempSpartnReadTF009" \in SpartnRoutines
  BY Unjudged DEF Spartn!sempSpartnReadTF007, Spartn!Continue, SpartnRoutines
<1>3. HeaderRead' /\ TF007toTF016' \in {4, 6, 8}
  BY <1>1 DEF HeaderRead, Spartn!sempSpartnReadTF007
<1>4. frameCount' \in Nat /\ frameCount' < UINT16 BY <1>2, Modulus
<1>5. /\ SpartnType' /\ spState' = "sempSpartnReadTF009" /\ spLength' = spLength + 1
      /\ spBufferLength' >= SEMP_MINIMUM_BUFFER_LENGTH
  BY <1>1, <1>2, <1>4, SpartnStored
<1>6. frameCount' \in 1 .. TF007toTF016' - 1 /\ spLength' = 4 + frameCount'
  <2>1. TF007toTF016' - 1 \in {3, 5, 7} BY <1>3
  <2>2. frameCount' \in 1 .. TF007toTF016' - 1 BY <1>2, <2>1
  <2>3. spLength' = 4 + frameCount' BY <1>1, <1>2, <1>5
  <2>. QED BY <2>2, <2>3
<1>7. SpartnInv' BY ZenonT(30), <1>3, <1>5, <1>6 DEF SpartnInv
<1>. QED BY <1>2, <1>5, <1>7 DEF FrameInv, SpartnCheckIsLast

\* The bytes up to the payload.
LEMMA TimeTagInv ==
  ASSUME FrameInv, Spartn!sempSpartnReadTF009
  PROVE  FrameInv'
<1>1. /\ spState = "sempSpartnReadTF009" /\ Spartn!HasRoom /\ HeaderRead
      /\ TF007toTF016 \in {4, 6, 8} /\ frameCount \in 1 .. TF007toTF016 - 1
      /\ spLength = 4 + frameCount
  BY DEF Spartn!sempSpartnReadTF009, Spartn!In, FrameInv, SpartnInv
<1>2. HeaderRead' /\ TF007toTF016' = TF007toTF016
  BY <1>1 DEF HeaderRead, Spartn!sempSpartnReadTF009
<1>3. CASE /\ frameCount + 1 # TF007toTF016
           /\ Spartn!Continue("sempSpartnReadTF009", frameCount + 1)
  <2>1. /\ Spartn!Go("sempSpartnReadTF009") /\ frameCount' = frameCount + 1
        /\ frame'.result = "none" /\ "sempSpartnReadTF009" \in SpartnRoutines
    BY <1>3, Unjudged DEF Spartn!Continue, SpartnRoutines
  <2>2. frameCount' \in 1 .. TF007toTF016' - 1 BY <1>1, <1>2, <1>3, <2>1
  <2>3. frameCount' \in Nat /\ frameCount' < UINT16 BY <1>1, <2>1, Modulus
  <2>4. /\ SpartnType' /\ spState' = "sempSpartnReadTF009" /\ spLength' = spLength + 1
        /\ spBufferLength' >= SEMP_MINIMUM_BUFFER_LENGTH
    BY <1>1, <2>1, <2>3, SpartnStored
  <2>5. spLength' = 4 + frameCount' BY <1>1, <2>1, <2>4
  <2>6. SpartnInv' BY ZenonT(30), <1>1, <1>2, <2>2, <2>4, <2>5 DEF SpartnInv
  <2>. QED BY <2>1, <2>4, <2>6 DEF FrameInv, SpartnCheckIsLast
<1>4. CASE /\ frameCount + 1 = TF007toTF016
           /\ embedded' \in (IF EAF = 0 THEN {0} ELSE {0, 8, 12, 16, 32, 64})
           /\ Spartn!Continue("sempSpartnReadTF016", 0)
  <2>1. /\ Spartn!Go("sempSpartnReadTF016") /\ frameCount' = 0
        /\ frame'.result = "none" /\ "sempSpartnReadTF016" \in SpartnRoutines
    BY <1>4, Unjudged DEF Spartn!Continue, SpartnRoutines
  <2>2. FieldsRead' BY <1>1, <1>2, <1>4 DEF FieldsRead
  <2>3. frameCount' \in Nat /\ frameCount' < UINT16 /\ frameCount' \in uint16_t
    BY <2>1, Modulus, Words
  <2>4. /\ SpartnType' /\ spState' = "sempSpartnReadTF016" /\ spLength' = spLength + 1
        /\ spBufferLength' >= SEMP_MINIMUM_BUFFER_LENGTH
    BY <1>1, <2>1, <2>3, SpartnStored
  <2>5. spLength' = (4 + TF007toTF016' + frameCount') % UINT16
    <3>1. /\ 4 + TF007toTF016' + frameCount' = spLength + 1 /\ spLength + 1 \in Nat
          /\ spLength + 1 < UINT16
      BY <1>1, <1>2, <1>4, <2>1, Modulus
    <3>. QED BY <2>4, <3>1, Unreduced
  <2>6. frameCount' < payloadLength' \/ payloadLength' = 0 BY <1>2, <2>1 DEF HeaderRead
  <2>7. SpartnInv' BY <2>2, <2>3, <2>4, <2>5, <2>6 DEF SpartnInv
  <2>. QED BY <2>1, <2>4, <2>7 DEF FrameInv, SpartnCheckIsLast
<1>. QED BY <1>3, <1>4 DEF Spartn!sempSpartnReadTF009

\* A byte of the payload or of the embedded authentication: both counters go round in
\* 16 bits.
LEMMA FieldByte ==
  ASSUME FrameInv, NEW routine, NEW size, NEW next \in SpartnRoutines,
         routine \in SpartnRoutines, Spartn!sempSpartnReadField(routine, size, next),
         frameCount \in uint16_t
  PROVE  /\ spState = routine
         /\ spLength \in Nat /\ spLength' = (spLength + 1) % UINT16 /\ SpartnType'
         /\ spLength < 1200 => spLength' = spLength + 1
         /\ spBufferLength' >= SEMP_MINIMUM_BUFFER_LENGTH
         /\ frame'.result = "none"
         /\ UNCHANGED <<payloadLength, EAF, crcBytes, TF007toTF016, embedded>>
         /\ \/ /\ (frameCount + 1) % UINT16 # size /\ spState' = routine
               /\ frameCount' = (frameCount + 1) % UINT16
            \/ (frameCount + 1) % UINT16 = size /\ spState' = next /\ frameCount' = 0
<1>1. spState = routine /\ Spartn!HasRoom /\ UNCHANGED Spartn!fields
  BY DEF Spartn!sempSpartnReadField, Spartn!In
<1>2. (frameCount + 1) % UINT16 \in Nat /\ (frameCount + 1) % UINT16 < UINT16 /\ 0 < UINT16
  BY Successor, Words, Modulus
<1>3. \/ (frameCount + 1) % UINT16 # size /\ Spartn!Continue(routine, (frameCount + 1) % UINT16)
      \/ (frameCount + 1) % UINT16 = size /\ Spartn!Continue(next, 0)
  BY SameWords DEF Spartn!sempSpartnReadField
<1>4. frameCount' \in Nat /\ frameCount' < UINT16 /\ frame'.result = "none"
  BY <1>2, <1>3, Unjudged DEF Spartn!Continue
<1>5. PICK r \in {routine, next} : Spartn!Go(r) BY <1>3 DEF Spartn!Continue
<1>6. /\ SpartnType' /\ spLength \in Nat /\ spLength' = (spLength + 1) % UINT16
      /\ spLength < 1200 => spLength' = spLength + 1
      /\ spBufferLength' >= SEMP_MINIMUM_BUFFER_LENGTH
  BY <1>1, <1>4, <1>5, SpartnStored
<1>7. \/ /\ (frameCount + 1) % UINT16 # size /\ spState' = routine
         /\ frameCount' = (frameCount + 1) % UINT16
      \/ (frameCount + 1) % UINT16 = size /\ spState' = next /\ frameCount' = 0
  BY <1>3 DEF Spartn!Continue, Spartn!Go
<1>. QED BY <1>1, <1>4, <1>6, <1>7 DEF Spartn!fields

\* The places of the frame are within 16 bits as long as its payload is.
LEMMA PayloadPlace ==
  ASSUME FieldsRead, frameCount \in uint16_t, spLength = (4 + TF007toTF016 + frameCount) % UINT16,
         frameCount < payloadLength \/ payloadLength = 0
  PROVE  /\ frameCount \in Nat /\ TF007toTF016 \in Nat /\ payloadLength \in Nat
         /\ embedded \in Nat /\ crcBytes \in Nat /\ crcBytes > 0
         /\ (spLength + 1) % UINT16 = (4 + TF007toTF016 + (frameCount + 1)) % UINT16
         /\ payloadLength # 0 =>
              /\ spLength = 4 + TF007toTF016 + frameCount /\ spLength < 1200
              /\ (frameCount + 1) % UINT16 = frameCount + 1
<1>1. /\ frameCount \in Nat /\ TF007toTF016 \in {4, 6, 8} /\ payloadLength \in 0 .. 1023
      /\ embedded \in Nat /\ crcBytes \in Nat /\ crcBytes > 0 /\ frameCount < UINT16
  BY Words DEF FieldsRead, HeaderRead
<1>2. 4 + TF007toTF016 + frameCount \in Nat /\ 4 + TF007toTF016 + frameCount + 1 < UINT16 + UINT16
  BY <1>1, Modulus
<1>3. (((4 + TF007toTF016 + frameCount) % UINT16) + 1) % UINT16
        = (4 + TF007toTF016 + frameCount + 1) % UINT16
  BY <1>2, NextReduced
<1>4. 4 + TF007toTF016 + frameCount + 1 = 4 + TF007toTF016 + (frameCount + 1) BY <1>1
<1>5. ASSUME payloadLength # 0
      PROVE  /\ spLength = 4 + TF007toTF016 + frameCount /\ spLength < 1200
             /\ (frameCount + 1) % UINT16 = frameCount + 1
  <2>1. frameCount < 1023 BY <1>1, <1>5
  <2>2. /\ 4 + TF007toTF016 + frameCount < 1200 /\ 4 + TF007toTF016 + frameCount < UINT16
        /\ frameCount + 1 \in Nat /\ frameCount + 1 < UINT16
    BY <1>1, <2>1, Modulus
  <2>. QED BY <1>2, <2>2, Unreduced
<1>. QED BY <1>1, <1>3, <1>4, <1>5

\* The payload: its last byte leads to what follows it.
LEMMA PayloadInv ==
  ASSUME FrameInv, Spartn!sempSpartnReadTF016
  PROVE  FrameInv'
<1> DEFINE next == IF embedded > 0 THEN "sempSpartnReadTF017" ELSE "sempSpartnReadTF018"
<1>1. /\ spState = "sempSpartnReadTF016"
      /\ Spartn!sempSpartnReadField("sempSpartnReadTF016", payloadLength, next)
  BY DEF Spartn!sempSpartnReadTF016, Spartn!sempSpartnReadField, Spartn!In
<1>2. /\ FieldsRead /\ frameCount \in uint16_t
      /\ spLength = (4 + TF007toTF016 + frameCount) % UINT16
      /\ frameCount < payloadLength \/ payloadLength = 0
  BY <1>1 DEF FrameInv, SpartnInv
<1>3. /\ frameCount \in Nat /\ TF007toTF016 \in Nat /\ payloadLength \in Nat
      /\ embedded \in Nat /\ crcBytes \in Nat /\ crcBytes > 0
      /\ (spLength + 1) % UINT16 = (4 + TF007toTF016 + (frameCount + 1)) % UINT16
      /\ payloadLength # 0 => (frameCount + 1) % UINT16 = frameCount + 1
  BY <1>2, PayloadPlace
<1>4. (frameCount + 1) % UINT16 \in uint16_t BY <1>2, Successor
<1>5. next \in SpartnRoutines /\ "sempSpartnReadTF016" \in SpartnRoutines
  BY DEF SpartnRoutines
<1>6. /\ spLength' = (spLength + 1) % UINT16 /\ SpartnType'
      /\ spBufferLength' >= SEMP_MINIMUM_BUFFER_LENGTH /\ frame'.result = "none"
      /\ UNCHANGED <<payloadLength, EAF, crcBytes, TF007toTF016, embedded>>
      /\ \/ /\ (frameCount + 1) % UINT16 # payloadLength /\ spState' = "sempSpartnReadTF016"
            /\ frameCount' = (frameCount + 1) % UINT16
         \/ (frameCount + 1) % UINT16 = payloadLength /\ spState' = next /\ frameCount' = 0
  <2>. HIDE DEF next
  <2>. QED BY <1>1, <1>2, <1>5, FieldByte
<1>7. FieldsRead' BY <1>2, <1>6 DEF FieldsRead, HeaderRead
<1>8. spLength' = (4 + TF007toTF016' + ((frameCount + 1) % UINT16)) % UINT16
  <2>1. CASE frameCount + 1 < UINT16
    <3>1. (frameCount + 1) % UINT16 = frameCount + 1 BY <1>2, <2>1, Successor
    <3>. QED BY <1>3, <1>6, <3>1
  <2>2. CASE ~(frameCount + 1 < UINT16)
    <3>1. frameCount + 1 = UINT16 /\ (frameCount + 1) % UINT16 = 0
      BY <1>2, <1>3, <2>2, Modulus, Successor
    <3>2. TF007toTF016 \in {4, 6, 8} BY <1>2 DEF FieldsRead
    <3>3. /\ 4 + TF007toTF016 + (frameCount + 1) \in Nat
          /\ 4 + TF007toTF016 + (frameCount + 1) < UINT16 + UINT16
          /\ ~(4 + TF007toTF016 + (frameCount + 1) < UINT16)
          /\ (4 + TF007toTF016 + (frameCount + 1)) - UINT16 = 4 + TF007toTF016 + 0
      BY <1>3, <3>1, <3>2, Modulus
    <3>4. (4 + TF007toTF016 + (frameCount + 1)) % UINT16 = 4 + TF007toTF016 + 0
      <4> DEFINE read == 4 + TF007toTF016 + (frameCount + 1)
      <4>1. read \in Nat /\ read < UINT16 + UINT16 /\ ~(read < UINT16)
            /\ read - UINT16 = 4 + TF007toTF016 + 0
        BY <3>3
      <4> HIDE DEF read
      <4>2. read % UINT16 = IF read < UINT16 THEN read ELSE read - UINT16 BY <4>1, Reduced
      <4>3. read % UINT16 = 4 + TF007toTF016 + 0 BY Zenon, <4>1, <4>2
      <4>. QED BY <4>3 DEF read
    <3>5. (4 + TF007toTF016 + 0) % UINT16 = 4 + TF007toTF016 + 0
      <4>1. 4 + TF007toTF016 + 0 \in Nat /\ 4 + TF007toTF016 + 0 < UINT16 BY <3>2, Modulus
      <4>. QED BY <4>1, Unreduced
    <3>. QED BY <1>3, <1>6, <3>1, <3>4, <3>5
  <2>. QED BY <2>1, <2>2
<1>9. CASE /\ (frameCount + 1) % UINT16 # payloadLength /\ spState' = "sempSpartnReadTF016"
           /\ frameCount' = (frameCount + 1) % UINT16
  <2>1. frameCount' \in uint16_t BY <1>4, <1>9
  <2>2. spLength' = (4 + TF007toTF016' + frameCount') % UINT16 BY <1>8, <1>9
  <2>3. frameCount' < payloadLength' \/ payloadLength' = 0
    <3>1. CASE payloadLength # 0 BY <1>2, <1>3, <1>6, <1>9, <3>1
    <3>. QED BY <1>6, <3>1
  <2>4. SpartnInv' BY <1>6, <1>7, <1>9, <2>1, <2>2, <2>3 DEF SpartnInv
  <2>. QED BY <1>6, <2>4 DEF FrameInv, SpartnCheckIsLast
<1>10. CASE (frameCount + 1) % UINT16 = payloadLength /\ spState' = next /\ frameCount' = 0
  <2>1. spLength' = 4 + TF007toTF016' + payloadLength'
    <3>1. /\ 4 + TF007toTF016 + payloadLength \in Nat
          /\ 4 + TF007toTF016 + payloadLength < UINT16
      BY <1>2, Modulus DEF FieldsRead, HeaderRead
    <3>2. spLength' = (4 + TF007toTF016 + payloadLength) % UINT16 BY <1>6, <1>8, <1>10
    <3>. QED BY <1>6, <3>1, <3>2, Unreduced
  <2>2. CASE embedded > 0
    <3>1. spState' = "sempSpartnReadTF017" BY <1>10, <2>2
    <3>2. frameCount' \in 0 .. embedded' - 1 BY <1>3, <1>6, <1>10, <2>2
    <3>3. spLength' = 4 + TF007toTF016' + payloadLength' + frameCount'
      BY <1>3, <1>6, <1>10, <2>1
    <3>4. SpartnInv' BY <1>6, <1>7, <3>1, <3>2, <3>3 DEF SpartnInv
    <3>. QED BY <1>6, <3>4 DEF FrameInv, SpartnCheckIsLast
  <2>3. CASE ~(embedded > 0)
    <3>1. spState' = "sempSpartnReadTF018" /\ embedded = 0 BY <1>3, <1>10, <2>3
    <3>2. frameCount' \in 0 .. crcBytes' - 1 BY <1>3, <1>6, <1>10
    <3>3. spLength' = Spartn!numBytes' + frameCount'
      BY <1>3, <1>6, <1>10, <2>1, <3>1 DEF Spartn!numBytes
    <3>4. SpartnInv' BY <1>6, <1>7, <3>1, <3>2, <3>3 DEF SpartnInv
    <3>. QED BY <1>6, <3>4 DEF FrameInv, SpartnCheckIsLast
  <2>. QED BY <2>2, <2>3
<1>. QED BY <1>6, <1>9, <1>10

\* The embedded authentication is short.
LEMMA EmbeddedPlace ==
  ASSUME FieldsRead, frameCount \in 0 .. embedded - 1,
         spLength = 4 + TF007toTF016 + payloadLength + frameCount
  PROVE  /\ frameCount \in Nat /\ frameCount < embedded /\ frameCount \in uint16_t
         /\ (frameCount + 1) % UINT16 = frameCount + 1 /\ spLength \in Nat /\ spLength < 1200
<1>1. /\ frameCount \in 0 .. 63 /\ TF007toTF016 \in {4, 6, 8} /\ payloadLength \in 0 .. 1023
      /\ embedded \in Nat
  BY DEF FieldsRead, HeaderRead
<1>2. frameCount < UINT16 /\ frameCount + 1 \in Nat /\ frameCount + 1 < UINT16 BY <1>1, Modulus
<1>3. spLength \in Nat /\ spLength < 1200 BY <1>1
<1>. QED BY <1>1, <1>2, <1>3, Unreduced, Words

\* The embedded authentication.
LEMMA EmbeddedInv ==
  ASSUME FrameInv, Spartn!sempSpartnReadTF017
  PROVE  FrameInv'
<1>1. /\ spState = "sempSpartnReadTF017"
      /\ Spartn!sempSpartnReadField("sempSpartnReadTF017", embedded, "sempSpartnReadTF018")
  BY DEF Spartn!sempSpartnReadTF017, Spartn!sempSpartnReadField, Spartn!In
<1>2. /\ FieldsRead /\ frameCount \in 0 .. embedded - 1
      /\ spLength = 4 + TF007toTF016 + payloadLength + frameCount
  BY <1>1 DEF FrameInv, SpartnInv
<1>3. /\ TF007toTF016 \in Nat /\ payloadLength \in Nat /\ embedded \in Nat
      /\ crcBytes \in Nat /\ crcBytes > 0
  BY <1>2 DEF FieldsRead, HeaderRead
<1>4. /\ frameCount \in Nat /\ frameCount < embedded /\ frameCount \in uint16_t
      /\ (frameCount + 1) % UINT16 = frameCount + 1 /\ spLength < 1200
  BY <1>2, EmbeddedPlace
<1>5. "sempSpartnReadTF017" \in SpartnRoutines /\ "sempSpartnReadTF018" \in SpartnRoutines
  BY DEF SpartnRoutines
<1>6. /\ spLength' = spLength + 1 /\ SpartnType'
      /\ spBufferLength' >= SEMP_MINIMUM_BUFFER_LENGTH /\ frame'.result = "none"
      /\ UNCHANGED <<payloadLength, EAF, crcBytes, TF007toTF016, embedded>>
      /\ \/ /\ frameCount + 1 # embedded /\ spState' = "sempSpartnReadTF017"
            /\ frameCount' = frameCount + 1
         \/ /\ frameCount + 1 = embedded /\ spState' = "sempSpartnReadTF018"
            /\ frameCount' = 0
  BY <1>1, <1>4, <1>5, FieldByte
<1>7. FieldsRead' BY <1>2, <1>6 DEF FieldsRead, HeaderRead
<1>8. CASE /\ frameCount + 1 # embedded /\ spState' = "sempSpartnReadTF017"
           /\ frameCount' = frameCount + 1
  <2>1. frameCount' \in 0 .. embedded' - 1 BY <1>3, <1>4, <1>6, <1>8
  <2>2. spLength' = 4 + TF007toTF016' + payloadLength' + frameCount'
    BY <1>2, <1>3, <1>4, <1>6, <1>8
  <2>3. SpartnInv' BY <1>6, <1>7, <1>8, <2>1, <2>2 DEF SpartnInv
  <2>. QED BY <1>6, <2>3 DEF FrameInv, SpartnCheckIsLast
<1>9. CASE /\ frameCount + 1 = embedded /\ spState' = "sempSpartnReadTF018"
           /\ frameCount' = 0
  <2>1. frameCount' \in 0 .. crcBytes' - 1 BY <1>3, <1>6, <1>9
  <2>2. spLength' = Spartn!numBytes' + frameCount'
    BY <1>2, <1>3, <1>4, <1>6, <1>9 DEF Spartn!numBytes
  <2>3. SpartnInv' BY <1>6, <1>7, <1>9, <2>1, <2>2 DEF SpartnInv
  <2>. QED BY <1>6, <2>3 DEF FrameInv, SpartnCheckIsLast
<1>. QED BY <1>6, <1>8, <1>9

\* The CRC bytes: the last one is crcBytes behind numBytes.
LEMMA SpartnCrcInv ==
  ASSUME FrameInv, NEW valid \in BOOLEAN, Spartn!sempSpartnReadTF018(valid)
  PROVE  FrameInv'
<1>1. /\ spState = "sempSpartnReadTF018" /\ Spartn!HasRoom /\ UNCHANGED Spartn!fields
  BY DEF Spartn!sempSpartnReadTF018, Spartn!In
<1>2. /\ FieldsRead /\ frameCount \in 0 .. crcBytes - 1
      /\ spLength = Spartn!numBytes + frameCount
  BY <1>1 DEF FrameInv, SpartnInv
<1>3. /\ crcBytes \in 1 .. 4 /\ frameCount \in Nat /\ frameCount < crcBytes
      /\ Spartn!numBytes \in Nat /\ spLength < 1200
  BY <1>2 DEF FieldsRead, HeaderRead, Spartn!numBytes
<1>4. UNCHANGED <<payloadLength, EAF, crcBytes, TF007toTF016, embedded>>
  BY <1>1 DEF Spartn!fields
<1>5. FieldsRead' /\ Spartn!numBytes' = Spartn!numBytes
  BY <1>2, <1>4 DEF FieldsRead, HeaderRead, Spartn!numBytes
<1>6. frameCount + 1 \in Nat /\ frameCount + 1 < UINT16 BY <1>3, Modulus
<1>7. CASE frameCount + 1 # crcBytes /\ Spartn!Continue("sempSpartnReadTF018", frameCount + 1)
  <2>1. /\ Spartn!Go("sempSpartnReadTF018") /\ frameCount' = frameCount + 1
        /\ frame'.result = "none" /\ "sempSpartnReadTF018" \in SpartnRoutines
    BY <1>7, Unjudged DEF Spartn!Continue, SpartnRoutines
  <2>2. /\ SpartnType' /\ spState' = "sempSpartnReadTF018" /\ spLength' = spLength + 1
        /\ spBufferLength' >= SEMP_MINIMUM_BUFFER_LENGTH
    BY <1>1, <1>3, <1>6, <2>1, SpartnStored
  <2>3. frameCount' \in 0 .. crcBytes' - 1 BY <1>3, <1>4, <1>7, <2>1
  <2>4. spLength' = Spartn!numBytes' + frameCount' BY <1>2, <1>3, <1>5, <2>1, <2>2
  <2>5. SpartnInv' BY <1>5, <2>2, <2>3, <2>4 DEF SpartnInv
  <2>. QED BY <2>1, <2>2, <2>5 DEF FrameInv, SpartnCheckIsLast
<1>8. CASE /\ frameCount + 1 = crcBytes /\ Spartn!Go("sempFirstByte")
           /\ frameCount' = frameCount + 1
           /\ frame'.len = spLength'
           /\ frame'.crcAt = Spartn!numBytes /\ frame'.crcLen = crcBytes
  <2>1. "sempFirstByte" \in SpartnRoutines BY DEF SpartnRoutines
  <2>2. /\ SpartnType' /\ spState' = "sempFirstByte" /\ spLength' = spLength + 1
        /\ spBufferLength' >= SEMP_MINIMUM_BUFFER_LENGTH
    BY <1>1, <1>3, <1>6, <1>8, <2>1, SpartnStored
  <2>3. SpartnInv' BY <2>2 DEF SpartnInv
  <2>4. frame'.len = frame'.crcAt + frame'.crcLen BY <1>2, <1>3, <1>8, <2>2
  <2>. QED BY <2>2, <2>3, <2>4 DEF FrameInv, SpartnCheckIsLast
<1>. QED BY <1>7, <1>8 DEF Spartn!sempSpartnReadTF018

\* Every byte keeps the invariant of the SPARTN parser.
LEMMA SpartnByteInv == ASSUME FrameInv, Spartn!sempParseNextByte PROVE FrameInv'
<1>1. ASSUME NEW claimed \in BOOLEAN, Spartn!Restart(claimed) PROVE FrameInv'
  BY <1>1, SpartnRestartInv
<1>2. ASSUME NEW valid \in BOOLEAN, Spartn!sempSpartnReadTF018(valid) PROVE FrameInv'
  BY <1>2, SpartnCrcInv
<1>. QED BY <1>1, <1>2, HeaderBytesInv, SubtypeInv, TimeTagInv, PayloadInv, EmbeddedInv
     DEF Spartn!sempParseNextByte

-----------------------------------------------------------------------------
(* Both parsers.                                                           *)

Inv == BlockInv /\ FrameInv /\ pipe \in 0 .. length

\* sempBeginParser for both parse structures.
LEMMA InitInv == Init => Inv
<1>. SUFFICES ASSUME Init PROVE Inv OBVIOUS
<1>0. 0 \in uint16_t BY Words, Modulus
<1>1. \A n \in BufferLengths :
        Allocated(n) \in Nat /\ Allocated(n) >= 32
  BY LibBuffers DEF Allocated, SEMP_MINIMUM_BUFFER_LENGTH
<1>2. \A n : Spartn!Allocated(n) = Allocated(n)
  BY DEF Allocated, Spartn!Allocated, SEMP_MINIMUM_BUFFER_LENGTH,
         Spartn!SEMP_MINIMUM_BUFFER_LENGTH
<1>3. /\ bufferLength \in Nat /\ bufferLength >= 32
      /\ state = "sempFirstByte" /\ length = 0
  BY <1>1 DEF Init, SbfInit, sempBeginParser
<1>4. /\ spBufferLength \in Nat /\ spBufferLength >= 32
      /\ spState = "sempFirstByte" /\ spLength = 0
  BY <1>1, <1>2 DEF Init, Spartn!SpartnInit, Spartn!sempBeginParser
<1>5. BlockInv
  <2>0. invalidDataCallback \in BOOLEAN /\ sbfLength = Unset /\ bytesRemaining = Unset
    BY ZenonT(30) DEF Init, SbfInit
  <2>1. SbfType BY <1>0, <1>3, <2>0 DEF SbfType, SbfRoutines
  <2>2. SbfInv BY <1>3 DEF SbfInv, SEMP_MINIMUM_BUFFER_LENGTH
  <2>3. SbfCheckCoversBlock BY Reports DEF Init, SbfInit, SbfCheckCoversBlock
  <2>. QED BY <2>1, <2>2, <2>3 DEF BlockInv
<1>6. frameCount = Unset BY SameWords DEF Init, Spartn!SpartnInit
<1>7. FrameInv
  BY <1>4, <1>6, <1>0, Unjudged DEF Init, Spartn!SpartnInit, FrameInv, SpartnType, SpartnInv,
     SpartnCheckIsLast, SpartnRoutines, SEMP_MINIMUM_BUFFER_LENGTH
<1>. QED BY <1>3, <1>5, <1>7 DEF Init, Inv

\* The variables of one parser decide its invariant.
LEMMA SbfUntouched ==
  ASSUME BlockInv, UNCHANGED <<bufferLength, state, length, computedCRC, sbfLength,
                               bytesRemaining, out>>, invalidDataCallback' \in BOOLEAN
  PROVE  BlockInv'
BY DEF BlockInv, SbfType, SbfInv, SbfCheckCoversBlock, Endless, BlockRead

\* The same for the SPARTN parser.
LEMMA SpartnUntouched ==
  ASSUME FrameInv, UNCHANGED spVars
  PROVE  FrameInv'
<1>1. UNCHANGED <<spBufferLength, spState, spLength, frameCount, payloadLength, EAF, crcBytes,
                  TF007toTF016, embedded, frame>>
  BY DEF spVars
<1>2. SpartnType' BY <1>1 DEF FrameInv, SpartnType
<1>3. HeaderRead' = HeaderRead BY <1>1 DEF HeaderRead
<1>4. FieldsRead' = FieldsRead BY <1>1, <1>3 DEF FieldsRead
<1>5. Spartn!numBytes' = Spartn!numBytes BY <1>1 DEF Spartn!numBytes
<1>6. SpartnInv' BY <1>1, <1>3, <1>4, <1>5 DEF FrameInv, SpartnInv
<1>. QED BY <1>1, <1>2, <1>6 DEF FrameInv, SpartnCheckIsLast

\* A byte for either parser, or a call that sets the callback, keeps the invariant.
LEMMA NextInv == Inv /\ [Next]_vars => Inv'
<1>. SUFFICES ASSUME Inv, [Next]_vars PROVE Inv' OBVIOUS
<1>1. CASE SbfByte
  <2>1. BlockInv' BY <1>1, SbfByteInv DEF SbfByte, Inv
  <2>2. FrameInv' BY <1>1, SpartnUntouched DEF SbfByte, Inv
  <2>3. length' \in Nat BY <2>1, Words DEF BlockInv, SbfType
  <2>4. CASE out'.result = "invalid" /\ invalidDataCallback
    <3>1. pipe' = length' BY <1>1, <2>4, InvalidIsBuffer DEF SbfByte, Inv
    <3>. QED BY <2>1, <2>2, <2>3, <3>1 DEF Inv
  <2>5. CASE ~(out'.result = "invalid" /\ invalidDataCallback)
    <3>1. pipe' = 0 BY <1>1, <2>5 DEF SbfByte
    <3>. QED BY <2>1, <2>2, <2>3, <3>1 DEF Inv
  <2>. QED BY <2>4, <2>5
<1>2. CASE SpartnByte
  <2>1. FrameInv' BY <1>2, SpartnByteInv DEF SpartnByte, Inv
  <2>2. invalidDataCallback' \in BOOLEAN
    BY <1>2 DEF SpartnByte, sbfVars, Inv, BlockInv, SbfType
  <2>3. BlockInv' BY <1>2, <2>2, SbfUntouched DEF SpartnByte, sbfVars, Inv
  <2>4. length' = length /\ length \in Nat
    BY <1>2, Words DEF SpartnByte, sbfVars, Inv, BlockInv, SbfType
  <2>5. pipe' \in 0 .. length' BY <1>2, <2>4 DEF SpartnByte, Inv
  <2>. QED BY <2>1, <2>3, <2>5 DEF Inv
<1>3. CASE SetCallback
  <2>1. BlockInv'
    BY <1>3, SbfUntouched DEF SetCallback, sempSbfSetInvalidDataCallback, Inv
  <2>2. FrameInv' BY <1>3, SpartnUntouched DEF SetCallback, Inv
  <2>3. pipe' = pipe /\ length' = length
    BY <1>3 DEF SetCallback, sempSbfSetInvalidDataCallback
  <2>. QED BY <2>1, <2>2, <2>3 DEF Inv
<1>4. CASE UNCHANGED vars
  <2>1. FrameInv' BY <1>4, SpartnUntouched DEF vars, Inv
  <2>2. invalidDataCallback' \in BOOLEAN BY <1>4 DEF vars, sbfVars, Inv, BlockInv, SbfType
  <2>3. BlockInv' BY <1>4, <2>2, SbfUntouched DEF vars, sbfVars, Inv
  <2>. QED BY <1>4, <2>1, <2>3 DEF vars, sbfVars, Inv
<1>. QED BY <1>1, <1>2, <1>3, <1>4 DEF Next

\* The fields of both parse structures keep their types and no byte is stored past a
\* buffer, whatever the stream declares.
THEOREM LBandType == Spec => []TypeOK
<1>1. Inv => TypeOK BY DEF Inv, BlockInv, FrameInv, TypeOK
<1>. QED BY <1>1, InitInv, NextInv, PTL DEF Spec

\* The CRC that sempSbfReadBytes compares has absorbed the block behind the CRC field,
\* in buffers of any size: also when the 16-bit length has come round.
THEOREM SbfCheckCovers == Spec => []SbfCheckCoversBlock
<1>1. Inv => SbfCheckCoversBlock BY DEF Inv, BlockInv
<1>. QED BY <1>1, InitInv, NextInv, PTL DEF Spec

\* sempSpartnReadTF018 finds the CRC of every frame in its last bytes.
THEOREM SpartnCheckLast == Spec => []SpartnCheckIsLast
<1>1. Inv => SpartnCheckIsLast BY DEF Inv, FrameInv
<1>. QED BY <1>1, InitInv, NextInv, PTL DEF Spec

\* Once invalidDataCallback is set no byte is lost or handed on twice, unless a block
\* outgrows the buffer or, in one of 64 KiB and more, the 16 bits of its length.
THEOREM BytesAccounted == Spec => NoByteLost
<1>1. Inv /\ [Next]_vars =>
        [SbfByte /\ invalidDataCallback /\ (Fitting \/ Kept = 0) => Accounted]_vars
  BY ByteAccounted DEF Inv
<1>. QED BY <1>1, InitInv, NextInv, PTL DEF Spec, NoByteLost

-----------------------------------------------------------------------------
(* The SBF parser implements LengthFramer.                                 *)

\* What the mapping makes of the two reports that decide no block.
LEMMA NoVerdict ==
  ASSUME out'.declared = Unset PROVE BlockVerdict' = "none"
BY SameWords DEF BlockVerdict

\* sempFirstByte: the bytes before are of no block, or the buffer is full.
LEMMA RestartMapped ==
  ASSUME BlockInv, NEW data, Restart(data), state = "sempFirstByte" \/ ~HasRoom
  PROVE  SbfFramer!Search \/ SbfFramer!GiveUp
<1>1. /\ length' = 1 /\ state' \in {"sempFirstByte", "sempSbfPreamble2"}
      /\ out'.declared = Unset
  BY Reports DEF Restart, sempFirstByte
<1>2. BlockBytes' \in {0, 1} /\ BlockTotal' = -1 /\ BlockVerdict' = "none"
  BY <1>1, NoVerdict, SameWords DEF BlockBytes, BlockTotal, Endless
<1>3. CASE BlockTotal = -1
  BY <1>2, <1>3 DEF SbfFramer!Search, SbfFramer!Elsewhere, SbfFramer!Unknown
<1>4. CASE BlockTotal # -1
  <2>1. state = "sempSbfReadBytes" /\ ~Endless BY <1>4, SameWords DEF BlockTotal
  <2>2. BlockBytes = length /\ ~HasRoom BY <2>1 DEF BlockBytes
  <2>3. BlockBytes >= bufferLength BY <2>2, Words DEF HasRoom, BlockInv, SbfType
  <2>. QED BY <1>2, <1>4, <2>3 DEF SbfFramer!GiveUp, SbfFramer!Elsewhere, SbfFramer!Unknown
<1>. QED BY <1>3, <1>4

\* A header byte that leads on to the next.
LEMMA HeaderMapped ==
  ASSUME BlockInv, NEW routine \in SbfRoutines \ {"sempFirstByte", "sempSbfReadBytes"},
         state \notin {"sempFirstByte", "sempSbfReadBytes", "sempSbfLengthMSB"},
         Continue(routine)
  PROVE  SbfFramer!Collect
<1>1. length \in 1 .. 6 BY DEF BlockInv, SbfType, SbfInv, SbfRoutines
<1>2. BlockBytes = length /\ BlockTotal = -1
  BY SameWords DEF BlockBytes, BlockTotal, Endless
<1>3. length' = length + 1 /\ state' = routine
  <2>1. length' = (length + 1) % UINT16 /\ state' = routine BY DEF Continue, Go
  <2>. QED BY <1>1, <2>1, Modulus, Unreduced
<1>4. BlockBytes' = length + 1 /\ BlockTotal' = -1
  BY <1>3, SameWords DEF BlockBytes, BlockTotal, Endless
<1>5. BlockVerdict' = "none" BY Reports, NoVerdict DEF Continue
<1>. QED BY <1>1, <1>2, <1>4, <1>5 DEF SbfFramer!Collect, SbfFramer!Unknown

\* A header byte that shows that there is no block.
LEMMA EndMapped ==
  ASSUME state # "sempSbfReadBytes", NEW n, End(Invalid(n))
  PROVE  SbfFramer!Search
<1>1. state' = "sempFirstByte" BY DEF End, Go
<1>2. BlockTotal = -1 /\ BlockBytes' = 0 /\ BlockTotal' = -1
  BY <1>1, SameWords DEF BlockBytes, BlockTotal
<1>3. BlockVerdict' = "none" BY Reports, NoVerdict DEF End
<1>. QED BY <1>2, <1>3 DEF SbfFramer!Search, SbfFramer!Elsewhere, SbfFramer!Unknown

\* The last header byte fixes the end of the block.
LEMMA LengthMapped ==
  ASSUME BlockInv, NEW data \in SbfBytes, sempSbfLengthMSB(data)
  PROVE  SbfFramer!Search \/ SbfFramer!Learn
<1>1. /\ state = "sempSbfLengthMSB" /\ length = 7 /\ sbfLength \in uint8_t
      /\ sbfLength' = sbfLength + 256 * data /\ data \in uint8_t
  BY SbfBytesAreBytes DEF sempSbfLengthMSB, In, BlockInv, SbfInv
<1>2. sbfLength' \in uint16_t BY <1>1, TwoBytes
<1>3. BlockBytes = 7 /\ BlockTotal = -1 BY <1>1, SameWords DEF BlockBytes, BlockTotal, Endless
<1>4. CASE End(Invalid(length')) BY <1>1, <1>4, EndMapped
<1>5. CASE sbfLength' % 4 = 0 /\ Continue("sempSbfReadBytes")
  <2>1. length' = 8 /\ state' = "sempSbfReadBytes"
    <3>1. length' = 8 % UINT16 /\ state' = "sempSbfReadBytes" BY <1>1, <1>5 DEF Continue, Go
    <3>. QED BY <3>1, Modulus, Unreduced
  <2>2. BlockVerdict' = "none" BY <1>5, Reports, NoVerdict DEF Continue
  <2>3. sbfLength' \in Nat BY <1>2, Words
  <2>4. CASE sbfLength' < 12
    <3>1. BlockBytes' = 0 /\ BlockTotal' = -1
      BY <2>1, <2>4, SameWords DEF BlockBytes, BlockTotal, Endless
    <3>. QED BY <1>3, <2>2, <3>1 DEF SbfFramer!Search, SbfFramer!Elsewhere, SbfFramer!Unknown
  <2>5. CASE ~(sbfLength' < 12)
    <3>1. BlockBytes' = 8 /\ BlockTotal' = sbfLength'
      BY <2>1, <2>5 DEF BlockBytes, BlockTotal, Endless
    <3>2. sbfLength' \in BlockLengths
      <4>1. \A n \in Nat : ~(n < 12) => n >= 12 OBVIOUS
      <4>2. sbfLength' >= 12 BY <2>3, <2>5, <4>1
      <4>. QED BY <1>2, <1>5, <4>2 DEF BlockLengths
    <3>3. sbfLength' = 8 + (sbfLength' - 9) + 1
      <4>1. \A n \in Nat : n = 8 + (n - 9) + 1 OBVIOUS
      <4>. QED BY ZenonT(30), <2>3, <4>1
    <3>4. \E n \in {k - 9 : k \in BlockLengths} : BlockTotal' = 8 + n + 1
      BY <3>1, <3>2, <3>3
    <3>. QED BY <1>3, <2>2, <3>1, <3>4 DEF SbfFramer!Learn, SbfFramer!Unknown
  <2>. QED BY <2>4, <2>5
<1>. QED BY <1>4, <1>5 DEF sempSbfLengthMSB

\* A byte of the block fills it or ends it; the end of an endless one is none.
LEMMA ReadMapped ==
  ASSUME BlockInv, NEW accepted \in BOOLEAN, sempSbfReadBytes(accepted)
  PROVE  SbfFramer!Search \/ SbfFramer!Fill \/ SbfFramer!Deliver \/ SbfFramer!Refuse
<1>1. /\ state = "sempSbfReadBytes" /\ length = BlockRead % UINT16
      /\ BlockRead \in Nat /\ BlockRead' = BlockRead + 1
      /\ sbfLength' = sbfLength /\ sbfLength \in Nat /\ sbfLength < UINT16
      /\ bytesRemaining' \in Nat
      /\ ~Endless => BlockRead' + bytesRemaining' = sbfLength
  BY ReadCount, Words
<1>2. ASSUME ~Endless
      PROVE  /\ length \in Nat /\ length + 1 + bytesRemaining' = sbfLength
             /\ (length + 1) % UINT16 = length + 1
  <2>1. BlockRead + 1 + bytesRemaining' = sbfLength
    <3>1. BlockRead' + bytesRemaining' = sbfLength BY <1>1, <1>2
    <3>. QED BY <1>1, <3>1
  <2>2. BlockRead < UINT16 /\ BlockRead + 1 \in Nat /\ BlockRead + 1 < UINT16
    <3>1. \A a, b, c, u \in Nat : c < u => (a + 1 + b = c => (a < u /\ a + 1 \in Nat /\ a + 1 < u))
      OBVIOUS
    <3>2. BlockRead \in Nat /\ bytesRemaining' \in Nat /\ sbfLength \in Nat /\ UINT16 \in Nat
          /\ sbfLength < UINT16
      BY <1>1, Modulus
    <3>3. BlockRead + 1 + bytesRemaining' = sbfLength =>
            (BlockRead < UINT16 /\ BlockRead + 1 \in Nat /\ BlockRead + 1 < UINT16)
      BY Zenon, <3>1, <3>2
    <3>. QED BY Zenon, <2>1, <3>3
  <2>3. length = BlockRead BY <1>1, <2>2, Unreduced
  <2>. QED BY <1>1, <2>1, <2>2, <2>3, Unreduced
<1>3. CASE bytesRemaining' # 0 /\ Continue("sempSbfReadBytes")
  <2>1. length' = (length + 1) % UINT16 /\ state' = "sempSbfReadBytes" BY <1>3 DEF Continue, Go
  <2>2. BlockVerdict' = "none" BY <1>3, Reports, NoVerdict DEF Continue
  <2>3. Endless' = Endless BY <1>1, <2>1 DEF Endless
  <2>4. CASE Endless
    <3>1. BlockTotal = -1 /\ BlockBytes' = 0 /\ BlockTotal' = -1
      BY <2>3, <2>4, SameWords DEF BlockBytes, BlockTotal
    <3>. QED BY <2>2, <3>1 DEF SbfFramer!Search, SbfFramer!Elsewhere, SbfFramer!Unknown
  <2>5. CASE ~Endless
    <3>1. BlockTotal = sbfLength /\ BlockBytes = length BY <1>1, <2>5 DEF BlockBytes, BlockTotal
    <3>2. BlockTotal' = sbfLength /\ BlockBytes' = length + 1
      BY <1>1, <1>2, <2>1, <2>3, <2>5 DEF BlockBytes, BlockTotal
    <3>3. length + 1 < sbfLength /\ sbfLength # -1
      <4>1. \A k, r, n \in Nat : k + 1 + r = n /\ r # 0 => k + 1 < n /\ n # -1 OBVIOUS
      <4>. QED BY ZenonT(30), <1>1, <1>2, <1>3, <2>5, <4>1
    <3>. QED BY <2>2, <3>1, <3>2, <3>3 DEF SbfFramer!Fill, SbfFramer!Unknown
  <2>. QED BY <2>4, <2>5
<1>4. CASE /\ bytesRemaining' = 0 /\ Go("sempFirstByte")
           /\ out'.result = (IF accepted THEN "delivered" ELSE "invalid")
           /\ out'.declared = sbfLength
  <2>1. BlockTotal' = -1 /\ BlockBytes' = 0
    BY <1>4, SameWords DEF Go, BlockBytes, BlockTotal
  <2>2. CASE Endless
    <3>1. BlockTotal = -1 BY <2>2, SameWords DEF BlockTotal
    <3>2. BlockVerdict' = "none" BY <1>4, <2>2 DEF BlockVerdict, Endless
    <3>. QED BY <2>1, <3>1, <3>2 DEF SbfFramer!Search, SbfFramer!Elsewhere, SbfFramer!Unknown
  <2>3. CASE ~Endless
    <3>1. length + 1 = sbfLength /\ length \in Nat
      <4>1. length \in Nat /\ length + 1 + 0 = sbfLength BY <1>2, <1>4, <2>3
      <4>. QED BY <4>1
    <3>2. BlockTotal = sbfLength /\ BlockBytes = length BY <1>1, <2>3 DEF BlockBytes, BlockTotal
    <3>3. sbfLength # -1 /\ ~(sbfLength < 12) BY <1>1, <2>3 DEF Endless
    <3>4. CASE accepted
      <4>1. BlockVerdict' = "delivered" BY <1>4, <3>3, <3>4 DEF BlockVerdict
      <4>. QED BY <2>1, <3>1, <3>2, <3>3, <4>1 DEF SbfFramer!Deliver, SbfFramer!Unknown
    <3>5. CASE ~accepted
      <4>1. BlockVerdict' = "refused" BY <1>4, <3>3, <3>5 DEF BlockVerdict
      <4>2. length + 1 > sbfLength - 1 /\ length + 1 <= sbfLength BY <1>1, <3>1
      <4>. QED BY <2>1, <3>2, <3>3, <4>1, <4>2 DEF SbfFramer!Refuse, SbfFramer!Unknown
    <3>. QED BY <3>4, <3>5
  <2>. QED BY <2>2, <2>3
<1>. QED BY <1>3, <1>4 DEF sempSbfReadBytes, End

\* Every byte of the SBF parser is a step of the framer.
LEMMA SbfByteMapped ==
  ASSUME BlockInv, sempParseNextByte
  PROVE  SbfFramer!Byte /\ bufferLength' = bufferLength
<1>1. ASSUME NEW data \in SbfBytes, BufferFull(data) \/ (In("sempFirstByte") /\ Restart(data))
      PROVE  SbfFramer!Byte
  BY <1>1, RestartMapped DEF BufferFull, In, SbfFramer!Byte
<1>2. ASSUME NEW data, sempSbfPreamble2(data) PROVE SbfFramer!Byte
  <2>1. state = "sempSbfPreamble2" BY <1>2 DEF sempSbfPreamble2, In
  <2>2. CASE Continue("sempSbfCRC1")
    BY <2>1, <2>2, HeaderMapped DEF SbfRoutines, SbfFramer!Byte
  <2>3. CASE End(Invalid(length')) BY <2>1, <2>3, EndMapped DEF SbfFramer!Byte
  <2>. QED BY <1>2, <2>2, <2>3 DEF sempSbfPreamble2
<1>3. ASSUME \/ sempSbfCRC1 \/ sempSbfCRC2
             \/ sempSbfID("sempSbfID1", "sempSbfID2")
             \/ sempSbfID("sempSbfID2", "sempSbfLengthLSB")
             \/ \E data : sempSbfLengthLSB(data)
      PROVE  SbfFramer!Byte
  <2>1. PICK routine \in {"sempSbfCRC2", "sempSbfID1", "sempSbfID2", "sempSbfLengthLSB",
                         "sempSbfLengthMSB"} : Continue(routine)
    BY <1>3 DEF sempSbfCRC1, sempSbfCRC2, sempSbfID, sempSbfLengthLSB
  <2>2. state \notin {"sempFirstByte", "sempSbfReadBytes", "sempSbfLengthMSB"}
    BY <1>3 DEF sempSbfCRC1, sempSbfCRC2, sempSbfID, sempSbfLengthLSB, In
  <2>. QED BY <2>1, <2>2, HeaderMapped DEF SbfRoutines, SbfFramer!Byte
<1>4. ASSUME NEW data \in SbfBytes, sempSbfLengthMSB(data) PROVE SbfFramer!Byte
  BY <1>4, LengthMapped DEF SbfFramer!Byte
<1>5. ASSUME NEW accepted \in BOOLEAN, sempSbfReadBytes(accepted) PROVE SbfFramer!Byte
  BY <1>5, ReadMapped DEF SbfFramer!Byte
<1>6. SbfFramer!Byte
  BY <1>1, <1>2, <1>3, <1>4, <1>5 DEF sempParseNextByte
<1>7. bufferLength' = bufferLength
  BY DEF sempParseNextByte, BufferFull, Restart, sempFirstByte, sempSbfPreamble2, sempSbfCRC1,
     sempSbfCRC2, sempSbfID, sempSbfLengthLSB, sempSbfLengthMSB, sempSbfReadBytes, Continue,
     End, Go
<1>. QED BY <1>6, <1>7

\* The SBF parser implements LengthFramer for every buffer length, also one that the
\* 16-bit length cannot count, and every stream: blocks that declare more than their
\* header are judged where it says, and nowhere else.
THEOREM SbfImplementsFramer == Spec => FramesSbf
<1>1. Init => SbfFramer!Init
  <2>. SUFFICES ASSUME Init PROVE SbfFramer!Init OBVIOUS
  <2>1. bufferLength \in Nat BY InitInv, Words DEF Inv, BlockInv, SbfType
  <2>2. state = "sempFirstByte" /\ out = Undecided BY DEF Init, SbfInit, sempBeginParser
  <2>3. BlockBytes = 0 /\ BlockTotal = -1 /\ BlockVerdict = "none"
    BY <2>2, Reports, SameWords DEF BlockBytes, BlockTotal, BlockVerdict
  <2>. QED BY <2>1, <2>3 DEF SbfFramer!Init, SbfFramer!Unknown
<1>2. Inv /\ [Next]_vars => [SbfFramer!Next]_(SbfFramer!vars)
  <2>. SUFFICES ASSUME Inv, [Next]_vars PROVE [SbfFramer!Next]_(SbfFramer!vars) OBVIOUS
  <2>1. CASE SbfByte BY <2>1, SbfByteMapped DEF SbfByte, Inv, SbfFramer!Next
  <2>2. CASE UNCHANGED <<bufferLength, state, length, sbfLength, out>>
    BY <2>2 DEF SbfFramer!vars, BlockBytes, BlockTotal, BlockVerdict, Endless
  <2>. QED BY <2>1, <2>2
       DEF Next, SpartnByte, SetCallback, sempSbfSetInvalidDataCallback, vars, sbfVars
<1>. QED BY <1>1, <1>2, InitInv, NextInv, PTL DEF Spec, FramesSbf, SbfFramer!Spec


-----------------------------------------------------------------------------
(* The SPARTN parser implements LengthFramer.                              *)

\* A byte that judges no frame is none to the framer either.
LEMMA NoFrameVerdict == ASSUME frame'.result = "none" PROVE FrameVerdict' = "none"
BY DEF FrameVerdict

\* The routines before the payload: the end of the frame is not known.
BeforePayload == {"sempSpartnReadTF002TF006", "sempSpartnReadTF007", "sempSpartnReadTF009"}

\* What the mapping makes of them.
LEMMA InFrameHeader ==
  /\ spState \in BeforePayload => FrameBytes = spLength /\ FrameTotal = -1
  /\ spState = "sempFirstByte" => FrameBytes = 0 /\ FrameTotal = -1
  /\ NoPayload => FrameBytes = 0 /\ FrameTotal = -1
BY SameWords DEF BeforePayload, FrameBytes, FrameTotal, NoPayload, PayloadOn

\* The same after the step.
LEMMA InFrameHeaderNext ==
  /\ spState' \in BeforePayload => FrameBytes' = spLength' /\ FrameTotal' = -1
  /\ spState' = "sempFirstByte" => FrameBytes' = 0 /\ FrameTotal' = -1
  /\ NoPayload' => FrameBytes' = 0 /\ FrameTotal' = -1
BY SameWords DEF BeforePayload, FrameBytes, FrameTotal, NoPayload, PayloadOn

\* sempFirstByte: the bytes before are of no frame, or the buffer is full.
LEMMA FrameRestartMapped ==
  ASSUME FrameInv, NEW claimed \in BOOLEAN, Spartn!Restart(claimed),
         spState = "sempFirstByte" \/ ~Spartn!HasRoom
  PROVE  SpartnFramer!Search \/ SpartnFramer!GiveUp
<1>1. /\ spLength' = 1 /\ spState' \in {"sempFirstByte", "sempSpartnReadTF002TF006"}
      /\ frame'.result = "none"
  BY Unjudged DEF Spartn!Restart, Spartn!sempFirstByte
<1>2. FrameBytes' \in {0, 1} /\ FrameTotal' = -1 /\ FrameVerdict' = "none"
  BY <1>1, NoFrameVerdict, InFrameHeaderNext DEF BeforePayload
<1>3. CASE FrameTotal = -1
  BY <1>2, <1>3 DEF SpartnFramer!Search, SpartnFramer!Elsewhere, SpartnFramer!Unknown
<1>4. CASE FrameTotal # -1
  <2>1. spState # "sempFirstByte" /\ ~NoPayload BY <1>4, InFrameHeader
  <2>2. FrameBytes = spLength /\ ~Spartn!HasRoom BY <2>1 DEF FrameBytes
  <2>3. FrameBytes >= spBufferLength BY <2>2, Words DEF Spartn!HasRoom, FrameInv, SpartnType
  <2>. QED BY <1>2, <1>4, <2>3
       DEF SpartnFramer!GiveUp, SpartnFramer!Elsewhere, SpartnFramer!Unknown
<1>. QED BY <1>3, <1>4

\* A byte of the header that leads on within it.
LEMMA FrameCollects ==
  ASSUME spState \in BeforePayload, spState' \in BeforePayload, frame'.result = "none",
         spLength \in 1 .. 10, spLength' = spLength + 1
  PROVE  SpartnFramer!Collect
<1>1. FrameBytes = spLength /\ FrameTotal = -1 BY InFrameHeader
<1>2. FrameBytes' = spLength + 1 /\ FrameTotal' = -1 BY InFrameHeaderNext
<1>3. FrameVerdict' = "none" BY NoFrameVerdict
<1>4. spLength > 0 /\ \E size \in {8, 10, 12} : spLength + 1 < size OBVIOUS
<1>. QED BY <1>1, <1>2, <1>3, <1>4 DEF SpartnFramer!Collect, SpartnFramer!Unknown

\* Storing one of the bytes of a frame that has an end.
LEMMA SpartnGoes ==
  ASSUME NEW routine, Spartn!Go(routine), spLength \in Nat, spLength < 1200
  PROVE  spState' = routine /\ spLength' = spLength + 1
<1>1. spLength + 1 \in Nat /\ spLength + 1 < UINT16 BY Modulus
<1>. QED BY <1>1, Unreduced, SameWords DEF Spartn!Go

\* A byte that ends the search for a frame, or the following of one without payload.
LEMMA FrameSearches ==
  ASSUME FrameTotal = -1, FrameBytes' = 0, FrameTotal' = -1, FrameVerdict' = "none"
  PROVE  SpartnFramer!Search
BY DEF SpartnFramer!Search, SpartnFramer!Elsewhere, SpartnFramer!Unknown

\* The frame header: its last byte shows whether it is one.
LEMMA HeaderBytesMapped ==
  ASSUME FrameInv, Spartn!sempSpartnReadTF002TF006
  PROVE  SpartnFramer!Search \/ SpartnFramer!Collect
<1>1. /\ spState = "sempSpartnReadTF002TF006" /\ frameCount \in 0 .. 2
      /\ spLength = 1 + frameCount
  BY DEF Spartn!sempSpartnReadTF002TF006, Spartn!In, FrameInv, SpartnInv
<1>2. spState \in BeforePayload /\ spLength \in 1 .. 10 BY <1>1 DEF BeforePayload
<1>3. ASSUME NEW routine \in BeforePayload, NEW n, Spartn!Continue(routine, n)
      PROVE  SpartnFramer!Collect
  <2>1. spState' = routine /\ spLength' = spLength + 1 /\ frame'.result = "none"
    BY <1>2, <1>3, SpartnGoes, Unjudged DEF Spartn!Continue
  <2>. QED BY <1>2, <2>1, FrameCollects
<1>4. ASSUME NEW n, Spartn!Continue("sempFirstByte", n)
      PROVE  SpartnFramer!Search
  <2>1. spState' = "sempFirstByte" /\ frame'.result = "none"
    BY <1>4, Unjudged DEF Spartn!Continue, Spartn!Go
  <2>. QED BY <1>2, <2>1, InFrameHeader, InFrameHeaderNext, NoFrameVerdict, FrameSearches
<1>. QED BY <1>3, <1>4 DEF Spartn!sempSpartnReadTF002TF006, BeforePayload

\* The first byte behind it.
LEMMA SubtypeMapped ==
  ASSUME FrameInv, Spartn!sempSpartnReadTF007
  PROVE  SpartnFramer!Collect
<1>1. spState = "sempSpartnReadTF007" /\ spLength = 4
  BY DEF Spartn!sempSpartnReadTF007, Spartn!In, FrameInv, SpartnInv
<1>2. spState' = "sempSpartnReadTF009" /\ spLength' = spLength + 1 /\ frame'.result = "none"
  BY <1>1, SpartnGoes, Unjudged DEF Spartn!sempSpartnReadTF007, Spartn!Continue
<1>. QED BY <1>1, <1>2, FrameCollects DEF BeforePayload

\* The last byte before the payload fixes the end of the frame.
LEMMA TimeTagMapped ==
  ASSUME FrameInv, Spartn!sempSpartnReadTF009
  PROVE  SpartnFramer!Search \/ SpartnFramer!Collect \/ SpartnFramer!Learn
<1>1. /\ spState = "sempSpartnReadTF009" /\ HeaderRead /\ TF007toTF016 \in {4, 6, 8}
      /\ frameCount \in 1 .. TF007toTF016 - 1 /\ spLength = 4 + frameCount
  BY DEF Spartn!sempSpartnReadTF009, Spartn!In, FrameInv, SpartnInv
<1>2. spState \in BeforePayload /\ spLength \in Nat /\ spLength < 1200 BY <1>1 DEF BeforePayload
<1>3. CASE /\ frameCount + 1 # TF007toTF016
           /\ Spartn!Continue("sempSpartnReadTF009", frameCount + 1)
  <2>1. /\ spState' = "sempSpartnReadTF009" /\ spLength' = spLength + 1
        /\ frame'.result = "none"
    BY <1>2, <1>3, SpartnGoes, Unjudged DEF Spartn!Continue
  <2>2. spLength \in 1 .. 10 BY <1>1, <1>3
  <2>3. spState' \in BeforePayload BY <2>1 DEF BeforePayload
  <2>. QED BY <1>2, <2>1, <2>2, <2>3, FrameCollects
<1>4. CASE /\ frameCount + 1 = TF007toTF016
           /\ embedded' \in (IF EAF = 0 THEN {0} ELSE {0, 8, 12, 16, 32, 64})
           /\ Spartn!Continue("sempSpartnReadTF016", 0)
  <2>1. /\ spState' = "sempSpartnReadTF016" /\ spLength' = spLength + 1
        /\ frame'.result = "none"
    BY <1>2, <1>4, SpartnGoes, Unjudged DEF Spartn!Continue
  <2>2. /\ TF007toTF016' = TF007toTF016 /\ payloadLength' = payloadLength
        /\ crcBytes' = crcBytes
    BY DEF Spartn!sempSpartnReadTF009
  <2>3. embedded' \in 0 .. 64 /\ payloadLength \in 0 .. 1023 /\ crcBytes \in 1 .. 4
    BY <1>1, <1>4 DEF HeaderRead
  <2>4. spLength + 1 = 4 + TF007toTF016 /\ spLength + 1 \in {8, 10, 12} BY <1>1, <1>4
  <2>5. FrameBytes = spLength /\ FrameTotal = -1 BY <1>2, InFrameHeader
  <2>6. CASE payloadLength = 0
    <3>1. NoPayload' BY <2>1, <2>2, <2>6 DEF NoPayload, PayloadOn
    <3>. QED BY <2>1, <2>5, <3>1, InFrameHeaderNext, NoFrameVerdict, FrameSearches
  <2>7. CASE payloadLength # 0
    <3>1. ~NoPayload' BY <2>2, <2>7 DEF NoPayload
    <3>2. FrameBytes' = spLength + 1 BY <2>1, <3>1 DEF FrameBytes
    <3>3. FrameTotal' = 4 + TF007toTF016 + payloadLength + embedded' + crcBytes
      BY <2>1, <2>2, <3>1 DEF FrameTotal, PayloadOn, Spartn!numBytes
    <3>4. PICK e \in 0 .. 64 : e = embedded' BY <2>3
    <3>5. payloadLength \in 1 .. 1023 BY <2>3, <2>7
    <3>6. \E n \in 1 .. 1023 + 64 + 3 : FrameTotal' = FrameBytes' + n + 1
      <4>1. payloadLength + e + crcBytes - 1 \in 1 .. 1023 + 64 + 3 BY <2>3, <3>5
      <4>2. 4 + TF007toTF016 + payloadLength + e + crcBytes
              = 4 + TF007toTF016 + (payloadLength + e + crcBytes - 1) + 1
        BY <1>1, <2>3, <3>5
      <4>3. FrameTotal' = FrameBytes' + (payloadLength + e + crcBytes - 1) + 1
        BY <2>4, <3>2, <3>3, <3>4, <4>2
      <4>. QED BY <4>1, <4>3
    <3>7. FrameVerdict' = "none" BY <2>1, NoFrameVerdict
    <3>. QED BY <2>4, <2>5, <3>2, <3>6, <3>7 DEF SpartnFramer!Learn, SpartnFramer!Unknown
  <2>. QED BY <2>6, <2>7
<1>. QED BY <1>3, <1>4 DEF Spartn!sempSpartnReadTF009


\* A byte that leads on within a frame whose end is known.
LEMMA FrameFills ==
  ASSUME spState \in PayloadOn, ~NoPayload, spState' \in PayloadOn, ~NoPayload',
         frame'.result = "none", spLength' = spLength + 1, FieldsRead,
         UNCHANGED <<payloadLength, crcBytes, TF007toTF016, embedded>>,
         spLength \in Nat, spLength + 1 < Spartn!numBytes + crcBytes
  PROVE  SpartnFramer!Fill
<1>1. FrameBytes = spLength /\ FrameTotal = Spartn!numBytes + crcBytes
  BY DEF PayloadOn, FrameBytes, FrameTotal
<1>2. Spartn!numBytes' = Spartn!numBytes BY DEF Spartn!numBytes
<1>3. FrameBytes' = spLength + 1 /\ FrameTotal' = Spartn!numBytes + crcBytes
  BY <1>2 DEF PayloadOn, FrameBytes, FrameTotal
<1>4. Spartn!numBytes + crcBytes \in Nat BY DEF FieldsRead, HeaderRead, Spartn!numBytes
<1>5. Spartn!numBytes + crcBytes # -1 BY <1>4
<1>6. FrameVerdict' = "none" BY NoFrameVerdict
<1>. QED BY <1>1, <1>3, <1>5, <1>6 DEF SpartnFramer!Fill, SpartnFramer!Unknown

\* A byte of a frame without payload, wherever in it.
LEMMA NoPayloadSearches ==
  ASSUME spState \in PayloadOn, payloadLength = 0, payloadLength' = 0,
         spState' \in PayloadOn \cup {"sempFirstByte"}
  PROVE  SpartnFramer!Search
<1>1. FrameTotal = -1 BY InFrameHeader DEF NoPayload
<1>2. FrameBytes' = 0 /\ FrameTotal' = -1 BY InFrameHeaderNext DEF NoPayload
<1>3. FrameVerdict' = "none" BY DEF FrameVerdict
<1>. QED BY <1>1, <1>2, <1>3, FrameSearches

\* A byte of the payload.
LEMMA PayloadMapped ==
  ASSUME FrameInv, Spartn!sempSpartnReadTF016
  PROVE  SpartnFramer!Search \/ SpartnFramer!Fill
<1> DEFINE next == IF embedded > 0 THEN "sempSpartnReadTF017" ELSE "sempSpartnReadTF018"
<1>1. /\ spState = "sempSpartnReadTF016"
      /\ Spartn!sempSpartnReadField("sempSpartnReadTF016", payloadLength, next)
  BY DEF Spartn!sempSpartnReadTF016, Spartn!sempSpartnReadField, Spartn!In
<1>2. /\ FieldsRead /\ frameCount \in uint16_t
      /\ spLength = (4 + TF007toTF016 + frameCount) % UINT16
      /\ frameCount < payloadLength \/ payloadLength = 0
  BY <1>1 DEF FrameInv, SpartnInv
<1>3. next \in SpartnRoutines /\ next \in PayloadOn
      /\ "sempSpartnReadTF016" \in SpartnRoutines /\ "sempSpartnReadTF016" \in PayloadOn
  BY DEF SpartnRoutines, PayloadOn
<1> HIDE DEF next
<1>4. /\ spLength \in Nat /\ spLength < 1200 => spLength' = spLength + 1
      /\ frame'.result = "none"
      /\ UNCHANGED <<payloadLength, EAF, crcBytes, TF007toTF016, embedded>>
      /\ spState' \in {"sempSpartnReadTF016", next}
  BY <1>1, <1>2, <1>3, FieldByte
<1>5. spState \in PayloadOn /\ spState' \in PayloadOn BY <1>1, <1>3, <1>4
<1>6. CASE payloadLength = 0 BY <1>4, <1>5, <1>6, NoPayloadSearches
<1>7. CASE payloadLength # 0
  <2>1. ~NoPayload /\ ~NoPayload' BY <1>4, <1>7 DEF NoPayload
  <2>2. /\ frameCount \in Nat /\ TF007toTF016 \in Nat /\ payloadLength \in Nat
        /\ embedded \in Nat /\ crcBytes \in Nat /\ crcBytes > 0
        /\ spLength = 4 + TF007toTF016 + frameCount /\ spLength < 1200 /\ spLength \in Nat
    <3>1. spLength = 4 + TF007toTF016 + frameCount /\ frameCount \in Nat /\ TF007toTF016 \in Nat
      BY <1>2, <1>7, PayloadPlace
    <3>. QED BY <1>2, <1>7, <3>1, PayloadPlace
  <2>3. spLength + 1 < Spartn!numBytes + crcBytes
    <3>1. frameCount < payloadLength BY <1>2, <1>7
    <3>. QED BY <2>2, <3>1 DEF Spartn!numBytes
  <2>4. spLength' = spLength + 1 BY <1>4, <2>2
  <2>. QED BY <1>2, <1>4, <1>5, <2>1, <2>2, <2>3, <2>4, FrameFills
<1>. QED BY <1>6, <1>7

\* A byte of the embedded authentication.
LEMMA EmbeddedMapped ==
  ASSUME FrameInv, Spartn!sempSpartnReadTF017
  PROVE  SpartnFramer!Search \/ SpartnFramer!Fill
<1>1. /\ spState = "sempSpartnReadTF017"
      /\ Spartn!sempSpartnReadField("sempSpartnReadTF017", embedded, "sempSpartnReadTF018")
  BY DEF Spartn!sempSpartnReadTF017, Spartn!sempSpartnReadField, Spartn!In
<1>2. /\ FieldsRead /\ frameCount \in 0 .. embedded - 1
      /\ spLength = 4 + TF007toTF016 + payloadLength + frameCount
  BY <1>1 DEF FrameInv, SpartnInv
<1>3. /\ TF007toTF016 \in Nat /\ payloadLength \in Nat /\ embedded \in Nat
      /\ crcBytes \in Nat /\ crcBytes > 0
  BY <1>2 DEF FieldsRead, HeaderRead
<1>4. /\ frameCount \in Nat /\ frameCount < embedded /\ frameCount \in uint16_t
      /\ spLength \in Nat /\ spLength < 1200
  BY <1>2, EmbeddedPlace
<1>5. "sempSpartnReadTF017" \in SpartnRoutines /\ "sempSpartnReadTF018" \in SpartnRoutines
  BY DEF SpartnRoutines
<1>6. /\ spLength' = spLength + 1 /\ frame'.result = "none"
      /\ UNCHANGED <<payloadLength, EAF, crcBytes, TF007toTF016, embedded>>
      /\ spState' \in {"sempSpartnReadTF017", "sempSpartnReadTF018"}
  BY <1>1, <1>4, <1>5, FieldByte
<1>7. spState \in PayloadOn /\ spState' \in PayloadOn BY <1>1, <1>6 DEF PayloadOn
<1>8. CASE payloadLength = 0 BY <1>6, <1>7, <1>8, NoPayloadSearches
<1>9. CASE payloadLength # 0
  <2>1. ~NoPayload /\ ~NoPayload' BY <1>6, <1>9 DEF NoPayload
  <2>2. spLength + 1 < Spartn!numBytes + crcBytes BY <1>2, <1>3, <1>4 DEF Spartn!numBytes
  <2>. QED BY <1>2, <1>4, <1>6, <1>7, <2>1, <2>2, FrameFills
<1>. QED BY <1>8, <1>9

\* A CRC byte: the last one judges the frame.
LEMMA SpartnCrcMapped ==
  ASSUME FrameInv, NEW valid \in BOOLEAN, Spartn!sempSpartnReadTF018(valid)
  PROVE  SpartnFramer!Search \/ SpartnFramer!Fill \/ SpartnFramer!Deliver \/ SpartnFramer!Refuse
<1>1. spState = "sempSpartnReadTF018" /\ UNCHANGED Spartn!fields
  BY DEF Spartn!sempSpartnReadTF018, Spartn!In
<1>2. /\ FieldsRead /\ frameCount \in 0 .. crcBytes - 1
      /\ spLength = Spartn!numBytes + frameCount
  BY <1>1 DEF FrameInv, SpartnInv
<1>3. /\ crcBytes \in 1 .. 4 /\ frameCount \in Nat /\ frameCount < crcBytes
      /\ Spartn!numBytes \in Nat /\ spLength \in Nat /\ spLength < 1200
  BY <1>2 DEF FieldsRead, HeaderRead, Spartn!numBytes
<1>4. UNCHANGED <<payloadLength, EAF, crcBytes, TF007toTF016, embedded>>
  BY <1>1 DEF Spartn!fields
<1>5. spState \in PayloadOn BY <1>1 DEF PayloadOn
<1>6. CASE frameCount + 1 # crcBytes /\ Spartn!Continue("sempSpartnReadTF018", frameCount + 1)
  <2>1. /\ spState' = "sempSpartnReadTF018" /\ spLength' = spLength + 1
        /\ frame'.result = "none"
    BY <1>3, <1>6, SpartnGoes, Unjudged DEF Spartn!Continue
  <2>2. spState' \in PayloadOn BY <2>1 DEF PayloadOn
  <2>3. CASE payloadLength = 0 BY <1>4, <1>5, <2>2, <2>3, NoPayloadSearches
  <2>4. CASE payloadLength # 0
    <3>1. ~NoPayload /\ ~NoPayload' BY <1>4, <2>4 DEF NoPayload
    <3>2. spLength + 1 < Spartn!numBytes + crcBytes BY <1>2, <1>3, <1>6
    <3>. QED BY <1>2, <1>3, <1>4, <1>5, <2>1, <2>2, <3>1, <3>2, FrameFills
  <2>. QED BY <2>3, <2>4
<1>7. CASE /\ frameCount + 1 = crcBytes /\ Spartn!Go("sempFirstByte")
           /\ frame'.result = (IF valid THEN "delivered" ELSE "badCrc")
  <2>1. spState' = "sempFirstByte" BY <1>3, <1>7, SpartnGoes
  <2>2. CASE payloadLength = 0 BY <1>4, <1>5, <2>1, <2>2, NoPayloadSearches
  <2>3. CASE payloadLength # 0
    <3>1. FrameBytes = spLength /\ FrameTotal = Spartn!numBytes + crcBytes
      BY <1>1, <1>5, <2>3 DEF FrameBytes, FrameTotal, NoPayload
    <3>2. FrameBytes' = 0 /\ FrameTotal' = -1 BY <2>1, InFrameHeaderNext
    <3>3. /\ spLength + 1 = Spartn!numBytes + crcBytes
          /\ Spartn!numBytes + crcBytes # -1
          /\ spLength + 1 > Spartn!numBytes + crcBytes - 1
          /\ spLength + 1 <= Spartn!numBytes + crcBytes
      BY <1>2, <1>3, <1>7
    <3>4. CASE valid
      <4>1. FrameVerdict' = "delivered" BY <1>4, <1>7, <2>3, <3>4 DEF FrameVerdict
      <4>. QED BY <3>1, <3>2, <3>3, <4>1 DEF SpartnFramer!Deliver, SpartnFramer!Unknown
    <3>5. CASE ~valid
      <4>1. FrameVerdict' = "refused" BY <1>4, <1>7, <2>3, <3>5 DEF FrameVerdict
      <4>. QED BY <3>1, <3>2, <3>3, <4>1 DEF SpartnFramer!Refuse, SpartnFramer!Unknown
    <3>. QED BY <3>4, <3>5
  <2>. QED BY <2>2, <2>3
<1>. QED BY <1>6, <1>7 DEF Spartn!sempSpartnReadTF018

\* Every byte of the SPARTN parser is a step of the framer.
LEMMA SpartnByteMapped ==
  ASSUME FrameInv, Spartn!sempParseNextByte
  PROVE  SpartnFramer!Byte /\ spBufferLength' = spBufferLength
<1>1. ASSUME NEW claimed \in BOOLEAN, Spartn!Restart(claimed),
             ~Spartn!HasRoom \/ Spartn!In("sempFirstByte")
      PROVE  SpartnFramer!Byte
  BY <1>1, FrameRestartMapped DEF Spartn!In, SpartnFramer!Byte
<1>2. ASSUME NEW valid \in BOOLEAN, Spartn!sempSpartnReadTF018(valid) PROVE SpartnFramer!Byte
  BY <1>2, SpartnCrcMapped DEF SpartnFramer!Byte
<1>3. ASSUME Spartn!sempSpartnReadTF002TF006 PROVE SpartnFramer!Byte BY <1>3, HeaderBytesMapped DEF SpartnFramer!Byte
<1>4. ASSUME Spartn!sempSpartnReadTF007 PROVE SpartnFramer!Byte BY <1>4, SubtypeMapped DEF SpartnFramer!Byte
<1>5. ASSUME Spartn!sempSpartnReadTF009 PROVE SpartnFramer!Byte BY <1>5, TimeTagMapped DEF SpartnFramer!Byte
<1>6. ASSUME Spartn!sempSpartnReadTF016 PROVE SpartnFramer!Byte BY <1>6, PayloadMapped DEF SpartnFramer!Byte
<1>7. ASSUME Spartn!sempSpartnReadTF017 PROVE SpartnFramer!Byte BY <1>7, EmbeddedMapped DEF SpartnFramer!Byte
<1>8. SpartnFramer!Byte
  BY <1>1, <1>2, <1>3, <1>4, <1>5, <1>6, <1>7 DEF Spartn!sempParseNextByte
<1>9. spBufferLength' = spBufferLength
  BY DEF Spartn!sempParseNextByte, Spartn!Restart, Spartn!sempFirstByte,
     Spartn!sempSpartnReadTF002TF006, Spartn!sempSpartnReadTF007, Spartn!sempSpartnReadTF009,
     Spartn!sempSpartnReadTF016, Spartn!sempSpartnReadTF017, Spartn!sempSpartnReadField,
     Spartn!sempSpartnReadTF018, Spartn!Continue, Spartn!Go
<1>. QED BY <1>8, <1>9

\* The SPARTN parser implements LengthFramer for every buffer, every header and whatever
\* the SBF parser hands on: a frame with a payload is judged once, at the byte where its
\* header, time tag and authentication fields put its end.
THEOREM SpartnImplementsFramer == Spec => FramesSpartn
<1>1. Init => SpartnFramer!Init
  <2>. SUFFICES ASSUME Init PROVE SpartnFramer!Init OBVIOUS
  <2>1. spBufferLength \in Nat BY InitInv, Words DEF Inv, FrameInv, SpartnType
  <2>2. spState = "sempFirstByte" /\ frame.result = "none"
    BY Unjudged DEF Init, Spartn!SpartnInit, Spartn!sempBeginParser
  <2>3. FrameBytes = 0 /\ FrameTotal = -1 BY <2>2, InFrameHeader
  <2>4. FrameVerdict = "none" BY <2>2 DEF FrameVerdict
  <2>. QED BY <2>1, <2>3, <2>4 DEF SpartnFramer!Init, SpartnFramer!Unknown
<1>2. Inv /\ [Next]_vars => [SpartnFramer!Next]_(SpartnFramer!vars)
  <2>. SUFFICES ASSUME Inv, [Next]_vars PROVE [SpartnFramer!Next]_(SpartnFramer!vars) OBVIOUS
  <2>1. CASE SpartnByte BY <2>1, SpartnByteMapped DEF SpartnByte, Inv, SpartnFramer!Next
  <2>2. CASE UNCHANGED spVars
    <3>1. UNCHANGED <<spBufferLength, spState, spLength, payloadLength, crcBytes,
                      TF007toTF016, embedded, frame>>
      BY <2>2 DEF spVars
    <3>. QED BY <3>1
         DEF SpartnFramer!vars, FrameBytes, FrameTotal, FrameVerdict, NoPayload, PayloadOn, Spartn!numBytes
  <2>. QED BY <2>1, <2>2 DEF Next, SbfByte, SetCallback, vars
<1>. QED BY <1>1, <1>2, InitInv, NextInv, PTL DEF Spec, FramesSpartn, SpartnFramer!Spec

=============================================================================
