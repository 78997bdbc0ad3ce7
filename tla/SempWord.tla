------------------------------- MODULE SempWord -------------------------------
(***************************************************************************)
(* What the parsers of the repository share: machine words, the symbolic   *)
(* check register, and the characters of the line protocols.               *)
(*                                                                         *)
(* A check register is its seed, how many bytes of the frame it has        *)
(* absorbed, and how many it had absorbed when it was complemented.  Which *)
(* bytes a check covers is what the properties tell apart; the tables      *)
(* themselves are data.                                                    *)
(***************************************************************************)
EXTENDS Integers

UINT8 == 256
UINT16 == 65536
uint8_t == 0 .. UINT8 - 1
uint16_t == 0 .. UINT16 - 1

\* A value the current frame has not written.
Unset == -1

\* Mutant: the counter is a signed integer.
DecrementSigned(n, modulus) == n - 1

\* Decrement of an unsigned counter of the given modulus.
Decrement(n, modulus) == (n - 1) % modulus

-----------------------------------------------------------------------------
CrcZero == [seed |-> "zeros", cover |-> 0, inverted |-> 0]
CrcOnes == [CrcZero EXCEPT !.seed = "ones"]

\* The register after one more byte of the frame.
Absorb(c) == [c EXCEPT !.cover = @ + 1]

\* Mutant: the complement before the CRC bytes is forgotten.
ComplementDropped(c) == c

\* parse->crc ^= 0xFFFFFFFF, remembering how many bytes were covered by then.
Complement(c) == [c EXCEPT !.inverted = c.cover]

CheckRegisters ==
  [seed : {"zeros", "ones", "undefined"}, cover : Nat, inverted : Nat]

-----------------------------------------------------------------------------
LF == 10
CR == 13
Asterisk == 42
Comma == 44

\* sizeof(sentenceName), the same in both scratch areas.
SEMP_SENTENCE_NAME_BYTES == 16

\* data | 0x20 and data & ~0x20
SetBit5(data)   == IF (data \div 32) % 2 = 1 THEN data ELSE data + 32
ClearBit5(data) == IF (data \div 32) % 2 = 1 THEN data - 32 ELSE data

\* A letter or a digit.
IsNameCharacter(data) == ClearBit5(data) \in 65 .. 90 \/ data \in 48 .. 57

semp_util_asciiToNibble(data) ==
  LET lower == SetBit5(data) IN
  CASE lower \in 97 .. 102 -> lower - 97 + 10
    [] lower \in 48 .. 57  -> lower - 48
    [] OTHER               -> -1

=============================================================================
