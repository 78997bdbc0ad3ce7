------------------------------- MODULE LibCore -------------------------------
(***************************************************************************)
(* The core of lib/, the library that my_parser was derived from: the      *)
(* allocation of a parse structure, the search for a preamble, the buffer. *)
(* A parse structure here has one entry in its table of parsers, as the    *)
(* SBF parser and the SPARTN parser behind it have.                        *)
(***************************************************************************)
EXTENDS SempWord

CONSTANTS BufferLengths   \* bufferLength arguments of sempBeginParser

\* They are a size_t, and what can be allocated fits the 32-bit field that holds it.
ASSUME LibBuffers == BufferLengths \subseteq Nat

VARIABLES
  bufferLength,
  state,          \* the routine parse->state points to
  length          \* bytes in the buffer, a uint16_t even where the buffer is longer

SEMP_MINIMUM_BUFFER_LENGTH == 32

\* sempAllocateParseStructure: what is allocated for the buffer.
Allocated(n) == IF n < SEMP_MINIMUM_BUFFER_LENGTH THEN SEMP_MINIMUM_BUFFER_LENGTH ELSE n

sempBeginParser ==
  /\ bufferLength \in {Allocated(n) : n \in BufferLengths}
  /\ state = "sempFirstByte"
  /\ length = 0

\* Mutant: the last place of the buffer is taken for two.
HasRoomPast == length <= bufferLength

HasRoom == length < bufferLength

\* sempParseNextByte up to the call of the routine.
In(routine) == state = routine /\ HasRoom

\* The byte is stored and the routine selects the next one.
Go(routine) ==
  /\ state' = routine
  /\ length' = (length + 1) % UINT16
  /\ UNCHANGED bufferLength

\* The byte is the only one in the buffer; the preamble routine claims it or not.
sempFirstByte(claimed, routine) ==
  /\ length' = 1
  /\ state' = IF claimed THEN routine ELSE "sempFirstByte"
  /\ UNCHANGED bufferLength

=============================================================================
