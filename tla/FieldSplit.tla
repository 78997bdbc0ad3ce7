------------------------------ MODULE FieldSplit ------------------------------
(***************************************************************************)
(* semp_util_parse_delimited_fields of Message_Parser.c: the text of a     *)
(* sentence is copied into an array of fields, character by character.     *)
(* A character is what the loop tells apart.                               *)
(***************************************************************************)
EXTENDS Integers

CONSTANTS
  FieldCounts,   \* maxFields arguments
  FieldSizes     \* fieldSize arguments

VARIABLES
  maxFields, fieldSize,
  pc,            \* "idle", or "loop" at the test of the while loop
  fieldCount, fieldPos,
  written,       \* the fields that were written to
  result

vars == <<maxFields, fieldSize, pc, fieldCount, fieldPos, written, result>>

\* nul ends the string, terminator is the argument of that name.
Characters == {"text", "delimiter", "terminator", "nul"}

Init ==
  /\ maxFields \in FieldCounts /\ fieldSize \in FieldSizes
  /\ pc = "idle" /\ fieldCount = 0 /\ fieldPos = 0 /\ written = {} /\ result = 0

\* A call, up to the loop.  A leading character below 32 is skipped.
Call ==
  /\ pc = "idle"
  /\ maxFields' \in FieldCounts /\ fieldSize' \in FieldSizes
  /\ fieldCount' = 0 /\ fieldPos' = 0 /\ result' = 0
  /\ \/ maxFields' <= 0 /\ pc' = "idle" /\ written' = {}
     \/ maxFields' > 0 /\ pc' = "loop" /\ written' = {0}

Delimiter ==
  /\ fieldCount' = fieldCount + 1
  /\ fieldPos' = IF fieldCount' < maxFields THEN 0 ELSE fieldPos
  /\ written' = written \cup {fieldCount} \cup {n \in {fieldCount'} : n < maxFields}

Text ==
  /\ UNCHANGED fieldCount
  /\ \/ /\ fieldPos < fieldSize - 1
        /\ fieldPos' = fieldPos + 1 /\ written' = written \cup {fieldCount}
     \/ fieldPos >= fieldSize - 1 /\ UNCHANGED <<fieldPos, written>>

\* A turn of the loop.
Turn(char) ==
  /\ pc = "loop" /\ char \notin {"nul", "terminator"} /\ fieldCount < maxFields
  /\ \/ char = "delimiter" /\ Delimiter
     \/ char # "delimiter" /\ Text
  /\ UNCHANGED <<maxFields, fieldSize, pc, result>>

\* The end of the loop: the last field is closed.
Return(char) ==
  /\ pc = "loop" /\ (char \in {"nul", "terminator"} \/ fieldCount >= maxFields)
  /\ pc' = "idle"
  /\ \/ fieldPos > 0 /\ result' = fieldCount + 1 /\ written' = written \cup {fieldCount}
     \/ fieldPos = 0 /\ result' = fieldCount /\ UNCHANGED written
  /\ UNCHANGED <<maxFields, fieldSize, fieldCount, fieldPos>>

Next == Call \/ \E char \in Characters : Turn(char) \/ Return(char)

Spec == Init /\ [][Next]_vars

\* Only the fields of the array are written and counted: maxFields is its capacity,
\* as the header says.
FieldsInArray ==
  /\ \A n \in written : n < maxFields
  /\ result > 0 => result <= maxFields

=============================================================================
