---------------------------- MODULE FxyPtyTypmod ----------------------------
(***************************************************************************)
(* The type modifier of a fxypty column: the list (digits, fraction) of a  *)
(* declaration is packed into an int32 by fxypty_typmod_in, unpacked by    *)
(* every cast, and printed by fxypty_typmod_out when the column is dumped; *)
(* a restore declares the column again from what was printed.              *)
(*                                                                         *)
(* Half is 2^16, the weight of the upper half of the int32.  The requested *)
(* numbers are int32s no less than -Half: below that the lower half of the *)
(* representation would no longer absorb the number of digits.             *)
(***************************************************************************)
EXTENDS Integers, Sequences

CONSTANTS
  Half,          \* 2^16
  MaximumDigit,  \* 38
  Requests       \* the modifier lists of the declarations

ASSUME TypmodAssumption ==
  /\ Half \in Nat /\ MaximumDigit \in Nat /\ MaximumDigit < Half
  /\ Requests \subseteq Seq(-Half .. Half - 1)

VARIABLES
  pc,        \* "ddl", "column", "dumped", "rejected"
  declared,  \* the modifier list the column was first declared with
  typmod,    \* the column's int32 type modifier
  dump,      \* what the dump says of the modifier: <<>> or a list
  cast       \* <<>>, or what the last cast took the modifier for

vars == <<pc, declared, typmod, dump, cast>>

\* The planner's and the catalog's value for "no type modifier".
NoTypmod == -1

\* Variants with a mistake in them, here and below, are used to see that a
\* property notices the mistake: this one forgets the maximum.
AcceptsWide(list) ==
  /\ Len(list) = 2
  /\ list[1] >= 0
  /\ list[1] - list[2] >= 0

\* fxypty_typmod_in: a list of two with no more digits than the maximum, and
\* no more fractional digits than digits.
Accepts(list) ==
  /\ Len(list) = 2
  /\ list[1] \in 0..MaximumDigit
  /\ list[1] - list[2] >= 0

\* A variant that shifts the digits too little.
EncodeNarrow(list) == IF list[2] >= 0 THEN (list[1] * 2) + list[2] ELSE list[2]

\* (digits << 16) | fraction, in two's complement: the upper half of a
\* negative fraction has every bit set, and the digits are absorbed.
Encode(list) == IF list[2] >= 0 THEN (list[1] * Half) + list[2] ELSE list[2]

\* (typmod >> 16) & 0xffff and typmod & 0xffff: an arithmetic shift, and two
\* masks that read both halves as unsigned.
Decode(t) == <<(t \div Half) % Half, t % Half>>

\* fxypty_typmod_out prints nothing for the other negative modifiers, and
\* raises an error for the missing one.
TypmodOut(t) == IF t >= 0 THEN Decode(t) ELSE <<>>

Init ==
  /\ pc = "ddl"
  /\ declared = <<>>
  /\ typmod = NoTypmod
  /\ dump = <<>>
  /\ cast = <<>>

\* CREATE TABLE with a modifier list.
Declare(list) ==
  /\ pc = "ddl"
  /\ declared' = list
  /\ IF Accepts(list) THEN pc' = "column" /\ typmod' = Encode(list)
                      ELSE pc' = "rejected" /\ UNCHANGED typmod
  /\ UNCHANGED <<dump, cast>>

\* CREATE TABLE without one: fxypty_typmod_in is not called.
DeclareBare ==
  /\ pc = "ddl"
  /\ pc' = "column"
  /\ UNCHANGED <<declared, typmod, dump, cast>>

\* A value is assigned to the column: fxypty_in_casted unpacks the modifier.
\* The planner skips the cast when the column's modifier is negative.
Cast ==
  /\ pc = "column" /\ typmod >= 0
  /\ cast' = Decode(typmod)
  /\ UNCHANGED <<pc, declared, typmod, dump>>

\* The dump prints the column's type; the catalog asks for the modifier's
\* text only when the column has one.
Dump ==
  /\ pc = "column"
  /\ pc' = "dumped"
  /\ dump' = IF typmod = NoTypmod THEN <<>> ELSE TypmodOut(typmod)
  /\ UNCHANGED <<declared, typmod, cast>>

\* The restore declares the column from the dump.
Restore ==
  /\ pc = "dumped"
  /\ IF dump = <<>> THEN pc' = "column" /\ typmod' = NoTypmod
     ELSE IF Accepts(dump) THEN pc' = "column" /\ typmod' = Encode(dump)
     ELSE pc' = "rejected" /\ UNCHANGED typmod
  /\ UNCHANGED <<declared, dump, cast>>

Next ==
  \/ \E list \in Requests : Declare(list)
  \/ DeclareBare \/ Cast \/ Dump \/ Restore

Spec == Init /\ [][Next]_vars

-----------------------------------------------------------------------------
TypeOK ==
  /\ pc \in {"ddl", "column", "dumped", "rejected"}
  /\ declared \in Requests \union {<<>>}
  /\ typmod \in -Half .. ((MaximumDigit + 1) * Half) - 1
  /\ dump \in Seq(0 .. Half - 1)
  /\ cast \in Seq(0 .. Half - 1)

\* The column was accepted with a fraction that is not negative.
Plain == Accepts(declared) /\ declared[2] >= 0

\* Through any number of dumps and restores a column keeps the modifier it
\* was declared with: its int32 stands for the declared list, and no restore
\* is rejected.
Represented ==
  Plain => /\ pc # "rejected"
           /\ Decode(typmod) = declared

\* The comment of fxypty_typmod_in: the int32 it returns represents the type
\* modifier it has validated.
AcceptedRepresented ==
  pc = "column" /\ Accepts(declared) => Decode(typmod) = declared

=============================================================================
