---------------------------- MODULE FxyPtyTable ----------------------------
(***************************************************************************)
(* A column, and one row of it, through INSERTs, dumps and restores.  The  *)
(* module composes the column's type modifier (FxyPtyTypmod), the reading  *)
(* of a text (FxyPtyDecimal) and its printing (FxyPtyText): a literal is   *)
(* cast to the column's modifier, a dump prints the modifier and the row,  *)
(* a restore declares the column again and loads the row from its text.    *)
(*                                                                         *)
(* A text is the record of FxyPtyText: a sign, an integer part, and a      *)
(* fraction of so many digits.  PostgreSQL's tables, its dump program, and *)
(* its copies of a literal while it plans a statement are external.        *)
(***************************************************************************)
EXTENDS FxyPtyTypmod, FxyPtyDecimal

CONSTANTS
  TypeBytes,  \* INTERNALLENGTH, the bytes of a value: 24
  Printable,  \* the values whose text spells them (see FxyPtyOut)
  Texts       \* the texts that are written, or printed for other values

ASSUME TableAssumption ==
  /\ MaximumDigit = MaxDigits
  /\ TypeBytes \in Nat \ {0, 1}
  /\ Printable \subseteq Native
  /\ \A t \in Texts :
       /\ t \in [neg : BOOLEAN, int : 0..NativeLimit, frac : Nat, digits : 0..MaxDigits]
       /\ t.frac < Pow[t.digits]

VARIABLES
  row,    \* the object in the row, if any
  wrote,  \* <<>>, or the text that the row was last written from
  file,   \* <<>>, or the text of the row in the dump
  old     \* the object that was dumped, if any

tableVars == <<row, wrote, file, old>>

Absent == [kind |-> "absent"]

\* The characters of a text, stored where a decimal belongs.
Raw == [kind |-> "text"]

\* The text of a row that is no decimal, and of one that is not printable, is
\* no particular one: the members of Texts stand for whatever is printed.
Text == INSTANCE FxyPtyText WITH
  value <- IF row.kind = "decimal" THEN Value(row) ELSE NativeLimit,
  scale <- IF row.kind = "decimal" THEN row.scale ELSE 0,
  printed <- file,
  Inputs <- Native,
  Scales <- 0..MaxDigits

-----------------------------------------------------------------------------
\* The number of a text is Units(t) / Base^t.digits.
Units(t) == LET n == (t.int * Pow[t.digits]) + t.frac IN IF t.neg THEN -n ELSE n

\* _fxypty_in of a text.
Read(t, s) == In(Units(t), t.digits, s)

\* The digits of a number, and the characters of a text: its sign, its
\* integer part, the dot and its fraction.
Places(n) == CHOOSE k \in 1..MaxPow : n < Pow[k] /\ (k = 1 \/ Pow[k - 1] <= n)

Sign(t) == IF t.neg THEN 1 ELSE 0

Length(t) == Sign(t) + Places(t.int) + 1 + t.digits

\* With its terminating NUL the text fits a value.
Short(t) == Length(t) < TypeBytes

\* Strings of digits that may follow in memory: their length and number.
Tails == UNION { { <<n, x>> : x \in 0..Pow[n] - 1 } : n \in 0..MaxDigits }

\* What is read of a text of which only the first TypeBytes characters were
\* copied: the cut may be in the fraction or in the integer part, and no NUL
\* keeps sscanf from reading on.
Cut(t) ==
  LET room == TypeBytes - Sign(t) - Places(t.int)
      kept == room - 1
  IN  IF room > 0
      THEN { [t EXCEPT !.frac = ((@ \div Pow[t.digits - kept]) * Pow[tail[1]]) + tail[2],
                       !.digits = kept + tail[1]] :
               tail \in { l \in Tails : kept + l[1] <= MaxDigits } }
      ELSE { [t EXCEPT !.int = ((@ \div Pow[-room]) * Pow[tail[1]]) + tail[2],
                       !.frac = 0, !.digits = 0] : tail \in Tails }

\* fxypty_in makes 42 bytes of a literal; a copy of it has those of the type.
Copies(t) == {t} \union (IF Short(t) THEN {} ELSE Cut(t))

-----------------------------------------------------------------------------
TableInit ==
  /\ Init
  /\ row = Absent /\ wrote = <<>> /\ file = <<>> /\ old = Absent

Create ==
  /\ DeclareBare \/ \E list \in Requests : Declare(list)
  /\ UNCHANGED tableVars

\* A variant with a mistake in it, used to see that a property notices the
\* mistake: the number of digits of the modifier taken for the scale.
AssignByDigits(t) ==
  \/ Cast /\ \E u \in Copies(t) : row' \in Read(u, cast'[1])
  \/ pc = "column" /\ typmod < 0 /\ row' = Raw /\ UNCHANGED vars

\* The text is assigned to the column: by way of fxypty and fxypty_in_casted,
\* or, where the modifier is negative, as fxypty_in left it.
Assign(t) ==
  \/ Cast /\ \E u \in Copies(t) : row' \in Read(u, cast'[2])
  \/ pc = "column" /\ typmod < 0 /\ row' = Raw /\ UNCHANGED vars

\* The number has no room, or what follows a cut makes no number of it.
Rejected(t) == Cast /\ (~Short(t) \/ Read(t, cast'[2]) = {})

AssignError(t) == Rejected(t) /\ UNCHANGED tableVars

\* The row is written, or written anew.
Insert(t) ==
  /\ Assign(t)
  /\ wrote' = <<t>> /\ file' = <<>> /\ old' = Absent

\* fxypty_typmod_out prints the column's modifier, fxypty_out its row.  Of the
\* characters of a text fxypty_out takes four for the scale: with most such
\* scales it writes outside its buffers, and need not give a text at all.
DumpTable ==
  /\ Dump
  /\ old' = row
  /\ UNCHANGED <<row, wrote>>
  /\ \/ /\ row # Absent
        /\ \E t \in Texts \union (IF row.kind = "decimal"
                                 THEN {Text!Decimal(Value(row), row.scale)} ELSE {}) :
             file' = <<t>>
        /\ Text!Deliver
     \/ row \in {Absent, Raw} /\ file' = <<>>

RestoreTable ==
  /\ Restore
  /\ row' = Absent
  /\ UNCHANGED <<wrote, file, old>>

\* The dump's INSERT writes the row again.
Load ==
  /\ file # <<>> /\ row = Absent
  /\ Assign(file[1])
  /\ file' = <<>> /\ old' = Absent
  /\ UNCHANGED wrote

\* The rest of the restore goes on without the row.
LoadError ==
  /\ file # <<>> /\ row = Absent
  /\ Rejected(file[1])
  /\ file' = <<>> /\ old' = Absent
  /\ UNCHANGED <<row, wrote>>

\* The dump's COPY calls fxypty_in, which has a modifier among its parameters
\* and does not look at it, and no cast.
LoadCopy ==
  /\ pc = "column" /\ file # <<>> /\ row = Absent
  /\ row' = Raw
  /\ file' = <<>> /\ old' = Absent
  /\ UNCHANGED <<vars, wrote>>

TableNext ==
  \/ Create \/ DumpTable \/ RestoreTable \/ Load \/ LoadError
  \/ \E t \in Texts : Insert(t) \/ AssignError(t)

\* Rows are written by INSERT only.
TableSpec == TableInit /\ [][TableNext]_<<vars, tableVars>>

\* A dump may use COPY.
CopySpec == TableInit /\ [][TableNext \/ LoadCopy]_<<vars, tableVars>>

-----------------------------------------------------------------------------
Rows == {Absent, Raw} \union
        [kind : {"decimal"}, bytes : [lo : Int64, hi : Int64], scale : 0..MaxDigits]

Optional(t) == t = <<>> \/ /\ Len(t) = 1
                           /\ t[1] \in [neg : BOOLEAN, int : Nat, frac : Nat, digits : 0..MaxDigits]

TableTypeOK ==
  /\ row \in Rows /\ old \in Rows
  /\ Optional(wrote) /\ Optional(file)

\* The object is the number of the text, to the last digit of the scale.
Right(object, t, s) ==
  /\ object.kind = "decimal" /\ object.scale = s
  /\ LET off == (Value(object) * Pow[t.digits]) - (Units(t) * Pow[s])
     IN  -Pow[t.digits] < off /\ off < Pow[t.digits]

\* The value can be printed, by a text that survives being copied.
SafeValue(v, s) == v \in Printable /\ Short(Text!Decimal(v, s))

\* The text, and those of the values it may be read as, can be copied.
Safe(t, s) == Short(t) /\ \A v \in LibParse(Units(t), t.digits, s) : SafeValue(v, s)

\* Through any number of dumps and restores the row of a column with a plain
\* modifier is the number that was written, at the declared scale: a restore
\* neither loses it nor rounds it again.
RowRight ==
  Plain /\ row # Absent /\ Safe(wrote[1], declared[2]) =>
    Right(row, wrote[1], declared[2])

\* Loading a dump gives back the object that was dumped, bit by bit, and does
\* not fail.
LoadedAsDumped ==
  [][ Plain /\ old.kind = "decimal" /\ SafeValue(Value(old), old.scale) =>
        /\ Load => row' = old
        /\ ~LoadError ]_<<vars, tableVars>>

\* fxypty_in parses its input string: what an INSERT stores is the number that
\* was written.
InsertedRight ==
  [][ \A t \in Texts : Plain /\ Insert(t) => Right(row', t, declared[2]) ]_<<vars, tableVars>>

=============================================================================
