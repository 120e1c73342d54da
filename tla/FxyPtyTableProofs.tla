------------------------- MODULE FxyPtyTableProofs -------------------------
(***************************************************************************)
(* Proofs about the row of a table, for all widths, all modifiers and all  *)
(* texts: reading what was printed gives the value back, and so a row      *)
(* survives any number of dumps and restores.                              *)
(***************************************************************************)
EXTENDS FxyPtyTable, FxyPtyTypmodProofs, FxyPtyNumbersProofs

LEMMA PowAt ==
  ASSUME NEW s \in 0..MaxDigits
  PROVE  Pow[s] \in Nat /\ Pow[s] > 0
<1>1. s \in 0..MaxPow
  BY NumbersAssumption
<1>2. QED
  BY <1>1, PowType

\* A multiple of the divisor has one quotient.
LEMMA QuotientExact ==
  ASSUME NEW v \in Native, NEW b \in Nat, b > 0
  PROVE  Quotients(v * b, b) = {v}
<1>1. v \in Int
  BY DEF Native
<1>2. v * b \in Int /\ v * b = (b * v) + 0 /\ 0 \in 0..(b - 1)
  BY <1>1
<1> DEFINE a == v * b
<1>3. a \in Int /\ a = (b * v) + 0
  BY <1>2
<1>4. -v \in Int /\ -a = (b * (-v)) + 0 /\ -a \in Int
  BY <1>1, <1>2
<1> HIDE DEF a
<1>5. a \div b = v
  BY <1>1, <1>2, <1>3, DivModUnique
<1> DEFINE c == -a
           w == -v
<1>6. c \in Int /\ w \in Int /\ c = (b * w) + 0
  BY <1>4
<1> HIDE DEF c, w
<1>7. c \div b = w
  BY <1>2, <1>6, DivModUnique
<1>8. -((-a) \div b) = v
  BY <1>1, <1>7 DEF c, w
<1>9. Quotients(a, b) = {v}
  BY <1>5, <1>8 DEF Quotients
<1>10. QED
  BY <1>9 DEF a

\* The number of a printed text is the value that was printed.
LEMMA UnitsOfDecimal ==
  ASSUME NEW v \in Int, NEW s \in 0..MaxDigits
  PROVE  Units(Text!Decimal(v, s)) = v /\ Text!Decimal(v, s).digits = s
<1> DEFINE P == Pow[s]
           m == Text!Absolute(v)
           n == (m \div P) * P + (m % P)
<1>1. P \in Nat /\ P > 0
  BY PowAt
<1>2. m \in Nat /\ v = (IF v < 0 THEN -m ELSE m)
  BY DEF Text!Absolute
<1>3. n = m
  <2> HIDE DEF m, P
  <2>1. m \div P \in Int /\ m % P \in Int /\ m = (P * (m \div P)) + (m % P)
    BY <1>1, <1>2, Z3
  <2>2. (m \div P) * P = P * (m \div P)
    BY <1>1, <2>1
  <2>3. QED
    BY <2>1, <2>2
<1>4. Units(Text!Decimal(v, s)) = IF v < 0 THEN -n ELSE n
  BY DEF Units, Text!Decimal
<1>5. QED
  BY <1>2, <1>3, <1>4 DEF Text!Decimal

\* Reading the text of a value at its own scale gives that very object.
THEOREM ReadsPrinted ==
  ASSUME NEW v \in Native, NEW s \in 0..MaxDigits
  PROVE  Read(Text!Decimal(v, s), s) = {Object(v, s)}
<1>1. v \in Int
  BY DEF Native
<1>2. Units(Text!Decimal(v, s)) = v /\ Text!Decimal(v, s).digits = s
  BY <1>1, UnitsOfDecimal
<1>3. LibParse(v, s, s) = {v}
  BY PowAt, QuotientExact DEF LibParse
<1>4. QED
  BY <1>2, <1>3 DEF Read, In

-----------------------------------------------------------------------------
(***************************************************************************)
(* The inductive invariant.  In a column with a plain modifier, whatever   *)
(* is in the row or was dumped is an object of the declared scale, and one *)
(* of the values that the text last written may be read as.  The file      *)
(* holds the text of what was dumped, where that can be printed.           *)
(***************************************************************************)
ReadAs(o, t, s) == Safe(t, s) => Value(o) \in LibParse(Units(t), t.digits, s)

\* o is a good object for the column.
Good(o) ==
  /\ \E v \in Native : o = Object(v, declared[2])
  /\ wrote[1] \in Texts /\ ReadAs(o, wrote[1], declared[2])

DumpedText ==
  file # <<>> =>
    /\ old # Absent
    /\ Value(old) \in Printable => file = <<Text!Decimal(Value(old), old.scale)>>

RowInv ==
  /\ row # Absent => Good(row)
  /\ old # Absent => Good(old)
  /\ DumpedText

DataInv ==
  /\ pc = "ddl" => row = Absent /\ old = Absent /\ file = <<>>
  /\ Plain => RowInv

\* The table's steps are steps of the column's modifier.
LEMMA TableImplementsTypmod == TableSpec => Spec
<1>1. TableInit => Init
  BY DEF TableInit
<1>2. [TableNext]_<<vars, tableVars>> => [Next]_vars
  BY DEF TableNext, Create, DumpTable, RestoreTable, Load, LoadError, Insert,
         Assign, AssignError, Rejected, Next
<1>3. QED
  BY <1>1, <1>2, PTL DEF TableSpec, Spec

\* A plain modifier: its scale is one, and it is not negative.
LEMMA PlainScale ==
  ASSUME IInv, Plain
  PROVE  /\ declared[2] \in 0..MaxDigits
         /\ typmod >= 0
<1>1. declared \in Requests \union {<<>>} /\ Accepts(declared) /\ declared[2] >= 0
  BY DEF IInv, Plain
<1>2. Encode(declared) \in Nat /\ declared = <<declared[1], declared[2]>>
  BY <1>1, PlainPair
<1>3. typmod = Encode(declared)
  BY DEF IInv, Kept
<1>4. declared \in Seq(-Half .. Half - 1) /\ Len(declared) = 2
  BY <1>1, TypmodAssumption DEF Accepts
<1>5. declared[2] \in Int
  <2> DEFINE S == -Half .. Half - 1
  <2>1. declared \in Seq(S) /\ 2 \in 1..Len(declared)
    BY <1>4
  <2> HIDE DEF S
  <2>2. declared[2] \in S
    BY <2>1
  <2>3. QED
    BY <2>2, TypmodAssumption DEF S
<1>6. declared[1] \in 0..MaximumDigit /\ declared[2] <= declared[1]
  BY <1>1, <1>5, TypmodAssumption DEF Accepts
<1>7. declared[2] \in 0..MaxDigits
  BY <1>1, <1>5, <1>6, TableAssumption, NumbersAssumption
<1>8. QED
  BY <1>2, <1>3, <1>7

\* What is read at a scale is an object of it, with one of the values.
LEMMA ReadGives ==
  ASSUME NEW t, NEW s, NEW o \in Read(t, s)
  PROVE  \E v \in Native : o = Object(v, s) /\ Value(o) = v
                             /\ v \in LibParse(Units(t), t.digits, s)
<1>1. PICK v \in LibParse(Units(t), t.digits, s) : o = Object(v, s)
  BY DEF Read, In
<1>2. v \in Native
  BY DEF LibParse, Quotients
<1>3. Value(Object(v, s)) = v
  BY <1>2, PackUnpack DEF Value, Object
<1>4. QED
  BY <1>1, <1>2, <1>3

\* An assignment to a plain column goes by way of the cast, at the declared
\* scale; a short text is read as it is.
LEMMA AssignReads ==
  ASSUME IInv, CastAsDeclared', Plain, NEW t, Assign(t)
  PROVE  /\ UNCHANGED <<pc, declared, typmod, dump>>
         /\ pc = "column"
         /\ \E u \in Copies(t) : row' \in Read(u, declared[2])
         /\ Short(t) => row' \in Read(t, declared[2])
<1>1. typmod >= 0 /\ declared[2] \in 0..MaxDigits
  BY PlainScale
<1>2. typmod \in Int
  <2>1. Encode(declared) \in Nat /\ typmod = Encode(declared)
    BY PlainPair DEF IInv, Plain, Kept
  <2>2. QED
    BY <2>1
<1>3. Cast /\ \E u \in Copies(t) : row' \in Read(u, cast'[2])
  BY <1>1, <1>2 DEF Assign
<1>4. UNCHANGED <<pc, declared, typmod, dump>> /\ pc = "column" /\ cast' # <<>>
  BY <1>3 DEF Cast, Decode
<1>5. cast' = declared
  BY <1>4 DEF CastAsDeclared, Plain
<1>6. Short(t) => Copies(t) = {t}
  BY DEF Copies
<1>7. QED
  BY <1>3, <1>4, <1>5, <1>6

\* Loading the text of a good object gives that object back.
LEMMA LoadReturns ==
  ASSUME IInv, CastAsDeclared', Plain, RowInv, file # <<>>,
         SafeValue(Value(old), old.scale)
  PROVE  /\ Short(file[1])
         /\ Read(file[1], declared[2]) = {old}
         /\ Assign(file[1]) => row' = old
<1>1. old # Absent /\ Good(old) /\ declared[2] \in 0..MaxDigits
  BY PlainScale DEF RowInv, DumpedText
<1>2. PICK v \in Native : old = Object(v, declared[2])
  BY <1>1 DEF Good
<1>3. Value(old) = v /\ old.scale = declared[2]
  BY <1>2, PackUnpack DEF Value, Object
<1>4. file = <<Text!Decimal(v, declared[2])>> /\ Short(Text!Decimal(v, declared[2]))
  BY <1>3 DEF RowInv, DumpedText, SafeValue
<1>5. file[1] = Text!Decimal(v, declared[2])
  BY <1>4
<1>6. Read(file[1], declared[2]) = {old}
  BY <1>1, <1>2, <1>5, ReadsPrinted
<1>7. Short(file[1])
  BY <1>4, <1>5
<1>8. Assign(file[1]) => row' \in Read(file[1], declared[2])
  BY <1>7, AssignReads
<1>9. QED
  BY <1>6, <1>7, <1>8

LEMMA InsertKeeps ==
  ASSUME IInv, CastAsDeclared', DataInv, NEW t \in Texts, Insert(t)
  PROVE  DataInv'
<1>1. pc' # "ddl" /\ declared' = declared
  BY DEF Insert, Assign, Cast, vars
<1>2. ASSUME Plain' PROVE RowInv'
  <2>1. Plain
    BY <1>1, <1>2 DEF Plain
  <2>2. Assign(t) /\ wrote' = <<t>> /\ file' = <<>> /\ old' = Absent
    BY DEF Insert
  <2>3. PICK u \in Copies(t) : row' \in Read(u, declared[2])
    BY <2>1, <2>2, AssignReads
  <2>4. PICK v \in Native : row' = Object(v, declared[2])
    BY <2>3, ReadGives
  <2>5. ReadAs(row', t, declared[2])
    <3> SUFFICES ASSUME Safe(t, declared[2])
                 PROVE  Value(row') \in LibParse(Units(t), t.digits, declared[2])
      BY DEF ReadAs
    <3>1. row' \in Read(t, declared[2])
      BY <2>1, <2>2, AssignReads DEF Safe
    <3>2. QED
      BY <3>1, ReadGives
  <2>6. wrote'[1] = t
    BY <2>2
  <2>7. Good(row)'
    BY <1>1, <2>4, <2>5, <2>6 DEF Good
  <2>8. QED
    BY <2>2, <2>7 DEF RowInv, DumpedText
<1>3. QED
  BY <1>1, <1>2 DEF DataInv

LEMMA LoadKeeps ==
  ASSUME IInv, CastAsDeclared', DataInv, Load
  PROVE  DataInv'
<1>1. pc' # "ddl" /\ declared' = declared
  BY DEF Load, Assign, Cast, vars
<1>2. ASSUME Plain' PROVE RowInv'
  <2>1. Plain /\ RowInv
    BY <1>1, <1>2 DEF Plain, DataInv
  <2>2. /\ Assign(file[1]) /\ file # <<>>
        /\ wrote' = wrote /\ file' = <<>> /\ old' = Absent
    BY DEF Load
  <2>3. PICK u \in Copies(file[1]) : row' \in Read(u, declared[2])
    BY <2>1, <2>2, AssignReads
  <2>4. PICK v \in Native : row' = Object(v, declared[2])
    BY <2>3, ReadGives
  <2>5. ReadAs(row', wrote[1], declared[2])
    <3> SUFFICES ASSUME Safe(wrote[1], declared[2])
                 PROVE  Value(row') \in LibParse(Units(wrote[1]), wrote[1].digits, declared[2])
      BY DEF ReadAs
    <3>1. /\ \E x \in Native : old = Object(x, declared[2])
          /\ Value(old) \in LibParse(Units(wrote[1]), wrote[1].digits, declared[2])
      BY <2>1, <2>2 DEF RowInv, DumpedText, Good, ReadAs
    <3>2. old.scale = declared[2]
      BY <3>1 DEF Object
    <3>3. SafeValue(Value(old), old.scale)
      BY <3>1, <3>2 DEF Safe
    <3>4. row' = old
      BY <2>1, <2>2, <3>3, LoadReturns
    <3>5. QED
      BY <3>1, <3>4
  <2>6. wrote[1] \in Texts
    BY <2>1, <2>2 DEF RowInv, DumpedText, Good
  <2>8. Good(row)'
    BY <1>1, <2>2, <2>4, <2>5, <2>6 DEF Good
  <2>7. QED
    BY <2>2, <2>8 DEF RowInv, DumpedText
<1>3. QED
  BY <1>1, <1>2 DEF DataInv

LEMMA DumpKeeps ==
  ASSUME IInv, DataInv, DumpTable
  PROVE  DataInv'
<1>1. /\ pc' # "ddl" /\ declared' = declared
      /\ old' = row /\ row' = row /\ wrote' = wrote
  BY DEF DumpTable, Dump
<1>2. ASSUME Plain' PROVE RowInv'
  <2>1. Plain /\ RowInv
    BY <1>1, <1>2 DEF Plain, DataInv
  <2>2. row # Absent => Good(row)
    BY <2>1 DEF RowInv
  <2>3. (row' # Absent => Good(row)') /\ (old' # Absent => Good(old)')
    BY <1>1, <2>2 DEF Good
  <2>4. DumpedText'
    <3>1. CASE row = Absent
      BY <1>1, <3>1 DEF DumpTable, DumpedText
    <3>2. CASE row # Absent
      <4>1. row.kind = "decimal" /\ row.scale <= MaxDigits
        <5>1. declared[2] \in 0..MaxDigits /\ MaxDigits \in Nat
          BY <2>1, PlainScale, NumbersAssumption
        <5>2. QED
          BY <2>2, <3>2, <5>1 DEF Good, Object
      <4>2. Text!Deliver
        BY <3>2, <4>1 DEF DumpTable, Absent, Raw
      <4>3. Value(row) \in Printable => file' = <<Text!Decimal(Value(row), row.scale)>>
        BY <4>1, <4>2 DEF Text!Deliver
      <4>4. QED
        BY <1>1, <3>2, <4>3 DEF DumpedText
    <3>3. QED
      BY <3>1, <3>2
  <2>5. QED
    BY <2>3, <2>4 DEF RowInv
<1>3. QED
  BY <1>1, <1>2 DEF DataInv

LEMMA DataNext ==
  IInv /\ CastAsDeclared' /\ DataInv /\ [TableNext]_<<vars, tableVars>> => DataInv'
<1> SUFFICES ASSUME IInv, CastAsDeclared', DataInv, [TableNext]_<<vars, tableVars>>
             PROVE  DataInv'
  OBVIOUS
<1>1. CASE Create
  <2>1. row' = Absent /\ old' = Absent /\ file' = <<>>
    BY <1>1 DEF Create, DeclareBare, Declare, tableVars, DataInv
  <2>2. QED
    BY <2>1 DEF DataInv, RowInv, DumpedText
<1>2. CASE DumpTable
  BY <1>2, DumpKeeps
<1>3. CASE RestoreTable
  <2>1. /\ pc' # "ddl" /\ declared' = declared /\ row' = Absent
        /\ UNCHANGED <<wrote, file, old>>
    BY <1>3 DEF RestoreTable, Restore
  <2>2. Plain' => Plain
    BY <2>1 DEF Plain
  <2>3. RowInv => RowInv'
    BY <2>1 DEF RowInv, DumpedText, Good
  <2>4. QED
    BY <2>1, <2>2, <2>3 DEF DataInv
<1>4. CASE Load
  BY <1>4, LoadKeeps
<1>5. ASSUME NEW t, AssignError(t) \/ UNCHANGED <<vars, tableVars>>
      PROVE  DataInv'
  <2>1. UNCHANGED <<pc, declared>> /\ UNCHANGED tableVars
    BY <1>5 DEF AssignError, Rejected, Cast, vars
  <2>2. Plain' => Plain
    BY <2>1 DEF Plain
  <2>3. RowInv => RowInv'
    BY <2>1 DEF RowInv, DumpedText, Good, tableVars
  <2>4. QED
    BY <2>1, <2>2, <2>3 DEF DataInv, tableVars
<1>6. ASSUME NEW t \in Texts, Insert(t) PROVE DataInv'
  BY <1>6, InsertKeeps
<1>7. CASE LoadError
  <2>1. /\ UNCHANGED <<pc, declared, row, wrote>>
        /\ file' = <<>> /\ old' = Absent
    BY <1>7 DEF LoadError, Rejected, Cast
  <2>2. Plain' => Plain
    BY <2>1 DEF Plain
  <2>3. RowInv => RowInv'
    BY <2>1 DEF RowInv, DumpedText, Good
  <2>4. QED
    BY <2>1, <2>2, <2>3 DEF DataInv
<1>8. QED
  BY <1>1, <1>2, <1>3, <1>4, <1>5, <1>6, <1>7 DEF TableNext

LEMMA DataInvariant == TableSpec => [](IInv /\ CastAsDeclared /\ DataInv)
<1>1. TableInit => DataInv
  BY DEF TableInit, Init, DataInv, RowInv, DumpedText
<1>2. TableSpec => []IInv /\ []CastAsDeclared
  BY TableImplementsTypmod, KeptInvariant, CastKept, PTL
<1>3. QED
  BY <1>1, <1>2, DataNext, PTL DEF TableSpec

\* The row of a plain column is what was written, through any number of dumps
\* and restores.
THEOREM RowKeeps == TableSpec => []RowRight
<1>1. IInv /\ DataInv => RowRight
  <2> SUFFICES ASSUME IInv, DataInv, Plain, row # Absent, Safe(wrote[1], declared[2])
               PROVE  Right(row, wrote[1], declared[2])
    BY DEF RowRight
  <2> DEFINE t == wrote[1]
             s == declared[2]
             a == Units(t) * Pow[s]
             b == Pow[t.digits]
             v == Value(row)
  <2>1. /\ \E x \in Native : row = Object(x, s)
        /\ t \in Texts /\ v \in LibParse(Units(t), t.digits, s)
        /\ s \in 0..MaxDigits
    BY PlainScale DEF DataInv, RowInv, Good, ReadAs
  <2>2. row.kind = "decimal" /\ row.scale = s
    BY <2>1 DEF Object
  <2>3. Units(t) \in Int /\ t.digits \in 0..MaxDigits
    <3>1. t.int \in Nat /\ t.frac \in Nat /\ t.digits \in 0..MaxDigits
      <4>1. t \in [neg : BOOLEAN, int : 0..NativeLimit, frac : Nat, digits : 0..MaxDigits]
        BY <2>1, TableAssumption
      <4> HIDE DEF t
      <4>2. QED
        BY <4>1
    <3> HIDE DEF t
    <3>2. Pow[t.digits] \in Nat
      BY <3>1, PowAt
    <3>3. (t.int * Pow[t.digits]) + t.frac \in Int
      BY <3>1, <3>2
    <3>4. QED
      BY <3>1, <3>3 DEF Units
  <2>4. a \in Int /\ b \in Nat /\ b > 0
    <3>1. Pow[s] \in Nat
      BY <2>1, PowAt
    <3>2. b \in Nat /\ b > 0
      BY <2>3, PowAt
    <3> HIDE DEF t, s
    <3>3. QED
      BY <2>3, <3>1, <3>2
  <2>5. v \in Quotients(a, b)
    BY <2>1 DEF LibParse
  <2> HIDE DEF a, b, v
  <2>6. -b < (v * b) - a /\ (v * b) - a < b
    BY <2>4, <2>5, NeighbourNear DEF Quotients
  <2>7. QED
    BY <2>2, <2>6 DEF Right, a, b, v
<1>2. QED
  BY <1>1, DataInvariant, PTL

\* Loading a dump gives back the object that was dumped, and does not fail.
THEOREM DumpsReload == TableSpec => LoadedAsDumped
<1>1. /\ IInv /\ CastAsDeclared' /\ DataInv /\ [TableNext]_<<vars, tableVars>>
      => [ Plain /\ old.kind = "decimal" /\ SafeValue(Value(old), old.scale) =>
             /\ Load => row' = old
             /\ ~LoadError ]_<<vars, tableVars>>
  <2> SUFFICES ASSUME IInv, CastAsDeclared', DataInv, Plain,
                      SafeValue(Value(old), old.scale)
               PROVE  (Load => row' = old) /\ ~LoadError
    OBVIOUS
  <2>1. RowInv
    BY DEF DataInv
  <2>2. ASSUME file # <<>>
        PROVE  /\ Short(file[1]) /\ Read(file[1], declared[2]) = {old}
               /\ Assign(file[1]) => row' = old
    BY <2>1, <2>2, LoadReturns
  <2>3. Load => row' = old
    BY <2>2 DEF Load
  <2>4. ASSUME LoadError PROVE FALSE
    <3>1. Short(file[1]) /\ Read(file[1], declared[2]) = {old} /\ Cast
          /\ (~Short(file[1]) \/ Read(file[1], cast'[2]) = {})
      BY <2>2, <2>4 DEF LoadError, Rejected
    <3>2. cast' = declared
      BY <3>1 DEF Cast, Decode, CastAsDeclared, Plain
    <3>3. QED
      BY <3>1, <3>2
  <2>5. QED
    BY <2>3, <2>4
<1>2. QED
  BY <1>1, DataInvariant, PTL DEF TableSpec, LoadedAsDumped

-----------------------------------------------------------------------------
(***************************************************************************)
(* Type correctness: whatever the modifier that was accepted, and whether  *)
(* plain or not, a cast reads a scale from it that objects can have.       *)
(***************************************************************************)
ScaleFits == typmod >= 0 => Decode(typmod)[2] \in 0..MaximumDigit

LEMMA EncodedScale ==
  ASSUME NEW list, Accepts(list), list[2] \in Int, Encode(list) >= 0
  PROVE  Decode(Encode(list))[2] \in 0..MaximumDigit
<1> DEFINE d == list[1]
           f == list[2]
<1>1. /\ d \in 0..MaximumDigit /\ f \in Int /\ f <= d
      /\ Half \in Nat /\ Half > 0 /\ MaximumDigit \in Nat /\ MaximumDigit < Half
  BY TypmodAssumption DEF Accepts
<1>2. f >= 0 /\ Encode(list) = (d * Half) + f
  BY <1>1 DEF Encode
<1> HIDE DEF d, f
<1>3. d \in 0..(Half - 1) /\ f \in 0..(Half - 1) /\ f \in 0..MaximumDigit
  BY <1>1, <1>2
<1>4. ((d * Half) + f) % Half = f
  BY <1>1, <1>3, TwoHalves
<1>5. Decode(Encode(list))[2] = f
  BY <1>2, <1>4 DEF Decode
<1>6. QED
  BY <1>3, <1>5

LEMMA ScaleNext == TypeOK /\ ScaleFits /\ [Next]_vars => ScaleFits'
<1> SUFFICES ASSUME TypeOK, ScaleFits, [Next]_vars PROVE ScaleFits'
  OBVIOUS
<1>1. ASSUME NEW list, list \in Requests \/ list = dump, Accepts(list), typmod' = Encode(list)
      PROVE  ScaleFits'
  <2>1. list[2] \in Int
    <3>1. list \in Seq(-Half .. Half - 1) \/ list \in Seq(0 .. Half - 1)
      BY <1>1, TypmodAssumption DEF TypeOK
    <3> DEFINE S == -Half .. Half - 1
               T == 0 .. Half - 1
    <3>2. S \subseteq Int /\ T \subseteq Int
      BY TypmodAssumption
    <3>3. (list \in Seq(S) \/ list \in Seq(T)) /\ 2 \in 1..Len(list)
      BY <1>1, <3>1 DEF Accepts
    <3> HIDE DEF S, T
    <3>4. list[2] \in S \/ list[2] \in T
      BY <3>3
    <3>5. QED
      BY <3>2, <3>4
  <2>2. QED
    BY <1>1, <2>1, EncodedScale DEF ScaleFits
<1>2. UNCHANGED typmod => ScaleFits'
  BY DEF ScaleFits
<1>3. typmod' = NoTypmod => ScaleFits'
  BY DEF ScaleFits, NoTypmod
<1>4. CASE \E list \in Requests : Declare(list)
  BY <1>1, <1>2, <1>4 DEF Declare
<1>5. CASE Restore
  BY <1>1, <1>2, <1>3, <1>5 DEF Restore
<1>6. CASE DeclareBare \/ Cast \/ Dump \/ UNCHANGED vars
  BY <1>2, <1>6 DEF DeclareBare, Cast, Dump, vars
<1>7. QED
  BY <1>4, <1>5, <1>6 DEF Next

LEMMA ScaleInvariant == Spec => []ScaleFits
<1>1. Init => ScaleFits
  BY DEF Init, ScaleFits, NoTypmod
<1>2. QED
  BY <1>1, ScaleNext, TypeCorrect, PTL DEF Spec

LEMMA ObjectInRows ==
  ASSUME NEW v \in Native, NEW s \in 0..MaxDigits
  PROVE  Object(v, s) \in Rows
<1>1. Unpack128(v) \in [lo : Int64, hi : Int64]
  BY PackUnpack
<1>2. QED
  BY <1>1 DEF Object, Rows

\* Whatever is assigned, the row gets the characters of a text or an object.
LEMMA AssignType ==
  ASSUME ScaleFits, NEW t, Assign(t)
  PROVE  row' \in Rows
<1>1. CASE row' = Raw
  BY <1>1 DEF Rows
<1>2. ASSUME Cast, NEW u, row' \in Read(u, cast'[2])
      PROVE  row' \in Rows
  <2>1. cast'[2] \in 0..MaxDigits
    BY <1>2, TableAssumption DEF Cast, ScaleFits
  <2>2. PICK v \in Native : row' = Object(v, cast'[2])
    BY <1>2, ReadGives
  <2>3. QED
    BY <2>1, <2>2, ObjectInRows
<1>3. QED
  BY <1>1, <1>2 DEF Assign

TextType == [neg : BOOLEAN, int : Nat, frac : Nat, digits : 0..MaxDigits]

LEMMA WrittenType ==
  ASSUME NEW t \in Texts
  PROVE  t \in TextType
<1>1. t \in [neg : BOOLEAN, int : 0..NativeLimit, frac : Nat, digits : 0..MaxDigits]
  BY TableAssumption
<1>2. 0..NativeLimit \subseteq Nat
  OBVIOUS
<1>3. QED
  BY <1>1, <1>2 DEF TextType

LEMMA DecimalType ==
  ASSUME NEW v \in Int, NEW s \in 0..MaxDigits
  PROVE  Text!Decimal(v, s) \in TextType
<1> DEFINE m == Text!Absolute(v)
           P == Pow[s]
<1>1. P \in Nat /\ P > 0 /\ m \in Nat
  BY PowAt DEF Text!Absolute
<1> HIDE DEF m, P
<1>2. m \div P \in Nat /\ m % P \in Nat
  BY <1>1, Z3
<1>3. QED
  BY <1>2 DEF Text!Decimal, TextType, m, P

LEMMA RowValue ==
  ASSUME row \in Rows, row.kind = "decimal"
  PROVE  Value(row) \in Int /\ row.scale \in 0..MaxDigits
<1>1. /\ row.bytes \in [lo : Int64, hi : Int64] /\ row.scale \in 0..MaxDigits
  BY DEF Rows, Absent, Raw
<1> DEFINE l == row.bytes.lo
           h == row.bytes.hi
<1>2. l \in Int /\ h \in Int /\ Word \in Nat /\ Word > 0
  BY <1>1, HalfWordType, NumbersAssumption DEF Int64
<1> HIDE DEF l, h
<1>3. l % Word \in Int /\ h * Word \in Int
  BY <1>2, DivMod
<1>4. (l % Word) + (h * Word) \in Int
  BY <1>3
<1>5. QED
  BY <1>1, <1>4 DEF Value, Pack128, l, h

LEMMA OneText ==
  ASSUME NEW t \in TextType
  PROVE  Optional(<<t>>)
BY DEF Optional, TextType

LEMMA TableTypeNext ==
  ScaleFits /\ TableTypeOK /\ [TableNext]_<<vars, tableVars>> => TableTypeOK'
<1> SUFFICES ASSUME ScaleFits, TableTypeOK, [TableNext]_<<vars, tableVars>>
             PROVE  TableTypeOK'
  OBVIOUS
<1>0. Absent \in Rows /\ Optional(<<>>)
  BY DEF Rows, Optional
<1>1. CASE UNCHANGED tableVars
  BY <1>1 DEF tableVars, TableTypeOK, Rows, Absent, Raw, Optional
<1>2. ASSUME NEW t \in Texts, Insert(t) PROVE TableTypeOK'
  <2>1. row' \in Rows /\ wrote' = <<t>> /\ file' = <<>> /\ old' = Absent
    BY <1>2, AssignType DEF Insert
  <2>2. Optional(wrote')
    BY <2>1, WrittenType, OneText
  <2>3. QED
    BY <1>0, <2>1, <2>2 DEF TableTypeOK, Rows, Absent, Raw, Optional
<1>3. CASE DumpTable
  <2>1. row' = row /\ old' = row /\ wrote' = wrote
    BY <1>3 DEF DumpTable
  <2>2. Optional(file')
    <3>1. CASE file' = <<>>
      BY <1>0, <3>1
    <3>2. CASE file' # <<>>
      <4>1. PICK t \in Texts \union (IF row.kind = "decimal"
                                    THEN {Text!Decimal(Value(row), row.scale)} ELSE {}) :
              file' = <<t>>
        BY <1>3, <3>2 DEF DumpTable
      <4>2. t \in TextType
        BY <4>1, WrittenType, DecimalType, RowValue DEF TableTypeOK
      <4>3. QED
        BY <4>1, <4>2, OneText
    <3>3. QED
      BY <3>1, <3>2
  <2>3. QED
    BY <2>1, <2>2 DEF TableTypeOK, Rows, Absent, Raw, Optional
<1>4. CASE RestoreTable
  BY <1>0, <1>4 DEF RestoreTable, TableTypeOK, Rows, Absent, Raw, Optional
<1>5. CASE Load
  <2>1. row' \in Rows /\ wrote' = wrote /\ file' = <<>> /\ old' = Absent
    BY <1>5, AssignType DEF Load
  <2>2. QED
    BY <1>0, <2>1 DEF TableTypeOK, Rows, Absent, Raw, Optional
<1>6. CASE LoadError
  BY <1>0, <1>6 DEF LoadError, TableTypeOK, Rows, Absent, Raw, Optional
<1>7. CASE Create \/ \E t \in Texts : AssignError(t)
  BY <1>1, <1>7 DEF Create, AssignError
<1>8. QED
  BY <1>1, <1>2, <1>3, <1>4, <1>5, <1>6, <1>7 DEF TableNext

\* Whatever modifier a column is given, its row and its dump have their types:
\* in particular the scale of an object is never more than the maximum.
THEOREM TableTypeCorrect == TableSpec => []TableTypeOK
<1>1. TableInit => TableTypeOK
  BY DEF TableInit, TableTypeOK, Rows, Optional
<1>2. TableSpec => []ScaleFits
  BY TableImplementsTypmod, ScaleInvariant, PTL
<1>3. QED
  BY <1>1, <1>2, TableTypeNext, PTL DEF TableSpec

=============================================================================
