------------------------- MODULE FxyPtyTypmodProofs -------------------------
(***************************************************************************)
(* Proofs about the type modifier, for every width of its halves and every *)
(* maximum number of digits.                                               *)
(***************************************************************************)
EXTENDS FxyPtyTypmod, TLAPS

\* Quotient and remainder of a two-digit number to the base h.
LEMMA TwoHalves ==
  ASSUME NEW h \in Nat, h > 0, NEW a \in 0..(h - 1), NEW b \in 0..(h - 1)
  PROVE  /\ ((a * h) + b) \div h = a
         /\ ((a * h) + b) % h = b
         /\ a % h = a
<1>1. a * h \in Nat /\ h * a = a * h
  OBVIOUS
<1> DEFINE t == (a * h) + b
           Q == t \div h
           R == t % h
<1>2. Q \in Int /\ R \in 0..(h - 1) /\ t = (h * Q) + R
  <2>1. t \in Int
    BY <1>1
  <2> HIDE DEF t
  <2>2. QED
    BY <2>1, Z3
<1>3. t = (h * a) + b
  BY <1>1
<1> HIDE DEF t, Q, R
<1>4. h * (Q - a) = b - R
  BY <1>2, <1>3
<1>5. Q - a < 1 /\ Q - a > -1
  BY <1>2, <1>4
<1>6. Q = a /\ R = b
  BY <1>2, <1>4, <1>5
<1>7. a % h = a
  BY Z3
<1>8. QED
  BY <1>6, <1>7 DEF t, Q, R

\* The int32 of an accepted list whose fraction is not negative is a modifier,
\* and unpacking it gives the list back: fxypty_in_casted and
\* fxypty_typmod_out read what fxypty_typmod_in packed.
THEOREM DecodeEncode ==
  ASSUME NEW d \in 0..MaximumDigit, NEW f \in 0..d
  PROVE  /\ Encode(<<d, f>>) \in Nat
         /\ Encode(<<d, f>>) # NoTypmod
         /\ Decode(Encode(<<d, f>>)) = <<d, f>>
<1>1. /\ Half \in Nat /\ Half > 0
      /\ d \in 0..(Half - 1) /\ f \in 0..(Half - 1)
  BY TypmodAssumption
<1>2. Encode(<<d, f>>) = (d * Half) + f
  BY DEF Encode
<1>3. d * Half \in Nat
  BY <1>1
<1>4. Decode((d * Half) + f) = <<d, f>>
  BY <1>1, TwoHalves DEF Decode
<1>5. QED
  BY <1>1, <1>2, <1>3, <1>4 DEF NoTypmod

-----------------------------------------------------------------------------
(***************************************************************************)
(* The inductive invariant: from the declaration on, a column with a plain *)
(* modifier has the int32 of its declaration, and a dump of it shows the   *)
(* declaration.                                                            *)
(***************************************************************************)
Kept ==
  /\ pc \in {"column", "dumped"}
  /\ typmod = Encode(declared)
  /\ pc = "dumped" => dump = declared
  /\ cast # <<>> => cast = declared

IInv ==
  /\ declared \in Requests \union {<<>>}
  /\ pc = "ddl" => declared = <<>> /\ cast = <<>>
  /\ Plain => Kept

\* A plain modifier is a pair of digits and fraction, and is represented.
LEMMA PlainPair ==
  ASSUME NEW list \in Requests \union {<<>>}, Accepts(list), list[2] >= 0
  PROVE  /\ list = <<list[1], list[2]>>
         /\ list # <<>>
         /\ Encode(list) \in Nat /\ Encode(list) # NoTypmod
         /\ Decode(Encode(list)) = list
<1>1. list \in Seq(-Half .. Half - 1) /\ Len(list) = 2
  BY TypmodAssumption DEF Accepts
<1>2. list = <<list[1], list[2]>>
  BY <1>1
<1>3. list[1] \in 0..MaximumDigit /\ list[2] \in Int
  <2> DEFINE S == -Half .. Half - 1
  <2>1. list \in Seq(S) /\ 2 \in 1..Len(list)
    BY <1>1
  <2> HIDE DEF S
  <2>2. list[2] \in S
    BY <2>1
  <2>3. QED
    BY <2>2, TypmodAssumption DEF S, Accepts
<1>4. list[2] \in 0..list[1]
  BY <1>3, TypmodAssumption DEF Accepts
<1> DEFINE d == list[1]
           f == list[2]
<1>5. d \in 0..MaximumDigit /\ f \in 0..d /\ list = <<d, f>>
  BY <1>2, <1>3, <1>4
<1> HIDE DEF d, f
<1>6. /\ Encode(<<d, f>>) \in Nat
      /\ Encode(<<d, f>>) # NoTypmod
      /\ Decode(Encode(<<d, f>>)) = <<d, f>>
  BY <1>5, DecodeEncode
<1>7. list # <<>>
  <2>1. Len(list) = 2
    BY <1>1
  <2>2. Len(<<>>) # 2
    OBVIOUS
  <2>3. QED
    BY <2>1, <2>2, Zenon
<1>8. QED
  BY <1>2, <1>5, <1>6, <1>7

LEMMA KeptNext == IInv /\ [Next]_vars => IInv'
<1> SUFFICES ASSUME IInv, [Next]_vars PROVE IInv'
  OBVIOUS
<1>1. ASSUME NEW list \in Requests, Declare(list) PROVE IInv'
  <2>1. declared' = list /\ cast' = <<>> /\ pc' # "ddl"
    BY <1>1 DEF Declare, IInv
  <2>2. ASSUME Plain' PROVE Kept'
    <3>1. Accepts(list)
      BY <2>1, <2>2 DEF Plain
    <3>2. pc' = "column" /\ typmod' = Encode(list)
      BY <1>1, <3>1 DEF Declare
    <3>3. QED
      BY <2>1, <3>2 DEF Kept
  <2>3. QED
    BY <2>1, <2>2 DEF IInv
<1>7. CASE DeclareBare
  <2>1. declared' = <<>> /\ cast' = <<>> /\ pc' = "column"
    BY <1>7 DEF DeclareBare, IInv
  <2>2. ~Plain'
    BY <2>1 DEF Plain, Accepts
  <2>3. QED
    BY <2>1, <2>2 DEF IInv
<1>2. CASE Cast
  <2>1. declared' = declared /\ pc' = pc /\ pc = "column"
        /\ cast' = Decode(typmod) /\ typmod' = typmod
    BY <1>2 DEF Cast
  <2>2. ASSUME Plain' PROVE Kept'
    <3>1. Plain /\ Kept
      BY <2>1, <2>2 DEF Plain, IInv
    <3>2. cast' = declared
      BY <2>1, <3>1, PlainPair DEF Plain, Kept, IInv
    <3>3. QED
      BY <2>1, <3>1, <3>2 DEF Kept
  <2>3. QED
    BY <2>1, <2>2 DEF IInv
<1>3. CASE Dump
  <2>1. declared' = declared /\ pc' = "dumped" /\ cast' = cast /\ typmod' = typmod
        /\ dump' = IF typmod = NoTypmod THEN <<>> ELSE TypmodOut(typmod)
    BY <1>3 DEF Dump
  <2>2. ASSUME Plain' PROVE Kept'
    <3>1. Plain /\ Kept
      BY <2>1, <2>2 DEF Plain, IInv
    <3>2. typmod \in Nat /\ typmod # NoTypmod /\ Decode(typmod) = declared
      BY <3>1, PlainPair DEF Plain, Kept, IInv
    <3>3. dump' = declared
      BY <2>1, <3>2 DEF TypmodOut
    <3>4. QED
      BY <2>1, <3>1, <3>3 DEF Kept
  <2>3. QED
    BY <2>1, <2>2 DEF IInv
<1>4. CASE Restore
  <2>1. declared' = declared /\ pc = "dumped" /\ cast' = cast /\ dump' = dump
    BY <1>4 DEF Restore
  <2>2. pc' # "ddl"
    BY <1>4 DEF Restore
  <2>3. ASSUME Plain' PROVE Kept'
    <3>1. Plain /\ Kept
      BY <2>1, <2>3 DEF Plain, IInv
    <3>2. dump = declared /\ declared # <<>> /\ Accepts(declared)
      BY <2>1, <3>1, PlainPair DEF Plain, Kept, IInv
    <3>3. pc' = "column" /\ typmod' = Encode(declared)
      BY <1>4, <3>2 DEF Restore
    <3>4. QED
      BY <2>1, <3>1, <3>3 DEF Kept
  <2>4. QED
    BY <2>1, <2>2, <2>3 DEF IInv
<1>5. CASE UNCHANGED vars
  BY <1>5 DEF vars, IInv, Plain, Kept
<1>6. QED
  BY <1>1, <1>2, <1>3, <1>4, <1>5, <1>7 DEF Next

LEMMA KeptInvariant == Spec => []IInv
<1>1. Init => IInv
  BY DEF Init, IInv, Plain, Accepts
<1>2. QED
  BY <1>1, KeptNext, PTL DEF Spec

-----------------------------------------------------------------------------
(***************************************************************************)
(* Type correctness.                                                       *)
(***************************************************************************)
Halves == 0 .. Half - 1

\* Unpacking any modifier gives two halves.
LEMMA DecodeType ==
  ASSUME NEW t \in Int
  PROVE  Decode(t) \in Seq(Halves)
<1>1. Half \in Nat /\ Half > 0
  BY TypmodAssumption
<1>2. t \div Half \in Int
  BY <1>1, Z3
<1> DEFINE u == t \div Half
<1>3. u \in Int
  BY <1>2
<1> HIDE DEF u
<1>4. u % Half \in Halves /\ t % Half \in Halves
  BY <1>1, <1>3, Z3 DEF Halves
<1>5. <<u % Half, t % Half>> \in Seq(Halves)
  BY <1>4
<1>6. QED
  BY <1>5 DEF Decode, u

Typmods == -Half .. ((MaximumDigit + 1) * Half) - 1

\* The int32 of an accepted list is within the range of the type invariant.
LEMMA EncodeType ==
  ASSUME NEW list, Accepts(list), list[2] \in Int, list[2] >= -Half
  PROVE  Encode(list) \in Typmods
<1> DEFINE d == list[1]
           f == list[2]
<1>1. d \in 0..MaximumDigit /\ f \in Int /\ f <= d /\ f >= -Half
  BY TypmodAssumption DEF Accepts
<1>2. /\ Half \in Nat /\ MaximumDigit \in Nat /\ MaximumDigit < Half
      /\ Encode(list) = IF f >= 0 THEN (d * Half) + f ELSE f
  BY TypmodAssumption DEF Encode
<1> HIDE DEF d, f
<1>3. (MaximumDigit + 1) * Half = (MaximumDigit * Half) + Half
  BY <1>2
<1>4. d * Half \in Nat /\ d * Half <= MaximumDigit * Half /\ MaximumDigit * Half \in Nat
  BY <1>1, <1>2
<1> DEFINE m == MaximumDigit * Half
           n == d * Half
<1>5. n \in Nat /\ m \in Nat /\ n <= m
  BY <1>4
<1> HIDE DEF m, n
<1>6. (IF f >= 0 THEN n + f ELSE f) \in -Half .. (m + Half) - 1
  BY <1>1, <1>2, <1>5
<1>7. QED
  BY <1>2, <1>3, <1>6 DEF m, n, Typmods

LEMMA TypeNext == TypeOK /\ [Next]_vars => TypeOK'
<1> USE DEF Typmods, Halves
<1> SUFFICES ASSUME TypeOK, [Next]_vars PROVE TypeOK'
  OBVIOUS
<1>1. typmod \in Int
  BY TypmodAssumption DEF TypeOK
<1>2. ASSUME NEW list \in Requests, Declare(list) PROVE TypeOK'
  <2>1. Accepts(list) => Encode(list) \in Typmods
    <3> SUFFICES ASSUME Accepts(list) PROVE Encode(list) \in Typmods
      OBVIOUS
    <3> HIDE DEF Typmods, Halves
    <3>1. list \in Seq(-Half .. Half - 1) /\ Len(list) = 2
      BY TypmodAssumption DEF Accepts
    <3> DEFINE S == -Half .. Half - 1
    <3>2. list \in Seq(S) /\ 2 \in 1..Len(list)
      BY <3>1
    <3>3. S \subseteq Int
      BY TypmodAssumption
    <3> HIDE DEF S
    <3>4. list[2] \in S
      BY <3>2
    <3>5. list[2] \in Int /\ list[2] >= -Half
      BY <3>4, TypmodAssumption DEF S
    <3>6. QED
      BY <3>5, EncodeType
  <2>2. typmod' \in Typmods /\ pc' \in {"column", "rejected"}
    BY <1>2, <2>1 DEF Declare, TypeOK
  <2>3. QED
    BY <1>2, <2>2 DEF Declare, TypeOK
<1>3. CASE DeclareBare
  BY <1>3 DEF DeclareBare, TypeOK
<1>4. CASE Cast
  BY <1>1, <1>4, DecodeType DEF Cast, TypeOK
<1>5. CASE Dump
  <2>1. dump' \in Seq(Halves)
    <3>1. <<>> \in Seq(Halves) /\ Decode(typmod) \in Seq(Halves)
      BY <1>1, DecodeType
    <3>2. QED
      BY <1>5, <3>1 DEF Dump, TypmodOut
  <2>2. QED
    BY <1>5, <2>1 DEF Dump, TypeOK
<1>6. CASE Restore
  <2>1. Accepts(dump) => Encode(dump) \in Typmods
    <3> SUFFICES ASSUME Accepts(dump) PROVE Encode(dump) \in Typmods
      OBVIOUS
    <3>1. dump \in Seq(Halves) /\ 2 \in 1..Len(dump) /\ Halves \subseteq Int
      BY TypmodAssumption DEF TypeOK, Accepts
    <3> HIDE DEF Typmods, Halves
    <3>2. dump[2] \in Halves
      BY <3>1
    <3>3. dump[2] \in Int /\ dump[2] >= -Half
      BY <3>2, TypmodAssumption DEF Halves
    <3>4. QED
      BY <3>3, EncodeType
  <2>2. NoTypmod \in Typmods
    <3>1. Half > 0 /\ Half \in Nat /\ MaximumDigit \in Nat
      BY TypmodAssumption
    <3>2. (MaximumDigit + 1) * Half \in Nat
      BY <3>1
    <3>3. QED
      BY <3>1, <3>2 DEF NoTypmod
  <2>3. typmod' \in Typmods /\ pc' \in {"column", "rejected"}
    BY <1>6, <2>1, <2>2 DEF Restore, TypeOK
  <2>4. QED
    BY <1>6, <2>3 DEF Restore, TypeOK
<1>7. CASE UNCHANGED vars
  BY <1>7 DEF vars, TypeOK
<1>8. QED
  BY <1>2, <1>3, <1>4, <1>5, <1>6, <1>7 DEF Next

\* The modifier stays an int32 between the least fraction and the greatest
\* pair, and what is dumped or used by a cast are two halves, for every width.
THEOREM TypeCorrect == Spec => []TypeOK
<1>1. Init => TypeOK
  <2>1. Half > 0 /\ Half \in Nat /\ MaximumDigit \in Nat
    BY TypmodAssumption
  <2>2. (MaximumDigit + 1) * Half \in Nat
    BY <2>1
  <2>3. QED
    BY <2>1, <2>2 DEF Init, TypeOK, NoTypmod
<1>2. QED
  BY <1>1, TypeNext, PTL DEF Spec

\* A column keeps the modifier it was declared with through any number of
\* dumps and restores, for every width of the halves.
THEOREM ModifierKept == Spec => []Represented
<1>1. IInv => Represented
  BY PlainPair DEF IInv, Kept, Represented, Plain
<1>2. QED
  BY <1>1, KeptInvariant, PTL

\* Every cast to such a column takes its fractional digits from the
\* declaration.
CastAsDeclared == Plain /\ cast # <<>> => cast = declared

LEMMA CastKept == Spec => []CastAsDeclared
<1>1. IInv => CastAsDeclared
  BY DEF IInv, Kept, CastAsDeclared
<1>2. QED
  BY <1>1, KeptInvariant, PTL

=============================================================================
