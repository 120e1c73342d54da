-------------------------- MODULE FxyPtyOutProofs --------------------------
(***************************************************************************)
(* Proofs about the digit loops of _fxypty_out.                            *)
(***************************************************************************)
EXTENDS FxyPtyOut, FxyPtyNumbersProofs, TLAPS

hi == word["hi"]
lo == word["lo"]
int == text["int"]
frac == text["frac"]

\* The numbers below this bound are those whose high word is an int64_t.
Bound == HalfWord * Pow[LoDigits]

(***************************************************************************)
(* The inductive invariant has three parts.  TypeInv holds for every value *)
(* and every scale, also one that no cast gives: nothing is written past   *)
(* the start of tmp before the step on which the model stops.              *)
(***************************************************************************)
TypeInv == TypeOK /\ Used <= BufSize

(***************************************************************************)
(* SizeInv holds for every value, at a scale that a cast gives: in each    *)
(* loop it relates the digits written, the digits still to be counted off, *)
(* and the size of the word they are taken from, so that no text has more  *)
(* than MaxDigits digits.                                                  *)
(***************************************************************************)
SizeInv ==
  /\ TypeOK
  /\ scale <= MaxDigits
  /\ pc # "overrun"
  /\ left \in Nat
  /\ frac.len <= scale
  /\ frac.len + int.len <= MaxDigits
  /\ pc = "call" => int = NoDigits /\ frac = NoDigits /\ ~garbled
  /\ pc = "frac_lo" =>
       /\ int.len = 0
       /\ frac.len + left = IF hi # 0 /\ scale > LoDigits THEN LoDigits ELSE scale
       /\ lo * Pow[frac.len] < Bound
       /\ hi < HalfWord
  /\ pc = "frac_hi" =>
       /\ int.len = 0
       /\ frac.len + left = scale
       /\ hi * Pow[frac.len] < Bound
  /\ pc = "int_lo" =>
       /\ frac.len = scale
       /\ scale + int.len + left = LoDigits
       /\ hi < HalfWord
  /\ pc = "tail_lo" => frac.len = scale /\ lo * Pow[scale + int.len] < Bound
  /\ pc = "tail_hi" => frac.len = scale /\ hi * Pow[scale + int.len] < Bound
  /\ pc = "done" => frac.len = scale

(***************************************************************************)
(* ValueInv holds for the values that fit, at such a scale, from the split *)
(* on: the digits still held by the words, each word weighted by the power *)
(* at which its next digit will be written, and the digits already written *)
(* add up to the absolute value.                                           *)
(***************************************************************************)
Written == (int.num * Pow[frac.len]) + frac.num

\* The first digit of the integer part is not zero.
LeadingDigit == int.len > 0 => int.num >= Pow[int.len - 1]

\* In a tail loop the word w holds all digits that are not yet written.
TailInv(w) ==
  /\ (w * Pow[scale + int.len]) + Written = Magnitude(value)
  /\ w = 0 => (int.len > 0 /\ LeadingDigit)

ValueInv ==
  /\ ~garbled
  /\ hi \in Nat /\ lo \in Nat
  /\ frac.num \in 0..(Pow[frac.len] - 1)
  /\ int.num \in Nat
  /\ int.len = 0 => int.num = 0
  /\ pc = "frac_lo" =>
       /\ (hi * Pow[LoDigits]) + ((lo * Pow[frac.len]) + frac.num) = Magnitude(value)
       /\ (lo * Pow[frac.len]) + frac.num < Pow[LoDigits]
  /\ pc = "frac_hi" => (hi * Pow[frac.len]) + frac.num = Magnitude(value)
  /\ pc = "int_lo" =>
       /\ hi # 0
       /\ (hi * Pow[LoDigits]) + ((lo * Pow[scale + int.len]) + Written)
            = Magnitude(value)
       /\ (lo * Pow[scale + int.len]) + Written < Pow[LoDigits]
  /\ pc = "tail_lo" => TailInv(lo)
  /\ pc = "tail_hi" => TailInv(hi)
  /\ pc = "done" => Written = Magnitude(value) /\ LeadingDigit

CastInv == OfCast => SizeInv

IInv == TypeInv /\ CastInv /\ (pc # "call" /\ OfCast /\ Fits(value) => ValueInv)

-----------------------------------------------------------------------------
LEMMA LoType ==
  /\ LoDigits \in 0..MaxPow /\ MaxDigits \in 0..MaxPow
  /\ Pow[LoDigits] \in Nat /\ Pow[LoDigits] > 0
  /\ ChunkDigits \in 1..LoDigits
  BY NumbersAssumption, OutAssumption, PowType

\* The conversion of a uint32_t to an int: it keeps what a cast can give, and
\* always gives an int.
LEMMA IntType ==
  /\ HalfInt \in Nat /\ MaxDigits < HalfInt /\ IntWord = 2 * HalfInt
  /\ \A v \in Int : ToInt(v) \in -HalfInt .. HalfInt - 1
  /\ \A v \in 0..MaxDigits : ToInt(v) = v
<1>1. HalfInt \in Nat /\ HalfInt > 0 /\ MaxDigits < HalfInt /\ IntWord = 2 * HalfInt
  <2>1. IntWord \in Nat /\ IntWord % 2 = 0 /\ MaxDigits \in Nat /\ MaxDigits < HalfInt
    BY OutAssumption, NumbersAssumption
  <2>2. IntWord \div 2 \in Int /\ IntWord = (2 * (IntWord \div 2)) + (IntWord % 2)
    BY <2>1, DivMod
  <2>3. QED
    BY <2>1, <2>2 DEF HalfInt
<1>2. ASSUME NEW v \in Int PROVE ToInt(v) \in -HalfInt .. HalfInt - 1
  <2>1. v + HalfInt \in Int /\ IntWord \in Nat /\ IntWord > 0
    BY <1>1
  <2>2. (v + HalfInt) % IntWord \in 0..(IntWord - 1)
    BY <2>1, DivMod
  <2>3. QED
    BY <1>1, <2>2 DEF ToInt
<1>3. ASSUME NEW v \in 0..MaxDigits PROVE ToInt(v) = v
  <2>1. v + HalfInt \in 0..(IntWord - 1) /\ IntWord \in Nat /\ IntWord > 0
    BY <1>1, NumbersAssumption
  <2>2. (v + HalfInt) % IntWord = v + HalfInt
    BY <2>1, DivModUnique, v + HalfInt = (IntWord * 0) + (v + HalfInt)
  <2>3. QED
    BY <1>1, <2>2, NumbersAssumption DEF ToInt
<1>4. QED
  BY <1>1, <1>2, <1>3

\* The types of what the invariants speak about.
LEMMA SizeTypes ==
  ASSUME TypeOK
  PROVE  /\ hi \in Int /\ lo \in Int
         /\ frac.len \in Nat /\ frac.num \in Int
         /\ int.len \in Nat /\ int.num \in Int
         /\ scale \in Nat /\ scale < IntWord /\ left \in Int
         /\ MaxDigits \in Nat /\ MaxDigits < MaxPow
         /\ MaxPow \in Nat
<1>1. scale \in 0..(IntWord - 1) /\ IntWord \in Nat
  BY OutAssumption DEF TypeOK
<1>2. left \in Int
  BY IntType DEF TypeOK
<1>3. QED
  BY <1>1, <1>2, NumbersAssumption DEF TypeOK, Words, Parts, hi, lo, frac, int

\* The counter is at a multiple of a chunk when it is at the least int, or 0.
LEMMA ChunkMultiples == 0 % ChunkDigits = 0 /\ (-HalfInt) % ChunkDigits = 0
<1>1. ChunkDigits \in Nat /\ ChunkDigits > 0 /\ HalfInt \in Nat /\ HalfInt % ChunkDigits = 0
  BY LoType, IntType, OutAssumption
<1>2. 0 % ChunkDigits = 0
  BY <1>1, DivModUnique, 0 = (ChunkDigits * 0) + 0
<1> DEFINE k == HalfInt \div ChunkDigits
<1>3. k \in Int /\ HalfInt = (ChunkDigits * k) + (HalfInt % ChunkDigits)
  BY <1>1, DivMod
<1> HIDE DEF k
<1> DEFINE n == -HalfInt
           q == -k
<1>4. n = (ChunkDigits * q) + 0 /\ q \in Int /\ n \in Int /\ 0 \in 0..(ChunkDigits - 1)
  BY <1>1, <1>3
<1> HIDE DEF n, q
<1>5. n % ChunkDigits = 0
  BY <1>1, <1>4, DivModUnique
<1>6. QED
  BY <1>2, <1>5 DEF n

\* A counted loop takes some digits at a time, never more than are left of a
\* counter that is not negative, and the counter stays an int.
LEMMA CountedStep ==
  ASSUME TypeOK, NEW phase \in Counted,
         CountedDigit(phase) \/ CountedChunk(phase)
  PROVE  \E c \in 1..MaxPow :
           /\ pc = phase
           /\ left \in Nat => c <= left
           /\ Write(phase, c)
           /\ left' = left - c
           /\ left' \in -HalfInt .. HalfInt - 1
           /\ UNCHANGED <<value, scale>>
<1>1. /\ left \in -HalfInt .. HalfInt - 1 /\ HalfInt \in Nat
      /\ ChunkDigits \in Nat /\ ChunkDigits > 0 /\ ChunkDigits <= HalfInt
  BY LoType, IntType, OutAssumption, NumbersAssumption DEF TypeOK
<1>2. 1 \in 1..MaxPow /\ ChunkDigits \in 1..MaxPow
  BY LoType, NumbersAssumption
<1>3. CASE CountedDigit(phase)
  <2>1. left # 0 /\ left # -HalfInt
    BY <1>3, ChunkMultiples DEF CountedDigit
  <2>2. left' = left - 1 /\ left' \in -HalfInt .. HalfInt - 1
    BY <1>1, <1>3, <2>1 DEF CountedDigit
  <2>3. left \in Nat => 1 <= left
    BY <1>1, <2>1
  <2>4. QED
    BY <1>2, <1>3, <2>2, <2>3 DEF CountedDigit
<1>4. CASE CountedChunk(phase)
  <2>1. left >= ChunkDigits
    <3> DEFINE q == left \div ChunkDigits
    <3>1. q \in Int /\ left = (ChunkDigits * q) + (left % ChunkDigits)
      BY <1>1, left \in Int, DivMod
    <3>2. left = ChunkDigits * q /\ left > 0
      BY <1>1, <1>4, <3>1 DEF CountedChunk
    <3> HIDE DEF q
    <3>3. q >= 1
      BY <1>1, <3>1, <3>2
    <3>4. QED
      BY <1>1, <3>1, <3>2, <3>3
  <2>2. left' = left - ChunkDigits /\ left' \in -HalfInt .. HalfInt - 1
    BY <1>1, <1>4, <2>1 DEF CountedChunk
  <2>3. QED
    BY <1>2, <1>4, <2>1, <2>2 DEF CountedChunk
<1>5. QED
  BY <1>3, <1>4

\* While a text has at most MaxDigits digits there is room for them, and for
\* the dot.
LEMMA RoomInBuffer ==
  ASSUME TypeOK, NEW c \in Nat, frac.len + int.len + c <= MaxDigits + 1
  PROVE  Room(c)
  BY SizeTypes, OutAssumption DEF Room, Used, frac, int

\* For an object made by a cast the digits that a counted loop takes have room.
LEMMA CountedEmit ==
  ASSUME SizeInv, NEW phase \in Counted,
         CountedDigit(phase) \/ CountedChunk(phase)
  PROVE  \E c \in 1..MaxPow :
           /\ pc = phase
           /\ c <= left
           /\ Emit(phase, c)
           /\ left' = left - c
           /\ UNCHANGED <<pc, value, scale>>
<1>1. TypeOK /\ scale <= MaxDigits /\ left \in Nat
  BY DEF SizeInv
<1>2. PICK c \in 1..MaxPow :
        /\ pc = phase
        /\ c <= left
        /\ Write(phase, c)
        /\ left' = left - c
        /\ UNCHANGED <<value, scale>>
  BY <1>1, CountedStep
<1>3. frac.len + int.len + left <= MaxDigits
  <2>1. phase \in {"frac_lo", "frac_hi", "int_lo"} /\ pc = phase
    BY <1>2 DEF Counted
  <2>2. QED
    BY <1>1, <2>1, SizeTypes, LoType, OutAssumption DEF SizeInv
<1>4. c \in Nat /\ frac.len + int.len + c <= MaxDigits
  BY <1>1, <1>2, <1>3, SizeTypes
<1>5. frac.len + int.len + c <= MaxDigits + 1
  BY <1>1, <1>4, SizeTypes
<1>6. Room(c)
  BY <1>1, <1>4, <1>5, RoomInBuffer
<1>7. QED
  BY <1>2, <1>6 DEF Write

\* From a word that is not negative, Emit moves the remainder to the text.
LEMMA EmitStep ==
  ASSUME garbled \in BOOLEAN,
         NEW phase, NEW c \in 0..MaxPow, Emit(phase, c),
         NEW w \in Nat, w = word[WordOf(phase)]
  PROVE  \E q \in Nat, r \in Nat :
           /\ r < Pow[c]
           /\ w = (q * Pow[c]) + r
           /\ word' = [word EXCEPT ![WordOf(phase)] = q]
           /\ text' = [text EXCEPT ![PartOf(phase)] = Push(@, Entry(r, c))]
           /\ garbled' = garbled
<1> DEFINE q == w \div Pow[c]
           r == w % Pow[c]
<1>1. Pow[c] \in Nat /\ Pow[c] > 0
  BY PowType
<1>2. q \in Int /\ r \in 0..(Pow[c] - 1) /\ w = (Pow[c] * q) + r
  BY <1>1, w \in Int, DivMod
<1>3. CDiv(w, Pow[c]) = q /\ CMod(w, Pow[c]) = r
  BY DEF CDiv, CMod
<1>4. /\ word' = [word EXCEPT ![WordOf(phase)] = q]
      /\ text' = [text EXCEPT ![PartOf(phase)] = Push(@, Entry(r, c))]
      /\ garbled' = (garbled \/ r < 0)
  BY <1>3 DEF Emit
<1>5. garbled' = (garbled \/ r < 0) /\ ~(r < 0)
  BY <1>1, <1>2, <1>4
<1> HIDE DEF q, r
<1>6. q >= 0
  <2>1. SUFFICES ASSUME q <= -1 PROVE FALSE
    BY <1>2
  <2>2. Pow[c] * q <= -Pow[c]
    BY <1>1, <1>2, <2>1
  <2>3. QED
    BY <1>1, <1>2, <2>2
<1>7. q \in Nat /\ r \in Nat /\ r < Pow[c] /\ w = (q * Pow[c]) + r
  BY <1>1, <1>2, <1>6
<1>8. garbled' = garbled
  BY <1>5
<1>9. QED
  BY <1>4, <1>7, <1>8

\* Taking c digits off a word keeps the number that the word, at the power
\* n, and the n digits num below it make up.
LEMMA TakeDigits ==
  ASSUME NEW n \in Nat, NEW c \in Nat, n + c <= MaxPow,
         NEW num \in 0..(Pow[n] - 1),
         NEW q \in Nat, NEW r \in Nat, r < Pow[c]
  PROVE  /\ (((q * Pow[c]) + r) * Pow[n]) + num
               = (q * Pow[n + c]) + (num + (r * Pow[n]))
         /\ num + (r * Pow[n]) \in 0..(Pow[n + c] - 1)
<1> DEFINE P == Pow[n]
           C == Pow[c]
<1>1. P \in Nat /\ P > 0 /\ C \in Nat /\ C > 0
  BY PowType, NumbersAssumption
<1>2. Pow[n + c] = P * C
  BY PowSum
<1>3. num \in 0..(P - 1) /\ r < C
  OBVIOUS
<1> HIDE DEF P, C
<1>4. (((q * C) + r) * P) + num = (q * (P * C)) + (num + (r * P))
  BY <1>1, <1>3
<1>5. r * P <= (C - 1) * P
  BY <1>1, <1>3
<1>6. num + (r * P) \in 0..((P * C) - 1)
  BY <1>1, <1>3, <1>5
<1>7. QED
  BY <1>2, <1>4, <1>6 DEF P, C

-----------------------------------------------------------------------------
(***************************************************************************)
(* The sizes, for every value.                                             *)
(***************************************************************************)
LEMMA BoundType == Bound \in Nat /\ Bound > 0 /\ Bound <= Pow[MaxDigits]
<1>1. HalfWord \in Nat /\ HalfWord > 0 /\ Pow[LoDigits] \in Nat /\ Pow[LoDigits] > 0
  BY HalfWordType, LoType
<1>2. HalfWord * Pow[LoDigits] \in Nat /\ HalfWord * Pow[LoDigits] > 0
  BY <1>1
<1>3. QED
  BY <1>2, OutAssumption DEF Bound

\* The quotient, weighted by the power its digits are now at, is no larger.
LEMMA QuotientBound ==
  ASSUME NEW w \in Int, NEW n \in Nat, NEW c \in Nat, n + c <= MaxPow,
         w * Pow[n] < Bound
  PROVE  CDiv(w, Pow[c]) * Pow[n + c] < Bound
<1> DEFINE P == Pow[n]
           C == Pow[c]
           q == CDiv(w, C)
<1>1. P \in Nat /\ P > 0 /\ C \in Nat /\ C > 0
  BY PowType, NumbersAssumption
<1>2. Pow[n + c] = P * C
  BY PowSum
<1>3. q \in Int /\ (q > 0 => q * C <= w)
  <2>1. CASE w >= 0
    <3>1. w \div C \in Int /\ w % C \in 0..(C - 1) /\ w = (C * (w \div C)) + (w % C)
      BY <1>1, DivMod
    <3>2. q = w \div C
      BY <2>1 DEF CDiv
    <3> HIDE DEF C, q
    <3>3. QED
      BY <1>1, <3>1, <3>2
  <2>2. CASE w < 0
    <3> DEFINE m == (-w) \div C
    <3>1. m \in Int /\ (-w) % C \in 0..(C - 1) /\ -w = (C * m) + ((-w) % C)
      BY <1>1, -w \in Int, DivMod
    <3>2. q = -m
      BY <2>2 DEF CDiv
    <3> HIDE DEF C, q, m
    <3>3. m >= 0
      <4>1. SUFFICES ASSUME m <= -1 PROVE FALSE
        BY <3>1
      <4>2. C * m <= -C
        BY <1>1, <3>1, <4>1
      <4>3. QED
        BY <1>1, <2>2, <3>1, <4>2
    <3>4. QED
      BY <3>1, <3>2, <3>3
  <2>3. QED
    BY <2>1, <2>2
<1>4. w * P < Bound /\ Bound > 0
  BY BoundType
<1>5. SUFFICES q * (P * C) < Bound
  BY <1>2
<1> HIDE DEF P, C, q
<1>6. CASE q > 0
  <2>1. (q * C) * P <= w * P
    BY <1>1, <1>3, <1>6
  <2>2. q * (P * C) = (q * C) * P
    BY <1>1, <1>3
  <2>3. QED
    BY <1>1, <1>3, <1>4, <2>1, <2>2, BoundType
<1>7. CASE q <= 0
  <2>1. q * (P * C) <= 0
    BY <1>1, <1>3, <1>7
  <2>2. QED
    BY <1>1, <1>3, <1>4, <2>1, BoundType
<1>8. QED
  BY <1>3, <1>6, <1>7

\* A word with a digit left at the power n + c - 1 leaves room for c digits.
LEMMA RoomForDigits ==
  ASSUME NEW w \in Nat, NEW n \in 0..MaxDigits, NEW c \in 1..MaxPow,
         w >= Pow[c - 1], w * Pow[n] < Bound
  PROVE  n + c <= MaxDigits
<1>1. SUFFICES ASSUME n + c > MaxDigits PROVE FALSE
  BY NumbersAssumption
<1> DEFINE d == MaxDigits - n
<1>2. d \in 0..MaxPow /\ c - 1 \in 0..MaxPow /\ d <= c - 1 /\ n \in 0..MaxPow
  BY <1>1, NumbersAssumption
<1>3. Pow[MaxDigits] = Pow[n] * Pow[d]
  <2>1. n + d = MaxDigits /\ n \in Nat /\ d \in Nat
    BY <1>2, NumbersAssumption
  <2>2. QED
    BY <2>1, PowSum, NumbersAssumption
<1>4. Pow[d] <= Pow[c - 1]
  BY <1>2, PowMonotone
<1>5. /\ Pow[n] \in Nat /\ Pow[n] > 0
      /\ Pow[d] \in Nat /\ Pow[c - 1] \in Nat
  BY <1>2, PowType
<1> HIDE DEF d
<1>6. Pow[d] <= w
  BY <1>4, <1>5
<1>7. Pow[n] * Pow[d] <= w * Pow[n]
  BY <1>5, <1>6
<1>8. w * Pow[n] \in Int /\ Pow[n] * Pow[d] \in Int
  BY <1>5
<1>9. QED
  BY <1>3, <1>7, <1>8, BoundType

LEMMA CDivType ==
  ASSUME NEW a \in Int, NEW c \in 0..MaxPow
  PROVE  CDiv(a, Pow[c]) \in Int /\ CMod(a, Pow[c]) \in Int
<1>1. Pow[c] \in Nat /\ Pow[c] > 0 /\ -a \in Int
  BY PowType
<1>2. /\ a \div Pow[c] \in Int /\ a % Pow[c] \in Int
      /\ (-a) \div Pow[c] \in Int /\ (-a) % Pow[c] \in Int
  BY <1>1, DivMod
<1>3. QED
  BY <1>2 DEF CDiv, CMod

\* What Emit does to the types, to the words and to the lengths.
LEMMA EmitSize ==
  ASSUME TypeOK, NEW phase \in Phases, NEW c \in 0..MaxPow, Emit(phase, c),
         text[PartOf(phase)].len <= MaxPow
  PROVE  /\ word' \in [Words -> Int]
         /\ text' \in [Parts -> [len : Nat, num : Int]]
         /\ garbled' \in BOOLEAN
         /\ word'[WordOf(phase)] = CDiv(word[WordOf(phase)], Pow[c])
         /\ \A u \in Words : u # WordOf(phase) => word'[u] = word[u]
         /\ \A p \in Parts : text'[p].len
              = IF p = PartOf(phase) THEN text[p].len + c ELSE text[p].len
<1> DEFINE w == word[WordOf(phase)]
           t == text[PartOf(phase)]
           q == CDiv(w, Pow[c])
           r == CMod(w, Pow[c])
<1>1. WordOf(phase) \in Words /\ PartOf(phase) \in Parts
  BY DEF WordOf, PartOf, Words, Parts
<1>2. w \in Int /\ t \in [len : Nat, num : Int]
  BY <1>1 DEF TypeOK
<1>3. q \in Int /\ r \in Int
  BY <1>2, CDivType
<1>4. /\ word' = [word EXCEPT ![WordOf(phase)] = q]
      /\ text' = [text EXCEPT ![PartOf(phase)] = Push(t, Entry(r, c))]
      /\ garbled' = (garbled \/ r < 0)
  BY DEF Emit
<1>5. Push(t, Entry(r, c)) \in [len : Nat, num : Int] /\ Push(t, Entry(r, c)).len = t.len + c
  <2> HIDE DEF r, t
  <2>1. t.len \in Nat /\ t.num \in Int /\ c \in Nat /\ t.len + c \in Nat
    BY <1>2
  <2>2. Pow[t.len] \in Int
    BY <2>1, t.len \in 0..MaxPow, PowType DEF t
  <2>3. t.num + (r * Pow[t.len]) \in Int
    BY <1>3, <2>1, <2>2
  <2>4. QED
    BY <2>1, <2>3 DEF Push, Entry
<1>6. /\ word \in [Words -> Int]
      /\ text \in [Parts -> [len : Nat, num : Int]]
  BY DEF TypeOK
<1> HIDE DEF t, q, r
<1>7. QED
  BY <1>1, <1>3, <1>4, <1>5, <1>6 DEF t, w, q

LEMMA TypeInit == Init => TypeOK
<1> SUFFICES ASSUME Init PROVE TypeOK
  OBVIOUS
<1>1. NoDigits \in [len : Nat, num : Int]
  BY DEF NoDigits
<1>2. "call" \in Phases
  BY DEF Phases
<1>3. text \in [Parts -> [len : Nat, num : Int]]
  BY <1>1 DEF Init
<1>4. word \in [Words -> Int]
  BY DEF Init
<1>5. garbled \in BOOLEAN
  BY DEF Init
<1>6. left \in -HalfInt .. HalfInt - 1
  BY IntType, NumbersAssumption DEF Init
<1>7. QED
  BY <1>2, <1>3, <1>4, <1>5, <1>6 DEF Init, TypeOK

LEMMA SizeInit == Init => TypeInv /\ CastInv
<1> SUFFICES ASSUME Init PROVE TypeInv /\ CastInv
  OBVIOUS
<1>1. TypeOK /\ int = NoDigits /\ frac = NoDigits
  BY TypeInit DEF Init, int, frac, Parts
<1>2. TypeInv
  BY <1>1, NumbersAssumption, OutAssumption
     DEF TypeInv, Used, NoDigits, int, frac, Init, Tail
<1>3. CastInv
  <2>1. scale \in Nat /\ MaxDigits \in Nat /\ int.len = 0 /\ frac.len = 0
    BY <1>1, SizeTypes DEF NoDigits
  <2>2. pc = "call" /\ left \in Nat /\ ~garbled
    BY DEF Init
  <2>3. QED
    BY <1>1, <2>1, <2>2 DEF CastInv, OfCast, SizeInv
<1>4. QED
  BY <1>2, <1>3

LEMMA SizeFracLo ==
  ASSUME SizeInv, CountedDigit("frac_lo") \/ CountedChunk("frac_lo")
  PROVE  SizeInv'
<1>1. TypeOK /\ scale <= MaxDigits /\ left \in Nat
  BY DEF SizeInv
<1>2. "frac_lo" \in Counted /\ "frac_lo" \in Phases
  BY DEF Counted, Phases
<1>3. PICK c \in 1..MaxPow :
        /\ pc = "frac_lo" /\ c <= left
        /\ Emit("frac_lo", c)
        /\ left' = left - c
        /\ UNCHANGED <<pc, value, scale>>
  BY <1>2, CountedEmit
<1>4. /\ int.len = 0 /\ hi < HalfWord
      /\ frac.len + left = IF hi # 0 /\ scale > LoDigits THEN LoDigits ELSE scale
      /\ lo * Pow[frac.len] < Bound
  BY <1>3 DEF SizeInv
<1>5. left \in Nat /\ frac.len + c <= scale
  BY <1>1, <1>3, <1>4, SizeTypes, LoType DEF TypeOK
<1>6. /\ word' \in [Words -> Int] /\ garbled' \in BOOLEAN
      /\ text' \in [Parts -> [len : Nat, num : Int]]
      /\ hi' = hi /\ lo' = CDiv(lo, Pow[c])
      /\ int.len' = int.len /\ frac.len' = frac.len + c
  BY <1>1, <1>2, <1>3, <1>5, SizeTypes, EmitSize
     DEF WordOf, PartOf, Words, Parts, hi, lo, int, frac
<1>7. lo' * Pow[frac.len'] < Bound
  <2>1. lo \in Int /\ frac.len \in Nat /\ c \in Nat /\ frac.len + c <= MaxPow
    BY <1>1, <1>5, SizeTypes
  <2>2. CDiv(lo, Pow[c]) * Pow[frac.len + c] < Bound
    BY <1>4, <2>1, QuotientBound
  <2>3. QED
    BY <1>6, <2>2
<1>8. TypeOK'
  BY <1>1, <1>3, <1>5, <1>6, IntType DEF TypeOK
<1>9. /\ frac.len' <= scale' /\ frac.len' + int.len' <= MaxDigits
      /\ frac.len' + left' = frac.len + left
      /\ left' \in Nat /\ scale' <= MaxDigits
  BY <1>1, <1>3, <1>4, <1>5, <1>6, SizeTypes
<1>10. QED
  BY <1>3, <1>4, <1>6, <1>7, <1>8, <1>9 DEF SizeInv, Bound

LEMMA SizeFracHi ==
  ASSUME SizeInv, CountedDigit("frac_hi") \/ CountedChunk("frac_hi")
  PROVE  SizeInv'
<1>1. TypeOK /\ scale <= MaxDigits /\ left \in Nat
  BY DEF SizeInv
<1>2. "frac_hi" \in Counted /\ "frac_hi" \in Phases
  BY DEF Counted, Phases
<1>3. PICK c \in 1..MaxPow :
        /\ pc = "frac_hi" /\ c <= left
        /\ Emit("frac_hi", c)
        /\ left' = left - c
        /\ UNCHANGED <<pc, value, scale>>
  BY <1>2, CountedEmit
<1>4. /\ int.len = 0
      /\ frac.len + left = scale
      /\ hi * Pow[frac.len] < Bound
  BY <1>3 DEF SizeInv
<1>5. left \in Nat /\ frac.len + c <= scale
  BY <1>1, <1>3, <1>4, SizeTypes DEF TypeOK
<1>6. /\ word' \in [Words -> Int] /\ garbled' \in BOOLEAN
      /\ text' \in [Parts -> [len : Nat, num : Int]]
      /\ lo' = lo /\ hi' = CDiv(hi, Pow[c])
      /\ int.len' = int.len /\ frac.len' = frac.len + c
  BY <1>1, <1>2, <1>3, <1>5, SizeTypes, EmitSize
     DEF WordOf, PartOf, Words, Parts, hi, lo, int, frac
<1>7. hi' * Pow[frac.len'] < Bound
  <2>1. hi \in Int /\ frac.len \in Nat /\ c \in Nat /\ frac.len + c <= MaxPow
    BY <1>1, <1>5, SizeTypes
  <2>2. CDiv(hi, Pow[c]) * Pow[frac.len + c] < Bound
    BY <1>4, <2>1, QuotientBound
  <2>3. QED
    BY <1>6, <2>2
<1>8. TypeOK'
  BY <1>1, <1>3, <1>5, <1>6, IntType DEF TypeOK
<1>9. /\ frac.len' <= scale' /\ frac.len' + int.len' <= MaxDigits
      /\ frac.len' + left' = scale'
      /\ left' \in Nat /\ scale' <= MaxDigits
  BY <1>1, <1>3, <1>4, <1>5, <1>6, SizeTypes
<1>10. QED
  BY <1>3, <1>4, <1>6, <1>7, <1>8, <1>9 DEF SizeInv, Bound

LEMMA SizeIntLo ==
  ASSUME SizeInv, CountedDigit("int_lo") \/ CountedChunk("int_lo")
  PROVE  SizeInv'
<1>1. TypeOK /\ scale <= MaxDigits /\ left \in Nat
  BY DEF SizeInv
<1>2. "int_lo" \in Counted /\ "int_lo" \in Phases
  BY DEF Counted, Phases
<1>3. PICK c \in 1..MaxPow :
        /\ pc = "int_lo" /\ c <= left
        /\ Emit("int_lo", c)
        /\ left' = left - c
        /\ UNCHANGED <<pc, value, scale>>
  BY <1>2, CountedEmit
<1>4. /\ frac.len = scale /\ hi < HalfWord
      /\ scale + int.len + left = LoDigits
  BY <1>3 DEF SizeInv
<1>5. left \in Nat /\ scale + int.len + c <= LoDigits
  BY <1>1, <1>3, <1>4, SizeTypes, LoType DEF TypeOK
<1>6. /\ word' \in [Words -> Int] /\ garbled' \in BOOLEAN
      /\ text' \in [Parts -> [len : Nat, num : Int]]
      /\ hi' = hi
      /\ frac.len' = frac.len /\ int.len' = int.len + c
  BY <1>1, <1>2, <1>3, <1>5, SizeTypes, LoType, EmitSize
     DEF WordOf, PartOf, Words, Parts, hi, lo, int, frac
<1>7. TypeOK'
  BY <1>1, <1>3, <1>5, <1>6, IntType DEF TypeOK
<1>8. /\ frac.len' = scale' /\ frac.len' + int.len' <= MaxDigits
      /\ scale' + int.len' + left' = LoDigits
      /\ left' \in Nat /\ scale' <= MaxDigits
  BY <1>1, <1>3, <1>4, <1>5, <1>6, SizeTypes, LoType, OutAssumption
<1>9. QED
  BY <1>3, <1>4, <1>6, <1>7, <1>8, SizeTypes, <1>1 DEF SizeInv

\* A tail loop takes one digit or a chunk, while the word has that many left.
LEMMA TailStep ==
  ASSUME TypeOK, NEW phase \in Tail, TailChunk(phase) \/ TailDigit(phase)
  PROVE  \E c \in 1..MaxPow :
           /\ pc = phase
           /\ word[WordOf(phase)] >= Pow[c - 1]
           /\ word[WordOf(phase)] > Pow[c] \/ c = 1
           /\ Write(phase, c)
           /\ UNCHANGED <<value, scale, left>>
<1> DEFINE w == word[WordOf(phase)]
<1>1. w \in Int
  BY DEF TypeOK, WordOf, Words
<1>2. 1 \in 1..MaxPow /\ ChunkDigits \in 1..MaxPow /\ ChunkDigits - 1 \in 0..MaxPow
  BY LoType, NumbersAssumption
<1>3. CASE TailDigit(phase)
  <2>1. w >= Pow[1 - 1]
    BY <1>1, <1>3, PowAssumption DEF TailDigit
  <2>2. QED
    BY <1>2, <1>3, <2>1 DEF TailDigit
<1>4. CASE TailChunk(phase)
  <2>1. Pow[ChunkDigits - 1] <= Pow[ChunkDigits]
    BY <1>2, PowMonotone
  <2>2. /\ Pow[ChunkDigits - 1] \in Nat /\ Pow[ChunkDigits] \in Nat
        /\ w > Pow[ChunkDigits]
    BY <1>2, <1>4, PowType DEF TailChunk
  <2>3. w >= Pow[ChunkDigits - 1]
    BY <1>1, <2>1, <2>2
  <2>4. QED
    BY <1>2, <1>4, <2>2, <2>3 DEF TailChunk
<1>5. QED
  BY <1>3, <1>4

\* For an object made by a cast they have room.
LEMMA TailEmit ==
  ASSUME SizeInv, NEW phase \in Tail, TailChunk(phase) \/ TailDigit(phase)
  PROVE  \E c \in 1..MaxPow :
           /\ pc = phase
           /\ word[WordOf(phase)] >= Pow[c - 1]
           /\ word[WordOf(phase)] > Pow[c] \/ c = 1
           /\ Emit(phase, c)
           /\ scale + int.len + c <= MaxDigits
           /\ UNCHANGED <<pc, value, scale, left>>
<1> DEFINE w == word[WordOf(phase)]
<1>1. TypeOK /\ scale <= MaxDigits
  BY DEF SizeInv
<1>2. /\ phase = "tail_lo" \/ phase = "tail_hi"
      /\ (phase = "tail_lo" => w = lo) /\ (phase = "tail_hi" => w = hi)
  BY DEF Tail, WordOf, lo, hi
<1>3. PICK c \in 1..MaxPow :
        /\ pc = phase
        /\ w >= Pow[c - 1]
        /\ w > Pow[c] \/ c = 1
        /\ Write(phase, c)
        /\ UNCHANGED <<value, scale, left>>
  BY <1>1, TailStep
<1>4. frac.len = scale /\ w * Pow[scale + int.len] < Bound /\ scale + int.len <= MaxDigits
  BY <1>2, <1>3 DEF SizeInv
<1>5. w \in Nat
  <2>1. w \in Int /\ Pow[c - 1] \in Nat
    BY <1>1, <1>2, SizeTypes, PowType, c - 1 \in 0..MaxPow
  <2>2. QED
    BY <1>3, <2>1
<1>6. scale + int.len \in 0..MaxDigits
  BY <1>1, <1>4, SizeTypes
<1>7. scale + int.len + c <= MaxDigits
  BY <1>3, <1>4, <1>5, <1>6, RoomForDigits
<1>8. Room(c)
  BY <1>1, <1>3, <1>4, <1>7, RoomInBuffer, SizeTypes
<1>9. QED
  BY <1>3, <1>7, <1>8 DEF Write

LEMMA SizeTail ==
  ASSUME SizeInv, NEW phase \in Tail, TailChunk(phase) \/ TailDigit(phase)
  PROVE  SizeInv'
<1> DEFINE w == word[WordOf(phase)]
<1>1. TypeOK /\ scale <= MaxDigits /\ left \in Nat
  BY DEF SizeInv
<1>2. phase \in Phases /\ PartOf(phase) = "int"
      /\ (phase = "tail_lo" => w = lo) /\ (phase = "tail_hi" => w = hi)
  BY DEF Tail, Phases, PartOf, WordOf, lo, hi
<1>3. PICK c \in 1..MaxPow :
        /\ pc = phase
        /\ w >= Pow[c - 1]
        /\ Emit(phase, c)
        /\ scale + int.len + c <= MaxDigits
        /\ UNCHANGED <<pc, value, scale, left>>
  BY TailEmit
<1>4. phase = "tail_lo" \/ phase = "tail_hi"
  BY DEF Tail
<1>5. frac.len = scale /\ w * Pow[scale + int.len] < Bound /\ scale + int.len <= MaxDigits
  BY <1>2, <1>3, <1>4 DEF SizeInv
<1>6. w \in Nat
  <2>1. w \in Int /\ Pow[c - 1] \in Nat
    BY <1>1, <1>2, <1>4, SizeTypes, PowType, c - 1 \in 0..MaxPow
  <2>2. QED
    BY <1>3, <2>1
<1>7. scale + int.len \in 0..MaxDigits
  BY <1>1, <1>5, SizeTypes
<1>8. scale + int.len + c <= MaxDigits /\ left' \in Nat /\ scale' <= MaxDigits
  BY <1>1, <1>3
<1>9. /\ word' \in [Words -> Int] /\ garbled' \in BOOLEAN
      /\ text' \in [Parts -> [len : Nat, num : Int]]
      /\ word'[WordOf(phase)] = CDiv(w, Pow[c])
      /\ frac.len' = frac.len /\ int.len' = int.len + c
  BY <1>1, <1>2, <1>3, <1>5, SizeTypes, EmitSize DEF Parts, int, frac
<1>10. word'[WordOf(phase)] * Pow[scale' + int.len'] < Bound
  <2> DEFINE n == scale + int.len
  <2>1. scale' + int.len' = n + c
    BY <1>1, <1>3, <1>9, SizeTypes
  <2>2. n \in Nat /\ n + c <= MaxPow /\ w \in Int /\ c \in Nat /\ w * Pow[n] < Bound
    BY <1>1, <1>5, <1>6, <1>7, <1>8, SizeTypes
  <2> HIDE DEF n, w
  <2>3. CDiv(w, Pow[c]) * Pow[n + c] < Bound
    BY <2>2, QuotientBound
  <2>4. QED
    BY <1>9, <2>1, <2>3 DEF w
<1>11. TypeOK'
  BY <1>1, <1>3, <1>9 DEF TypeOK
<1>12. frac.len' = scale' /\ frac.len' + int.len' <= MaxDigits
  BY <1>1, <1>3, <1>5, <1>8, <1>9, SizeTypes
<1>13. (phase = "tail_lo" => lo' = word'[WordOf(phase)])
       /\ (phase = "tail_hi" => hi' = word'[WordOf(phase)])
  BY DEF WordOf, lo, hi
<1>14. Bound' = Bound
  BY DEF Bound
<1>15. QED
  BY <1>1, <1>3, <1>4, <1>8, <1>10, <1>11, <1>12, <1>13, <1>14, SizeTypes DEF SizeInv

\* The remainder is less than the divisor, in absolute value.
LEMMA CModBound ==
  ASSUME NEW a \in Int, NEW b \in Nat, b > 0
  PROVE  CMod(a, b) \in -(b - 1) .. (b - 1)
<1>1. -a \in Int
  OBVIOUS
<1>2. a % b \in 0..(b - 1) /\ (-a) % b \in 0..(b - 1)
  BY <1>1, DivMod
<1>3. QED
  BY <1>2 DEF CMod

LEMMA AbsType == TypeOK => value \in Native /\ AbsValue(value) \in Int
<1>1. HalfWord \in Nat /\ Word \in Nat
  BY HalfWordType
<1>2. NativeLimit \in Int
  BY <1>1 DEF NativeLimit
<1>3. QED
  BY <1>2, OutAssumption DEF TypeOK, AbsValue, Native

LEMMA SizeSplit ==
  ASSUME SizeInv, Split
  PROVE  SizeInv'
<1> DEFINE abs == AbsValue(value)
           h == CDiv(abs, Pow[LoDigits])
           l == CMod(abs, Pow[LoDigits])
<1>1. TypeOK /\ scale <= MaxDigits /\ pc = "call" /\ int = NoDigits /\ frac = NoDigits
  BY DEF SizeInv, Split
<1>2. /\ pc' = "frac_lo"
      /\ word' = [lo |-> ToInt64(l), hi |-> ToInt64(h)]
      /\ left' = IF ToInt64(h) # 0 /\ scale > LoDigits THEN LoDigits ELSE ToInt(scale)
      /\ UNCHANGED <<value, scale, text, garbled>>
  BY DEF Split
<1>0. /\ left' \in 0..MaxDigits
      /\ left' = IF ToInt64(h) # 0 /\ scale > LoDigits THEN LoDigits ELSE scale
  <2>1. scale \in 0..MaxDigits /\ LoDigits \in 0..MaxDigits
    BY <1>1, SizeTypes, LoType, OutAssumption
  <2>2. QED
    BY <1>2, <2>1, IntType
<1>3. abs \in Int /\ h \in Int /\ l \in -(Pow[LoDigits] - 1) .. (Pow[LoDigits] - 1)
  BY <1>1, AbsType, LoType, CDivType, CModBound
<1> HIDE DEF h, l
<1>4. ToInt64(h) \in Int64 /\ ToInt64(l) = l
  <2>1. l \in Int64
    BY <1>3, LoType, HalfWordType, OutAssumption DEF Int64
  <2>2. QED
    BY <1>3, <2>1, ToInt64Wraps, ToInt64Identity
<1>5. hi' = ToInt64(h) /\ lo' = l /\ hi' \in Int /\ lo' \in Int /\ hi' < HalfWord
  BY <1>2, <1>3, <1>4, HalfWordType, LoType DEF hi, lo, Int64
<1>6. /\ int.len' = 0 /\ frac.len' = 0 /\ Pow[0] = 1
      /\ int' = int /\ frac' = frac
  BY <1>1, <1>2, PowAssumption DEF NoDigits, int, frac
<1>7. lo' * Pow[frac.len'] < Bound'
  <2>1. l < Pow[LoDigits]
    BY <1>3, LoType
  <2>2. Pow[LoDigits] <= HalfWord * Pow[LoDigits]
    BY LoType, HalfWordType
  <2>3. l * 1 = l /\ l \in Int /\ HalfWord * Pow[LoDigits] \in Int
    BY <1>3, LoType, HalfWordType
  <2>4. QED
    BY <1>5, <1>6, <2>1, <2>2, <2>3, LoType DEF Bound
<1>8. TypeOK'
  <2>1. word' \in [Words -> Int]
    BY <1>2, <1>5 DEF Words, hi, lo
  <2>2. left' \in -HalfInt .. HalfInt - 1
    <3>1. HalfInt \in Nat /\ MaxDigits \in Nat /\ MaxDigits < HalfInt
      BY IntType, NumbersAssumption
    <3>2. \A n \in 0..MaxDigits : n \in -HalfInt .. HalfInt - 1
      BY <3>1
    <3>3. QED
      BY <1>0, <3>2
  <2>3. "frac_lo" \in Phases
    BY DEF Phases, Counted
  <2>4. QED
    BY <1>1, <1>2, <2>1, <2>2, <2>3 DEF TypeOK
<1>9. /\ frac.len' <= scale' /\ frac.len' + int.len' <= MaxDigits
      /\ frac.len' + left' = IF hi' # 0 /\ scale' > LoDigits THEN LoDigits ELSE scale'
  BY <1>0, <1>1, <1>2, <1>5, <1>6, SizeTypes, LoType
<1>10. left' \in Nat /\ scale' <= MaxDigits
  BY <1>0, <1>1, <1>2
<1>11. QED
  BY <1>2, <1>5, <1>6, <1>7, <1>8, <1>9, <1>10 DEF SizeInv

LEMMA SizeEnd ==
  ASSUME SizeInv,
         \/ EndCase1 \/ EndLo2A \/ EndHi2A \/ EndFrac2B \/ EndInt2B
         \/ \E phase \in Tail : EndTail(phase)
  PROVE  SizeInv'
<1>1. /\ TypeOK /\ scale <= MaxDigits /\ left \in Nat
      /\ UNCHANGED <<value, scale, word, text, garbled>>
  BY DEF SizeInv, EndCase1, EndLo2A, EndHi2A, EndFrac2B, EndInt2B, EndTail
<1>2. /\ hi' = hi /\ lo' = lo /\ frac' = frac /\ int' = int /\ Bound' = Bound
      /\ scale' = scale
      /\ frac.len' = frac.len /\ int.len' = int.len
  BY <1>1 DEF hi, lo, frac, int, Bound
<1>3. /\ CountedOff => left = 0
      /\ \A phase : WriteDot(phase) => pc' = phase
  <2>1. CountedOff => left = 0
    BY <1>1 DEF CountedOff
  <2>2. frac.len + int.len + 1 <= MaxDigits + 1
    BY <1>1, SizeTypes DEF SizeInv
  <2>3. Room(1)
    BY <1>1, <2>2, RoomInBuffer
  <2>4. QED
    BY <2>1, <2>3 DEF WriteDot
<1>4. /\ TypeOK' /\ scale' <= MaxDigits /\ pc' # "overrun" /\ left' \in Nat
      /\ EndLo2A => left' = scale - LoDigits
  <2>1. scale \in 0..MaxDigits /\ left \in -HalfInt .. HalfInt - 1
    BY <1>1, SizeTypes DEF TypeOK
  <2>2. EndLo2A => left' = scale - LoDigits /\ scale > LoDigits
    <3>1. ASSUME scale > LoDigits PROVE ToInt(scale - LoDigits) = scale - LoDigits
      BY <2>1, <3>1, LoType, NumbersAssumption, IntType
    <3>2. QED
      BY <3>1 DEF EndLo2A
  <2>3. EndFrac2B => left' = LoDigits - scale /\ scale <= LoDigits
    BY DEF EndFrac2B
  <2>4. EndCase1 \/ EndHi2A \/ EndInt2B \/ (\E phase \in Tail : EndTail(phase))
          => left' = left
    BY DEF EndCase1, EndHi2A, EndInt2B, EndTail
  <2>5. left' \in Nat /\ left' \in -HalfInt .. HalfInt - 1
    BY <1>1, <2>1, <2>2, <2>3, <2>4, LoType, OutAssumption, NumbersAssumption, IntType
  <2>6. pc' \in Phases /\ pc' # "overrun"
    BY <1>3 DEF Phases, Counted, Tail, EndCase1, EndLo2A, EndHi2A, EndFrac2B,
                EndInt2B, EndTail
  <2>7. TypeOK'
    BY <1>1, <2>5, <2>6 DEF TypeOK
  <2>8. QED
    BY <1>1, <2>2, <2>5, <2>6, <2>7
<1>5. frac.len' <= scale' /\ frac.len' + int.len' <= MaxDigits
  BY <1>2 DEF SizeInv
<1>6. CASE EndCase1
  <2>1. /\ pc' = "done" \/ pc' = "tail_lo"
        /\ frac.len = scale /\ int.len = 0
        /\ lo * Pow[frac.len] < Bound
    BY <1>1, <1>3, <1>4, <1>6, SizeTypes DEF EndCase1, SizeInv, hi
  <2>2. QED
    BY <1>1, <1>2, <1>4, <1>5, <2>1, SizeTypes DEF SizeInv
<1>7. CASE EndLo2A
  <2>1. /\ pc' = "frac_hi" /\ left' = scale - LoDigits
        /\ frac.len = LoDigits /\ int.len = 0
        /\ hi < HalfWord
    BY <1>1, <1>3, <1>4, <1>7, SizeTypes, LoType DEF EndLo2A, SizeInv, hi
  <2>2. hi * Pow[LoDigits] < Bound
    BY <1>1, <2>1, SizeTypes, LoType, HalfWordType DEF Bound
  <2>3. frac.len + left' = scale
    BY <1>1, <2>1, SizeTypes, LoType
  <2>4. QED
    BY <1>2, <1>4, <1>5, <2>1, <2>2, <2>3 DEF SizeInv
<1>8. CASE EndHi2A
  <2>1. /\ pc' = "done" \/ pc' = "tail_hi"
        /\ frac.len = scale /\ int.len = 0
        /\ hi * Pow[frac.len] < Bound
    BY <1>1, <1>3, <1>4, <1>8, SizeTypes DEF EndHi2A, SizeInv
  <2>2. QED
    BY <1>1, <1>2, <1>4, <1>5, <2>1, SizeTypes DEF SizeInv
<1>9. CASE EndFrac2B
  <2>1. /\ pc' = "int_lo" /\ left' = LoDigits - scale
        /\ frac.len = scale /\ int.len = 0 /\ hi < HalfWord
    BY <1>1, <1>3, <1>4, <1>9, SizeTypes, LoType DEF EndFrac2B, SizeInv, hi
  <2>2. scale + int.len + left' = LoDigits
    BY <1>1, <2>1, SizeTypes, LoType
  <2>3. QED
    BY <1>2, <1>4, <1>5, <2>1, <2>2 DEF SizeInv
<1>10. CASE EndInt2B
  <2>1. /\ pc' = "tail_hi" /\ frac.len = scale
        /\ scale + int.len = LoDigits /\ hi < HalfWord
    BY <1>1, <1>3, <1>4, <1>10, SizeTypes DEF EndInt2B, SizeInv
  <2>2. hi * Pow[LoDigits] < Bound
    BY <1>1, <2>1, SizeTypes, LoType, HalfWordType DEF Bound
  <2>3. QED
    BY <1>2, <1>4, <1>5, <2>1, <2>2 DEF SizeInv
<1>11. CASE \E phase \in Tail : EndTail(phase)
  <2>1. pc' = "done" /\ frac.len = scale
    BY <1>11 DEF EndTail, SizeInv, Tail
  <2>2. QED
    BY <1>2, <1>4, <1>5, <2>1 DEF SizeInv
<1>12. QED
  BY <1>6, <1>7, <1>8, <1>9, <1>10, <1>11

LEMMA SizeNext == SizeInv /\ [Next]_vars => SizeInv'
<1> SUFFICES ASSUME SizeInv, [Next]_vars PROVE SizeInv'
  OBVIOUS
<1>1. CASE Split
  BY <1>1, SizeSplit
<1>2. CASE \E phase \in Counted : CountedDigit(phase) \/ CountedChunk(phase)
  BY <1>2, SizeFracLo, SizeFracHi, SizeIntLo DEF Counted
<1>3. CASE \E phase \in Tail : TailChunk(phase) \/ TailDigit(phase)
  BY <1>3, SizeTail
<1>4. CASE \/ EndCase1 \/ EndLo2A \/ EndHi2A \/ EndFrac2B \/ EndInt2B
           \/ \E phase \in Tail : EndTail(phase)
  BY <1>4, SizeEnd
<1>5. CASE UNCHANGED vars
  BY <1>5 DEF vars, SizeInv, TypeOK, hi, lo, int, frac, Bound
<1>6. QED
  BY <1>1, <1>2, <1>3, <1>4, <1>5 DEF Next

\* The argument does not change during a call.
LEMMA ArgumentKept == [Next]_vars => UNCHANGED <<value, scale>>
  BY DEF Next, vars, Split, CountedDigit, CountedChunk, EndCase1, EndLo2A,
         EndHi2A, EndFrac2B, EndInt2B, TailChunk, TailDigit, EndTail

LEMMA CastNext == CastInv /\ [Next]_vars => CastInv'
  BY SizeNext, ArgumentKept DEF CastInv, OfCast

-----------------------------------------------------------------------------
(***************************************************************************)
(* The types and the buffer, for every value and every scale.              *)
(***************************************************************************)
\* What is written is in the buffer, and no power beyond the table is needed.
LEMMA UsedBounds ==
  ASSUME TypeInv
  PROVE  /\ frac.len \in 0..(BufSize - 1) /\ int.len \in 0..(BufSize - 1)
         /\ frac.len + int.len <= BufSize - 1
         /\ BufSize \in 0..MaxPow
<1>1. TypeOK /\ frac.len \in Nat /\ int.len \in Nat /\ BufSize \in 0..MaxPow
  BY SizeTypes, OutAssumption DEF TypeInv
<1>2. 1 + frac.len + int.len <= BufSize
  BY <1>1 DEF TypeInv, Used, frac, int
<1>3. QED
  BY <1>1, <1>2

\* A write that has room for its characters, or stops.
LEMMA TypeWrite ==
  ASSUME TypeInv, NEW phase \in Counted \union Tail, NEW c \in 1..MaxPow,
         pc = phase, Write(phase, c), UNCHANGED <<value, scale>>,
         left' \in -HalfInt .. HalfInt - 1
  PROVE  TypeInv'
<1>1. TypeOK /\ phase \in Phases /\ Used <= BufSize
  BY DEF TypeInv, Phases
<1>2. CASE Room(c) /\ Emit(phase, c) /\ UNCHANGED pc
  <2>1. text[PartOf(phase)].len <= MaxPow
    BY <1>1, UsedBounds, SizeTypes DEF PartOf, int, frac
  <2>2. /\ word' \in [Words -> Int] /\ garbled' \in BOOLEAN
        /\ text' \in [Parts -> [len : Nat, num : Int]]
        /\ \A p \in Parts : text'[p].len
             = IF p = PartOf(phase) THEN text[p].len + c ELSE text[p].len
    BY <1>1, <1>2, <2>1, EmitSize, c \in 0..MaxPow
  <2>3. TypeOK'
    BY <1>1, <1>2, <2>2 DEF TypeOK
  <2>4. int.len' + frac.len' = int.len + frac.len + c
    <3>1. PartOf(phase) = "int" \/ PartOf(phase) = "frac"
      BY DEF PartOf
    <3>2. QED
      BY <1>1, <2>2, <3>1, SizeTypes DEF Parts, int, frac
  <2>5. Used' = Used + c
    <3>1. /\ int.len' \in Nat /\ frac.len' \in Nat
          /\ int.len \in Nat /\ frac.len \in Nat
      BY <1>1, <2>2, SizeTypes DEF Parts, int, frac
    <3>2. QED
      BY <1>2, <2>4, <3>1 DEF Used, int, frac
  <2>6. QED
    BY <1>2, <2>3, <2>5 DEF TypeInv, Room
<1>3. CASE pc' = "overrun" /\ UNCHANGED <<word, text, garbled>>
  <2>1. TypeOK'
    BY <1>1, <1>3 DEF TypeOK, Phases
  <2>2. Used' <= Used
    BY <1>1, <1>3, SizeTypes DEF Used, Tail, int, frac
  <2>3. Used' \in Int /\ Used \in Int
    BY <1>1, <1>3, SizeTypes DEF Used, int, frac
  <2>4. QED
    BY <1>1, <2>1, <2>2, <2>3, UsedBounds DEF TypeInv
<1>4. QED
  BY <1>2, <1>3 DEF Write

LEMMA TypeSplit ==
  ASSUME TypeInv, Split
  PROVE  TypeInv'
<1> DEFINE abs == AbsValue(value)
           h == CDiv(abs, Pow[LoDigits])
           l == CMod(abs, Pow[LoDigits])
<1>1. TypeOK
  BY DEF TypeInv
<1>2. h \in Int /\ l \in Int
  BY <1>1, AbsType, LoType, CDivType
<1>3. ToInt64(h) \in Int /\ ToInt64(l) \in Int
  <2> HIDE DEF h, l
  <2>1. QED
    BY <1>2, ToInt64Wraps, HalfWordType DEF Int64
<1>4. word' \in [Words -> Int]
  BY <1>3 DEF Split, Words
<1>5. left' \in -HalfInt .. HalfInt - 1
  <2>1. LoDigits \in -HalfInt .. HalfInt - 1 /\ ToInt(scale) \in -HalfInt .. HalfInt - 1
    BY <1>1, SizeTypes, LoType, IntType, OutAssumption, NumbersAssumption
  <2>2. QED
    BY <2>1 DEF Split
<1>6. TypeOK'
  BY <1>1, <1>4, <1>5 DEF Split, TypeOK, Phases, Counted
<1>7. Used' = Used
  BY DEF Split, Used, Tail
<1>8. QED
  BY <1>6, <1>7 DEF TypeInv

LEMMA TypeEnd ==
  ASSUME TypeInv,
         \/ EndCase1 \/ EndLo2A \/ EndHi2A \/ EndFrac2B \/ EndInt2B
         \/ \E phase \in Tail : EndTail(phase)
  PROVE  TypeInv'
<1>1. TypeOK /\ UNCHANGED <<value, scale, word, text, garbled>>
  BY DEF TypeInv, EndCase1, EndLo2A, EndHi2A, EndFrac2B, EndInt2B, EndTail
<1>2. left' \in -HalfInt .. HalfInt - 1
  <2>1. /\ left \in -HalfInt .. HalfInt - 1
        /\ ToInt(scale - LoDigits) \in -HalfInt .. HalfInt - 1
        /\ scale <= LoDigits => LoDigits - scale \in -HalfInt .. HalfInt - 1
    BY <1>1, SizeTypes, LoType, IntType, OutAssumption, NumbersAssumption DEF TypeOK
  <2>2. QED
    BY <2>1 DEF EndCase1, EndLo2A, EndHi2A, EndFrac2B, EndInt2B, EndTail
<1>3. pc' \in Phases
  BY DEF Phases, Counted, Tail, EndCase1, EndLo2A, EndHi2A, EndFrac2B, EndInt2B,
         EndTail, WriteDot
<1>4. TypeOK'
  BY <1>1, <1>2, <1>3 DEF TypeOK
<1>5. Used' <= Used \/ (Room(1) /\ Used' = Used + 1)
  <2>1. text["frac"].len \in Nat /\ text["int"].len \in Nat /\ text' = text
    BY <1>1, SizeTypes DEF frac, int
  <2>2. CASE EndCase1
    BY <2>1, <2>2 DEF EndCase1, WriteDot, Used, Tail
  <2>3. CASE EndHi2A
    BY <2>1, <2>3 DEF EndHi2A, WriteDot, Used, Tail
  <2>4. CASE EndFrac2B
    BY <2>1, <2>4 DEF EndFrac2B, WriteDot, Used, Tail
  <2>5. CASE EndLo2A \/ EndInt2B \/ \E phase \in Tail : EndTail(phase)
    BY <2>1, <2>5 DEF EndLo2A, EndInt2B, EndTail, Used, Tail
  <2>6. QED
    BY <2>2, <2>3, <2>4, <2>5
<1>6. Used' \in Int /\ Used \in Int /\ BufSize \in Int
  BY <1>1, SizeTypes, UsedBounds DEF Used, int, frac
<1>7. QED
  BY <1>4, <1>5, <1>6 DEF TypeInv, Room

LEMMA TypeNext == TypeInv /\ [Next]_vars => TypeInv'
<1> SUFFICES ASSUME TypeInv, [Next]_vars PROVE TypeInv'
  OBVIOUS
<1>1. TypeOK
  BY DEF TypeInv
<1>2. CASE Split
  BY <1>2, TypeSplit
<1>3. CASE \E phase \in Counted : CountedDigit(phase) \/ CountedChunk(phase)
  <2>1. PICK phase \in Counted : CountedDigit(phase) \/ CountedChunk(phase)
    BY <1>3
  <2>2. PICK c \in 1..MaxPow :
          /\ pc = phase /\ Write(phase, c)
          /\ left' \in -HalfInt .. HalfInt - 1
          /\ UNCHANGED <<value, scale>>
    BY <1>1, <2>1, CountedStep
  <2>3. QED
    BY <2>2, TypeWrite
<1>4. CASE \E phase \in Tail : TailChunk(phase) \/ TailDigit(phase)
  <2>1. PICK phase \in Tail : TailChunk(phase) \/ TailDigit(phase)
    BY <1>4
  <2>2. PICK c \in 1..MaxPow :
          /\ pc = phase /\ Write(phase, c)
          /\ UNCHANGED <<value, scale, left>>
    BY <1>1, <2>1, TailStep
  <2>3. left' \in -HalfInt .. HalfInt - 1
    BY <1>1, <2>2 DEF TypeOK
  <2>4. QED
    BY <2>2, <2>3, TypeWrite
<1>5. CASE \/ EndCase1 \/ EndLo2A \/ EndHi2A \/ EndFrac2B \/ EndInt2B
           \/ \E phase \in Tail : EndTail(phase)
  BY <1>5, TypeEnd
<1>6. CASE UNCHANGED vars
  BY <1>6 DEF vars, TypeInv, TypeOK, Used
<1>7. QED
  BY <1>2, <1>3, <1>4, <1>5, <1>6 DEF Next

LEMMA SizeInvariant == Spec => [](TypeInv /\ CastInv)
  BY SizeInit, TypeNext, CastNext, PTL DEF Spec

\* Every variable keeps its type, for every value and every scale, also one
\* that no cast gives: the counter of the digits is always an int, and the
\* digits are always taken at powers that the table has.
THEOREM TypeCorrect == Spec => []TypeOK
<1>1. TypeInv => TypeOK
  BY DEF TypeInv
<1>2. QED
  BY <1>1, SizeInvariant, PTL

\* For every value, and for every scale that a cast can give, the text with
\* its sign, dot and NUL stays within the 42 bytes of the buffers of
\* _fxypty_out and fxypty_out, also for the values whose high word does not
\* fit an int64_t.
THEOREM TextFitsBuffer == Spec => []BufferFits
<1>1. CastInv => BufferFits
  <2> SUFFICES ASSUME SizeInv PROVE InBuffers
    BY DEF CastInv, BufferFits
  <2>1. /\ TypeOK /\ frac.len <= scale /\ frac.len + int.len <= MaxDigits
        /\ scale <= MaxDigits /\ pc # "overrun"
    BY DEF SizeInv
  <2>2. Chars <= BufSize
    BY <2>1, SizeTypes, OutAssumption DEF Chars, frac, int
  <2>3. QED
    BY <2>1, <2>2 DEF InBuffers
<1>2. QED
  BY <1>1, SizeInvariant, PTL

-----------------------------------------------------------------------------
(***************************************************************************)
(* The values, for the numbers whose high word is an int64_t.              *)
(***************************************************************************)
LEMMA TakeStep ==
  ASSUME TypeOK, ~garbled, NEW phase \in Phases, NEW c \in 0..MaxPow,
         Emit(phase, c), word[WordOf(phase)] \in Nat
  PROVE  \E q \in Nat, r \in Nat :
           /\ r < Pow[c]
           /\ word[WordOf(phase)] = (q * Pow[c]) + r
           /\ word'[WordOf(phase)] = q
           /\ \A u \in Words : u # WordOf(phase) => word'[u] = word[u]
           /\ LET t == text[PartOf(phase)] IN
                /\ text'[PartOf(phase)].len = t.len + c
                /\ text'[PartOf(phase)].num = t.num + (r * Pow[t.len])
           /\ \A p \in Parts : p # PartOf(phase) => text'[p] = text[p]
           /\ ~garbled'
<1> DEFINE t == text[PartOf(phase)]
<1>1. WordOf(phase) \in Words /\ PartOf(phase) \in Parts
  BY DEF WordOf, PartOf, Words, Parts
<1>2. word \in [Words -> Int] /\ text \in [Parts -> [len : Nat, num : Int]]
  BY DEF TypeOK
<1>3. garbled \in BOOLEAN
  BY DEF TypeOK
<1>4. PICK q \in Nat, r \in Nat :
           /\ r < Pow[c]
           /\ word[WordOf(phase)] = (q * Pow[c]) + r
           /\ word' = [word EXCEPT ![WordOf(phase)] = q]
           /\ text' = [text EXCEPT ![PartOf(phase)] = Push(t, Entry(r, c))]
           /\ garbled' = garbled
  BY <1>3, EmitStep
<1>5. text'[PartOf(phase)] = Push(t, Entry(r, c))
  BY <1>1, <1>2, <1>4
<1>6. /\ text'[PartOf(phase)].len = t.len + c
      /\ text'[PartOf(phase)].num = t.num + (r * Pow[t.len])
  BY <1>5 DEF Push, Entry
<1>7. /\ word'[WordOf(phase)] = q
      /\ \A u \in Words : u # WordOf(phase) => word'[u] = word[u]
      /\ \A p \in Parts : p # PartOf(phase) => text'[p] = text[p]
  BY <1>1, <1>2, <1>4
<1>8. ~garbled'
  BY <1>4
<1>9. QED
  BY <1>4, <1>6, <1>7, <1>8

\* The same for digits that go to the integer part, above a fraction of s
\* digits that spells f.
LEMMA TakeIntDigits ==
  ASSUME NEW s \in Nat, NEW m \in Nat, NEW c \in Nat, s + m + c <= MaxPow,
         NEW num \in Nat, NEW f \in Nat, NEW q \in Nat, NEW r \in Nat
  PROVE  (((q * Pow[c]) + r) * Pow[s + m]) + ((num * Pow[s]) + f)
           = (q * Pow[s + (m + c)]) + (((num + (r * Pow[m])) * Pow[s]) + f)
<1> DEFINE S == Pow[s]
           M == Pow[m]
           C == Pow[c]
<1>1. S \in Nat /\ M \in Nat /\ C \in Nat
  BY PowType, NumbersAssumption
<1>2. Pow[m + c] = M * C /\ Pow[s + m] = S * M /\ Pow[s + (m + c)] = S * Pow[m + c]
  BY PowSum, NumbersAssumption, m + c \in Nat, s + (m + c) = s + m + c
<1>3. Pow[s + (m + c)] = S * (M * C)
  BY <1>2
<1> HIDE DEF S, M, C
<1>4. (((q * C) + r) * (S * M)) + ((num * S) + f)
        = (q * (S * (M * C))) + (((num + (r * M)) * S) + f)
  <2>1. ((q * C) + r) * (S * M) = (q * (S * (M * C))) + ((r * M) * S)
    BY <1>1
  <2>2. (num + (r * M)) * S = (num * S) + ((r * M) * S)
    BY <1>1
  <2>3. /\ (r * M) * S \in Nat /\ num * S \in Nat
        /\ q * (S * (M * C)) \in Nat
    BY <1>1
  <2>4. QED
    BY <2>1, <2>2, <2>3
<1>5. QED
  BY <1>2, <1>3, <1>4 DEF S, M, C

LEMMA ValueFracLo ==
  ASSUME SizeInv, ValueInv, CountedDigit("frac_lo") \/ CountedChunk("frac_lo")
  PROVE  ValueInv'
<1>1. TypeOK /\ scale <= MaxDigits /\ left \in Nat
  BY DEF SizeInv
<1>2. "frac_lo" \in Counted /\ "frac_lo" \in Phases
  BY DEF Counted, Phases
<1>3. PICK c \in 1..MaxPow :
        /\ pc = "frac_lo" /\ c <= left
        /\ Emit("frac_lo", c)
        /\ left' = left - c
        /\ UNCHANGED <<pc, value, scale>>
  BY <1>2, CountedEmit
<1>4. /\ left \in Nat /\ frac.len \in Nat /\ frac.len + c <= MaxPow
      /\ frac.num \in 0..(Pow[frac.len] - 1)
      /\ hi \in Nat /\ lo \in Nat /\ ~garbled
      /\ int.num \in Nat /\ (int.len = 0 => int.num = 0)
  BY <1>1, <1>3, SizeTypes, LoType DEF SizeInv, ValueInv, TypeOK
<1>5. PICK q \in Nat, r \in Nat :
        /\ r < Pow[c]
        /\ lo = (q * Pow[c]) + r
        /\ lo' = q /\ hi' = hi /\ int' = int
        /\ frac.len' = frac.len + c
        /\ frac.num' = frac.num + (r * Pow[frac.len])
        /\ ~garbled'
  BY <1>1, <1>2, <1>3, <1>4, TakeStep
     DEF WordOf, PartOf, Words, Parts, hi, lo, int, frac
<1>6. (((q * Pow[c]) + r) * Pow[frac.len]) + frac.num
         = (q * Pow[frac.len + c]) + (frac.num + (r * Pow[frac.len]))
  BY <1>4, <1>5, TakeDigits
<1>7. frac.num + (r * Pow[frac.len]) \in 0..(Pow[frac.len + c] - 1)
  BY <1>4, <1>5, TakeDigits
<1>8. /\ frac.num' \in 0..(Pow[frac.len'] - 1)
      /\ int.len' = int.len /\ int.num' = int.num
      /\ Magnitude(value)' = Magnitude(value)
  BY <1>3, <1>5, <1>7 DEF Magnitude
<1>9. (lo' * Pow[frac.len']) + frac.num' = (lo * Pow[frac.len]) + frac.num
  BY <1>5, <1>6, <1>7
<1>10. QED
  BY <1>3, <1>4, <1>5, <1>8, <1>9 DEF ValueInv

LEMMA ValueFracHi ==
  ASSUME SizeInv, ValueInv, CountedDigit("frac_hi") \/ CountedChunk("frac_hi")
  PROVE  ValueInv'
<1>1. TypeOK /\ scale <= MaxDigits /\ left \in Nat
  BY DEF SizeInv
<1>2. "frac_hi" \in Counted /\ "frac_hi" \in Phases
  BY DEF Counted, Phases
<1>3. PICK c \in 1..MaxPow :
        /\ pc = "frac_hi" /\ c <= left
        /\ Emit("frac_hi", c)
        /\ left' = left - c
        /\ UNCHANGED <<pc, value, scale>>
  BY <1>2, CountedEmit
<1>4. /\ left \in Nat /\ frac.len \in Nat /\ frac.len + c <= MaxPow
      /\ frac.num \in 0..(Pow[frac.len] - 1)
      /\ hi \in Nat /\ lo \in Nat /\ ~garbled
      /\ int.num \in Nat /\ (int.len = 0 => int.num = 0)
  BY <1>1, <1>3, SizeTypes, LoType DEF SizeInv, ValueInv, TypeOK
<1>5. PICK q \in Nat, r \in Nat :
        /\ r < Pow[c]
        /\ hi = (q * Pow[c]) + r
        /\ hi' = q /\ lo' = lo /\ int' = int
        /\ frac.len' = frac.len + c
        /\ frac.num' = frac.num + (r * Pow[frac.len])
        /\ ~garbled'
  BY <1>1, <1>2, <1>3, <1>4, TakeStep
     DEF WordOf, PartOf, Words, Parts, hi, lo, int, frac
<1>6. (((q * Pow[c]) + r) * Pow[frac.len]) + frac.num
         = (q * Pow[frac.len + c]) + (frac.num + (r * Pow[frac.len]))
  BY <1>4, <1>5, TakeDigits
<1>7. frac.num + (r * Pow[frac.len]) \in 0..(Pow[frac.len + c] - 1)
  BY <1>4, <1>5, TakeDigits
<1>8. /\ frac.num' \in 0..(Pow[frac.len'] - 1)
      /\ int.len' = int.len /\ int.num' = int.num
      /\ Magnitude(value)' = Magnitude(value)
  BY <1>3, <1>5, <1>7 DEF Magnitude
<1>9. (hi' * Pow[frac.len']) + frac.num' = (hi * Pow[frac.len]) + frac.num
  BY <1>5, <1>6, <1>7
<1>10. QED
  BY <1>3, <1>4, <1>5, <1>8, <1>9 DEF ValueInv

LEMMA ValueIntLo ==
  ASSUME SizeInv, ValueInv, CountedDigit("int_lo") \/ CountedChunk("int_lo")
  PROVE  ValueInv'
<1>1. TypeOK /\ scale <= MaxDigits /\ left \in Nat
  BY DEF SizeInv
<1>2. "int_lo" \in Counted /\ "int_lo" \in Phases
  BY DEF Counted, Phases
<1>3. PICK c \in 1..MaxPow :
        /\ pc = "int_lo" /\ c <= left
        /\ Emit("int_lo", c)
        /\ left' = left - c
        /\ UNCHANGED <<pc, value, scale>>
  BY <1>2, CountedEmit
<1>4. /\ left \in Nat /\ scale \in Nat /\ frac.len = scale /\ int.len \in Nat
      /\ scale + int.len + c <= MaxPow
      /\ hi \in Nat /\ lo \in Nat /\ ~garbled
      /\ int.num \in Nat /\ frac.num \in Nat
  BY <1>1, <1>3, SizeTypes, LoType DEF SizeInv, ValueInv, TypeOK
<1>5. PICK q \in Nat, r \in Nat :
        /\ r < Pow[c]
        /\ lo = (q * Pow[c]) + r
        /\ lo' = q /\ hi' = hi /\ frac' = frac
        /\ int.len' = int.len + c
        /\ int.num' = int.num + (r * Pow[int.len])
        /\ ~garbled'
  BY <1>1, <1>2, <1>3, <1>4, TakeStep
     DEF WordOf, PartOf, Words, Parts, hi, lo, int, frac
<1>6. (((q * Pow[c]) + r) * Pow[scale + int.len]) + ((int.num * Pow[scale]) + frac.num)
         = (q * Pow[scale + (int.len + c)])
             + (((int.num + (r * Pow[int.len])) * Pow[scale]) + frac.num)
  <2> DEFINE s == scale
             m == int.len
             num == int.num
             f == frac.num
  <2>1. s \in Nat /\ m \in Nat /\ c \in Nat /\ num \in Nat /\ f \in Nat
    BY <1>4
  <2>2. s + m + c <= MaxPow
    BY <1>4, <1>5
  <2> HIDE DEF s, m, num, f
  <2>3. (((q * Pow[c]) + r) * Pow[s + m]) + ((num * Pow[s]) + f)
          = (q * Pow[s + (m + c)]) + (((num + (r * Pow[m])) * Pow[s]) + f)
    BY <2>1, <2>2, TakeIntDigits
  <2>4. QED
    BY <2>3 DEF s, m, num, f
<1>7. (lo' * Pow[scale' + int.len']) + Written' = (lo * Pow[scale + int.len]) + Written
  BY <1>3, <1>4, <1>5, <1>6 DEF Written
<1>8. int.num' \in Nat /\ int.len' # 0
  <2>1. int.len \in 0..MaxPow
    BY <1>1, <1>4, SizeTypes
  <2>2. Pow[int.len] \in Nat
    BY <2>1, PowType
  <2>3. r * Pow[int.len] \in Nat
    BY <1>5, <2>2
  <2>4. QED
    BY <1>4, <1>5, <2>3
<1>9. /\ frac.num' \in 0..(Pow[frac.len'] - 1)
      /\ Magnitude(value)' = Magnitude(value)
  BY <1>3, <1>5 DEF Magnitude, ValueInv
<1>10. QED
  BY <1>3, <1>4, <1>5, <1>7, <1>8, <1>9 DEF ValueInv

LEMMA ValueTail ==
  ASSUME SizeInv, ValueInv, NEW phase \in Tail, TailChunk(phase) \/ TailDigit(phase)
  PROVE  ValueInv'
<1> DEFINE w == word[WordOf(phase)]
<1>1. TypeOK /\ scale <= MaxDigits /\ left \in Nat
  BY DEF SizeInv
<1>2. phase \in Phases /\ PartOf(phase) = "int"
      /\ (phase = "tail_lo" => w = lo) /\ (phase = "tail_hi" => w = hi)
      /\ (phase = "tail_lo" \/ phase = "tail_hi")
  BY DEF Tail, Phases, PartOf, WordOf, lo, hi
<1>3. PICK c \in 1..MaxPow :
        /\ pc = phase
        /\ w >= Pow[c - 1]
        /\ w > Pow[c] \/ c = 1
        /\ Emit(phase, c)
        /\ scale + int.len + c <= MaxDigits
        /\ UNCHANGED <<pc, value, scale, left>>
  BY TailEmit
<1>4. /\ frac.len = scale /\ scale + int.len \in 0..MaxDigits
      /\ w * Pow[scale + int.len] < Bound
      /\ scale \in Nat /\ int.len \in Nat
      /\ w \in Nat /\ hi \in Nat /\ lo \in Nat /\ ~garbled
      /\ int.num \in Nat /\ frac.num \in Nat
      /\ TailInv(w)
  BY <1>1, <1>2, <1>3, SizeTypes DEF SizeInv, ValueInv
<1>5. (scale + int.len) + c <= MaxDigits /\ scale + int.len + c <= MaxPow
  BY <1>3, <1>4, RoomForDigits, NumbersAssumption
<1>6. PICK q \in Nat, r \in Nat :
        /\ r < Pow[c]
        /\ w = (q * Pow[c]) + r
        /\ word'[WordOf(phase)] = q
        /\ \A u \in Words : u # WordOf(phase) => word'[u] = word[u]
        /\ frac' = frac
        /\ int.len' = int.len + c
        /\ int.num' = int.num + (r * Pow[int.len])
        /\ ~garbled'
  BY <1>1, <1>2, <1>3, <1>4, TakeStep DEF Parts, int, frac
<1>7. (((q * Pow[c]) + r) * Pow[scale + int.len]) + ((int.num * Pow[scale]) + frac.num)
         = (q * Pow[scale + (int.len + c)])
             + (((int.num + (r * Pow[int.len])) * Pow[scale]) + frac.num)
  <2> DEFINE s == scale
             m == int.len
             num == int.num
             f == frac.num
  <2>1. s \in Nat /\ m \in Nat /\ c \in Nat /\ num \in Nat /\ f \in Nat
    BY <1>4
  <2>2. s + m + c <= MaxPow
    BY <1>4, <1>5, <1>6
  <2> HIDE DEF s, m, num, f
  <2>3. (((q * Pow[c]) + r) * Pow[s + m]) + ((num * Pow[s]) + f)
          = (q * Pow[s + (m + c)]) + (((num + (r * Pow[m])) * Pow[s]) + f)
    BY <2>1, <2>2, TakeIntDigits
  <2>4. QED
    BY <2>3 DEF s, m, num, f
<1>8. (q * Pow[scale' + int.len']) + Written' = (w * Pow[scale + int.len]) + Written
  BY <1>3, <1>4, <1>6, <1>7 DEF Written
<1>9. Pow[int.len] \in Nat /\ r * Pow[int.len] \in Nat
  <2>1. int.len \in 0..MaxPow
    BY <1>1, <1>4, SizeTypes
  <2>2. Pow[int.len] \in Nat
    BY <2>1, PowType
  <2>3. QED
    BY <1>6, <2>2
<1>10. int.num' \in Nat /\ int.len' # 0 /\ int.len' > 0
  BY <1>4, <1>6, <1>9
<1>11. q = 0 => int.num' >= Pow[int.len' - 1]
  <2> SUFFICES ASSUME q = 0 PROVE int.num' >= Pow[int.len' - 1]
    OBVIOUS
  <2>1. Pow[c] \in Nat /\ q * Pow[c] = 0
    BY PowType
  <2>2. w = r /\ c = 1
    BY <1>3, <1>4, <1>6, <2>1
  <2>3. r >= 1
    BY <1>3, <2>2, PowAssumption
  <2>4. r * Pow[int.len] >= Pow[int.len]
    BY <1>6, <1>9, <2>3
  <2>5. int.len' - 1 = int.len
    BY <1>4, <1>6, <2>2
  <2>6. QED
    BY <1>4, <1>6, <1>9, <2>4, <2>5
<1>12. Magnitude(value)' = Magnitude(value)
  BY <1>3 DEF Magnitude
<1>13. TailInv(q)'
  <2>1. (q * Pow[scale' + int.len']) + Written' = Magnitude(value)'
    BY <1>4, <1>8, <1>12 DEF TailInv
  <2>2. QED
    BY <1>10, <1>11, <2>1 DEF TailInv, LeadingDigit
<1>14. /\ hi' \in Nat /\ lo' \in Nat
       /\ phase = "tail_lo" => lo' = q
       /\ phase = "tail_hi" => hi' = q
  BY <1>2, <1>4, <1>6 DEF WordOf, Words, hi, lo
<1>15. frac.num' \in 0..(Pow[frac.len'] - 1)
  BY <1>6 DEF ValueInv
<1>16. pc' = phase
  BY <1>3
<1>17. (phase = "tail_lo" => TailInv(lo)') /\ (phase = "tail_hi" => TailInv(hi)')
  BY <1>13, <1>14
<1>18. QED
  BY <1>2, <1>6, <1>10, <1>14, <1>15, <1>16, <1>17 DEF ValueInv

LEMMA ValueSplit ==
  ASSUME SizeInv, Split, Fits(value)
  PROVE  ValueInv'
<1> DEFINE abs == AbsValue(value)
           P == Pow[LoDigits]
           h == abs \div P
           l == abs % P
<1>1. TypeOK /\ pc = "call" /\ int = NoDigits /\ frac = NoDigits /\ ~garbled
  BY DEF SizeInv, Split
<1>2. P \in Nat /\ P > 0 /\ HalfWord \in Nat /\ P <= HalfWord
  BY LoType, HalfWordType, OutAssumption
<1>3. abs \in Nat /\ abs < HalfWord * P /\ abs = Magnitude(value)
  <2>1. value \in Int /\ NativeLimit \in Int
    BY <1>1, AbsType, HalfWordType DEF NativeLimit, Native
  <2>2. HalfWord * P \in Nat /\ HalfWord * P <= NativeLimit
    <3>1. Pow[MaxDigits] \in Nat
      BY LoType, PowType
    <3>2. QED
      BY <1>2, <2>1, <3>1, OutAssumption, NativeAssumption
  <2>3. -(HalfWord * P) < value /\ value < HalfWord * P
    BY DEF Fits
  <2>4. value # -NativeLimit
    BY <2>1, <2>2, <2>3
  <2> HIDE DEF P
  <2>5. QED
    BY <2>1, <2>2, <2>3, <2>4 DEF AbsValue, Magnitude
<1>4. h \in Int /\ l \in 0..(P - 1) /\ abs = (P * h) + l
  BY <1>2, <1>3, abs \in Int, DivMod
<1>5. CDiv(abs, P) = h /\ CMod(abs, P) = l
  BY <1>3 DEF CDiv, CMod
<1>6. /\ pc' = "frac_lo"
      /\ word' = [lo |-> ToInt64(l), hi |-> ToInt64(h)]
      /\ UNCHANGED <<value, scale, text, garbled>>
  BY <1>5 DEF Split
<1> HIDE DEF abs, P, h, l
<1>7. h >= 0 /\ h < HalfWord
  <2>1. h >= 0
    <3>1. SUFFICES ASSUME h <= -1 PROVE FALSE
      BY <1>4
    <3>2. P * h <= -P
      BY <1>2, <1>4, <3>1
    <3>3. QED
      BY <1>2, <1>3, <1>4, <3>2
  <2>2. h < HalfWord
    <3>1. SUFFICES ASSUME h >= HalfWord PROVE FALSE
      BY <1>2, <1>4
    <3>2. P * h >= HalfWord * P
      BY <1>2, <1>4, <3>1
    <3>3. QED
      BY <1>2, <1>3, <1>4, <3>2
  <2>3. QED
    BY <2>1, <2>2
<1>8. ToInt64(h) = h /\ ToInt64(l) = l
  BY <1>2, <1>4, <1>7, ToInt64Identity DEF Int64
<1>9. /\ hi' = h /\ lo' = l /\ h \in Nat /\ l \in Nat
  BY <1>2, <1>4, <1>6, <1>7, <1>8 DEF hi, lo
<1>10. /\ int.len' = 0 /\ int.num' = 0 /\ frac.len' = 0 /\ frac.num' = 0
       /\ Pow[0] = 1 /\ ~garbled'
  BY <1>1, <1>6, PowAssumption DEF NoDigits, int, frac
<1>11. Magnitude(value)' = Magnitude(value)
  BY <1>6 DEF Magnitude
<1>12. (lo' * Pow[frac.len']) + frac.num' = l
  BY <1>9, <1>10
<1>13. (hi' * Pow[LoDigits]) + l = Magnitude(value)'
  <2>1. abs = (h * P) + l
    BY <1>2, <1>3, <1>4, <1>9
  <2>2. hi' = h /\ Magnitude(value)' = abs
    BY <1>3, <1>9, <1>11
  <2>3. QED
    BY <2>1, <2>2 DEF P
<1>14. l < Pow[LoDigits]
  BY <1>2, <1>4 DEF P
<1>15. QED
  BY <1>6, <1>9, <1>10, <1>12, <1>13, <1>14 DEF ValueInv

LEMMA ValueEnd ==
  ASSUME SizeInv, ValueInv, pc # "call",
         \/ EndCase1 \/ EndLo2A \/ EndHi2A \/ EndFrac2B \/ EndInt2B
         \/ \E phase \in Tail : EndTail(phase)
  PROVE  ValueInv'
<1>1. /\ TypeOK /\ scale <= MaxDigits
      /\ UNCHANGED <<value, scale, word, text, garbled>>
  BY DEF SizeInv, EndCase1, EndLo2A, EndHi2A, EndFrac2B, EndInt2B, EndTail
<1>2. /\ hi' = hi /\ lo' = lo /\ frac' = frac /\ int' = int
      /\ scale' = scale /\ garbled' = garbled /\ Written' = Written
      /\ Magnitude(value)' = Magnitude(value)
      /\ TailInv(lo)' = TailInv(lo) /\ TailInv(hi)' = TailInv(hi)
      /\ LeadingDigit' = LeadingDigit
  BY <1>1 DEF hi, lo, frac, int, Written, Magnitude, TailInv, LeadingDigit
<1>0. /\ CountedOff => left = 0
      /\ \A phase : WriteDot(phase) => pc' = phase
  <2>1. left \in Nat /\ frac.len + int.len + 1 <= MaxDigits + 1
    BY <1>1, SizeTypes DEF SizeInv
  <2>2. Room(1)
    BY <1>1, <2>1, RoomInBuffer
  <2>3. QED
    BY <2>1, <2>2 DEF CountedOff, WriteDot
<1>3. /\ ~garbled /\ hi \in Nat /\ lo \in Nat
      /\ frac.num \in 0..(Pow[frac.len] - 1) /\ int.num \in Nat
      /\ int.len = 0 => int.num = 0
      /\ Pow[frac.len] \in Nat /\ Pow[frac.len] > 0 /\ frac.num \in Nat
  <2>1. frac.len \in 0..MaxPow
    BY <1>1, SizeTypes DEF SizeInv
  <2>2. Pow[frac.len] \in Nat /\ Pow[frac.len] > 0
    BY <2>1, PowType
  <2>3. QED
    BY <2>2 DEF ValueInv
<1>4. int.len = 0 => Written = frac.num
  BY <1>3 DEF Written
<1>5. lo = 0 \/ lo * Pow[frac.len] >= Pow[frac.len]
  BY <1>3
<1>6. CASE EndCase1
  <2>1. /\ frac.len = scale /\ int.len = 0 /\ hi = 0
        /\ (hi * Pow[LoDigits]) + ((lo * Pow[frac.len]) + frac.num) = Magnitude(value)
        /\ pc' = IF lo = 0 THEN "done" ELSE "tail_lo"
    BY <1>0, <1>1, <1>6, SizeTypes DEF EndCase1, SizeInv, ValueInv, hi, lo
  <2>2. scale + int.len = frac.len
    BY <1>1, <2>1, SizeTypes
  <2>3. (lo * Pow[frac.len]) + Written = Magnitude(value)
    BY <1>3, <1>4, <2>1, LoType
  <2>4. lo = 0 => Written = Magnitude(value) /\ LeadingDigit
    BY <1>3, <1>4, <2>1, <2>3 DEF LeadingDigit
  <2>5. lo # 0 => TailInv(lo)
    BY <2>2, <2>3 DEF TailInv
  <2>6. QED
    BY <1>2, <1>3, <2>1, <2>4, <2>5 DEF ValueInv
<1>7. CASE EndLo2A
  <2>1. /\ frac.len = LoDigits /\ int.len = 0
        /\ (hi * Pow[LoDigits]) + ((lo * Pow[frac.len]) + frac.num) = Magnitude(value)
        /\ (lo * Pow[frac.len]) + frac.num < Pow[LoDigits]
        /\ pc' = "frac_hi"
    BY <1>0, <1>1, <1>7, SizeTypes, LoType DEF EndLo2A, SizeInv, ValueInv, hi
  <2>2. lo * Pow[frac.len] \in Nat
    BY <1>3
  <2>3. lo = 0
    BY <1>3, <1>5, <2>1, <2>2
  <2>4. (hi * Pow[frac.len]) + frac.num = Magnitude(value)
    BY <1>3, <2>1, <2>3
  <2>5. QED
    BY <1>2, <1>3, <2>1, <2>4 DEF ValueInv
<1>8. CASE EndHi2A
  <2>1. /\ frac.len = scale /\ int.len = 0
        /\ (hi * Pow[frac.len]) + frac.num = Magnitude(value)
        /\ pc' = IF hi = 0 THEN "done" ELSE "tail_hi"
    BY <1>0, <1>1, <1>8, SizeTypes DEF EndHi2A, SizeInv, ValueInv, hi
  <2>2. scale + int.len = frac.len
    BY <1>1, <2>1, SizeTypes
  <2>3. hi = 0 => Written = Magnitude(value) /\ LeadingDigit
    BY <1>3, <1>4, <2>1 DEF LeadingDigit
  <2>4. hi # 0 => TailInv(hi)
    BY <1>4, <2>1, <2>2 DEF TailInv
  <2>5. QED
    BY <1>2, <1>3, <2>1, <2>3, <2>4 DEF ValueInv
<1>9. CASE EndFrac2B
  <2>1. /\ frac.len = scale /\ int.len = 0 /\ hi # 0
        /\ (hi * Pow[LoDigits]) + ((lo * Pow[frac.len]) + frac.num) = Magnitude(value)
        /\ (lo * Pow[frac.len]) + frac.num < Pow[LoDigits]
        /\ pc' = "int_lo"
    BY <1>0, <1>1, <1>9, SizeTypes, LoType DEF EndFrac2B, SizeInv, ValueInv, hi
  <2>2. scale + int.len = frac.len
    BY <1>1, <2>1, SizeTypes
  <2>3. QED
    BY <1>2, <1>3, <1>4, <2>1, <2>2 DEF ValueInv
<1>10. CASE EndInt2B
  <2>1. /\ frac.len = scale /\ scale + int.len = LoDigits /\ hi # 0
        /\ (hi * Pow[LoDigits]) + ((lo * Pow[scale + int.len]) + Written)
             = Magnitude(value)
        /\ (lo * Pow[scale + int.len]) + Written < Pow[LoDigits]
        /\ pc' = "tail_hi"
    BY <1>0, <1>1, <1>10, SizeTypes DEF EndInt2B, SizeInv, ValueInv
  <2>2. Written \in Nat
    <3>1. int.num * Pow[frac.len] \in Nat
      BY <1>3
    <3>2. QED
      BY <1>3, <3>1 DEF Written
  <2>3. lo = 0
    <3>1. lo = 0 \/ lo * Pow[LoDigits] >= Pow[LoDigits]
      BY <1>3, LoType
    <3>2. lo * Pow[LoDigits] \in Nat
      BY <1>3, LoType
    <3>3. QED
      BY <2>1, <2>2, <3>1, <3>2, LoType
  <2>4. (hi * Pow[scale + int.len]) + Written = Magnitude(value)
    BY <1>3, <2>1, <2>2, <2>3, LoType
  <2>5. TailInv(hi)
    BY <2>1, <2>4 DEF TailInv
  <2>6. QED
    BY <1>2, <1>3, <2>1, <2>5 DEF ValueInv
<1>11. CASE \E phase \in Tail : EndTail(phase)
  <2>1. PICK phase \in Tail : EndTail(phase)
    BY <1>11
  <2> DEFINE w == word[WordOf(phase)]
  <2>2. /\ pc' = "done" /\ frac.len = scale /\ w <= 0 /\ w \in Nat /\ TailInv(w)
    BY <1>3, <2>1 DEF EndTail, SizeInv, ValueInv, Tail, WordOf, hi, lo
  <2>3. w = 0
    BY <2>2
  <2>4. scale + int.len \in 0..MaxPow
    BY <1>1, <2>2, SizeTypes DEF SizeInv
  <2>5. Pow[scale + int.len] \in Nat
    BY <2>4, PowType
  <2>6. 0 * Pow[scale + int.len] = 0
    BY <2>5
  <2>7. Written \in Nat
    <3>1. int.num * Pow[frac.len] \in Nat
      BY <1>3
    <3>2. QED
      BY <1>3, <3>1 DEF Written
  <2>8. Written = Magnitude(value) /\ LeadingDigit
    BY <2>2, <2>3, <2>6, <2>7 DEF TailInv
  <2>9. QED
    BY <1>2, <1>3, <2>2, <2>8 DEF ValueInv
<1>12. QED
  BY <1>6, <1>7, <1>8, <1>9, <1>10, <1>11

LEMMA ValueNext == IInv /\ [Next]_vars => IInv'
<1> SUFFICES ASSUME IInv, [Next]_vars PROVE IInv'
  OBVIOUS
<1>1. TypeInv' /\ CastInv' /\ UNCHANGED <<value, scale>>
  BY TypeNext, CastNext, ArgumentKept DEF IInv
<1>2. SUFFICES ASSUME SizeInv, pc' # "call", OfCast, Fits(value) PROVE ValueInv'
  BY <1>1 DEF IInv, CastInv, OfCast, Fits
<1>3. CASE Split
  BY <1>2, <1>3, ValueSplit
<1>4. ASSUME pc # "call" PROVE ValueInv
  BY <1>2, <1>4 DEF IInv
<1>5. CASE \E phase \in Counted : CountedDigit(phase) \/ CountedChunk(phase)
  <2>1. pc # "call"
    BY <1>5 DEF Counted, CountedDigit, CountedChunk
  <2>2. QED
    BY <1>2, <1>4, <1>5, <2>1, ValueFracLo, ValueFracHi, ValueIntLo DEF Counted
<1>6. CASE \E phase \in Tail : TailChunk(phase) \/ TailDigit(phase)
  <2>1. pc # "call"
    BY <1>6 DEF Tail, TailChunk, TailDigit
  <2>2. QED
    BY <1>2, <1>4, <1>6, <2>1, ValueTail
<1>7. CASE \/ EndCase1 \/ EndLo2A \/ EndHi2A \/ EndFrac2B \/ EndInt2B
           \/ \E phase \in Tail : EndTail(phase)
  <2>1. pc # "call"
    BY <1>7 DEF EndCase1, EndLo2A, EndHi2A, EndFrac2B, EndInt2B, EndTail, Tail
  <2>2. QED
    BY <1>2, <1>4, <1>7, <2>1, ValueEnd
<1>8. CASE UNCHANGED vars
  <2>1. pc # "call"
    BY <1>2, <1>8 DEF vars
  <2>2. ValueInv
    BY <1>4, <2>1
  <2>3. QED
    BY <1>8, <2>2
       DEF vars, ValueInv, hi, lo, int, frac, Written, Magnitude, TailInv, LeadingDigit
<1>9. QED
  BY <1>3, <1>5, <1>6, <1>7, <1>8 DEF Next

\* When _fxypty_out returns, its text spells the value it was given, with
\* exactly scale digits after the dot and no superfluous leading zero: for
\* every width of the words and the chunks, every scale of a cast, and every
\* value whose high word is an int64_t, through each of the cases 1, 2A and 2B.
THEOREM TextSpellsValue == Spec => []OutCorrect
<1>1. Init => IInv
  BY SizeInit DEF Init, IInv
<1>2. IInv => OutCorrect
  <2> SUFFICES ASSUME IInv, pc = "done", OfCast, Fits(value) PROVE Spells
    BY DEF OutCorrect
  <2>1. SizeInv /\ ValueInv
    BY DEF IInv, CastInv
  <2>2. QED
    BY <2>1 DEF SizeInv, ValueInv, Spells, Written, LeadingDigit, int, frac
<1>3. QED
  BY <1>1, <1>2, ValueNext, PTL DEF Spec

-----------------------------------------------------------------------------
(***************************************************************************)
(* The digit loops implement FxyPtyText.                                   *)
(***************************************************************************)
\* What a finished call has in its text is the decimal of its argument.
Finished == IInv /\ OfCast /\ Fits(value) /\ pc = "done"

PrintedDecimal == printed = <<Text!Decimal(value, scale)>>

LEMMA TextIsDecimal == Finished => PrintedDecimal
<1> SUFFICES ASSUME IInv, OfCast, Fits(value), pc = "done"
             PROVE  printed = <<Text!Decimal(value, scale)>>
  BY DEF Finished, PrintedDecimal
<1>1. SizeInv /\ ValueInv /\ TypeOK /\ scale \in 0..MaxPow
  <2>1. SizeInv /\ ValueInv /\ TypeOK /\ scale <= MaxDigits
    BY DEF IInv, CastInv, SizeInv
  <2>2. QED
    BY <2>1, SizeTypes
<1>2. /\ frac.len = scale
      /\ frac.num \in 0..(Pow[scale] - 1)
      /\ int.num \in Nat
      /\ Magnitude(value) = (int.num * Pow[scale]) + frac.num
  BY <1>1 DEF SizeInv, ValueInv, Written
<1>3. Pow[scale] \in Nat /\ Pow[scale] > 0
  BY <1>1, SizeTypes, PowType
<1> DEFINE P == Pow[scale]
           m == Magnitude(value)
           n == int.num
           f == frac.num
<1>4. P \in Nat /\ P > 0 /\ n \in Int /\ f \in 0..(P - 1) /\ m = (P * n) + f
  BY <1>2, <1>3
<1> HIDE DEF P, m, n, f
<1>5. m \in Int
  BY <1>4
<1>6. m \div P = n /\ m % P = f
  BY <1>4, <1>5, DivModUnique
<1>7. Text!Absolute(value) = m
  BY DEF Text!Absolute, m, Magnitude
<1>8. Text!Decimal(value, scale)
        = [neg |-> value < 0, int |-> n, frac |-> f, digits |-> scale]
  BY <1>6, <1>7 DEF Text!Decimal, P
<1>9. printed = <<[neg |-> value < 0, int |-> n, frac |-> f, digits |-> scale]>>
  BY <1>2 DEF printed, n, f, int, frac
<1>10. QED
  BY <1>8, <1>9

\* The values that the abstract specification calls printable are those whose
\* high word fits.
LEMMA PrintableFits ==
  ASSUME TypeOK,
         value \in 1 - (HalfWord * Pow[LoDigits]) .. (HalfWord * Pow[LoDigits]) - 1
  PROVE  Fits(value)
<1>0. LoDigits \in 0..MaxPow
  BY OutAssumption, NumbersAssumption
<1>1. HalfWord * Pow[LoDigits] \in Int
  <2>1. Pow[LoDigits] \in Int /\ HalfWord \in Int
    BY <1>0, PowType, HalfWordType
  <2>2. QED
    BY <2>1
<1> DEFINE limit == HalfWord * Pow[LoDigits]
<1>2. limit \in Int /\ value \in (1 - limit) .. (limit - 1)
  BY <1>1
<1> HIDE DEF limit
<1>3. -limit < value /\ value < limit
  BY <1>2
<1>4. QED
  BY <1>3 DEF Fits, limit

\* Printing has exactly the effect the abstract specification promises: one
\* step that returns a text, the decimal where the high word is an int64_t.
THEOREM PrintsDecimal == Spec => Text!Spec
<1>1. Init => IInv /\ Text!Init
  BY SizeInit DEF Init, IInv, Text!Init, printed
<1>2. IInv /\ IInv' /\ [Next]_vars => [Text!Deliver]_(Text!vars)
  <2> SUFFICES ASSUME IInv, IInv', [Next]_vars PROVE [Text!Deliver]_(Text!vars)
    OBVIOUS
  <2>1. CASE UNCHANGED vars
    BY <2>1 DEF vars, Text!vars, printed
  <2>2. CASE Next
    <3>1. pc \notin {"done", "overrun"} /\ value' = value /\ scale' = scale
      <4>1. pc \notin {"done", "overrun"}
        BY <2>2 DEF Next, Split, Counted, CountedDigit, CountedChunk, EndCase1,
                    EndLo2A, EndHi2A, EndFrac2B, EndInt2B, Tail, TailChunk,
                    TailDigit, EndTail
      <4>2. QED
        BY <2>2, <4>1, ArgumentKept
    <3>2. printed = <<>>
      BY <3>1 DEF printed
    <3>3. CASE pc' \notin {"done", "overrun"}
      BY <3>1, <3>2, <3>3 DEF printed, Text!vars
    <3>4. CASE pc' \in {"done", "overrun"}
      <4>1. ASSUME value \in 1 - (HalfWord * Pow[LoDigits]) .. (HalfWord * Pow[LoDigits]) - 1,
                   scale <= MaxDigits
            PROVE  printed' = <<Text!Decimal(value, scale)>>
        <5>1. Fits(value)
          BY <4>1, PrintableFits DEF IInv, TypeInv
        <5>2. Finished'
          <6>1. OfCast' /\ IInv' /\ pc' # "overrun"
            BY <3>1, <4>1 DEF OfCast, IInv, CastInv, SizeInv
          <6>2. QED
            BY <3>1, <3>4, <5>1, <6>1 DEF Finished, Fits
        <5>3. PrintedDecimal'
          BY <5>2, TextIsDecimal, PTL
        <5>4. QED
          BY <3>1, <5>3 DEF PrintedDecimal, Text!Decimal, Text!Absolute
      <4>2. printed' # <<>>
        BY <3>4 DEF printed
      <4>3. QED
        BY <3>1, <3>2, <4>1, <4>2 DEF Text!Deliver
    <3>5. QED
      BY <3>3, <3>4
  <2>3. QED
    BY <2>1, <2>2
<1>3. QED
  BY <1>1, <1>2, ValueNext, PTL DEF Spec, Text!Spec

-----------------------------------------------------------------------------
(***************************************************************************)
(* How long a call runs.  Every step either writes a digit or goes on to a *)
(* later loop, whatever the words hold; with TypeInv this bounds the steps *)
(* of every call.                                                          *)
(***************************************************************************)
Rank ==
  CASE pc = "call" -> 0
    [] pc = "frac_lo" -> 1
    [] pc \in {"frac_hi", "int_lo"} -> 2
    [] pc \in Tail -> 3
    [] OTHER -> 4

Progress == Rank + int.len + frac.len

LEMMA RankType == Rank \in 0..4
  BY DEF Rank

\* A step takes digits from a word, or leaves the text alone and goes on.
LEMMA NextSplits ==
  ASSUME TypeOK, Next
  PROVE  \/ \E phase \in Phases, c \in 1..MaxPow : Emit(phase, c) /\ UNCHANGED pc
         \/ UNCHANGED <<text, garbled>> /\ Rank < Rank'
<1>1. CASE Split
  BY <1>1 DEF Split, Rank, Tail
<1>2. CASE \E phase \in Counted : CountedDigit(phase) \/ CountedChunk(phase)
  <2>1. PICK phase \in Counted : CountedDigit(phase) \/ CountedChunk(phase)
    BY <1>2
  <2>2. phase \in Phases
    BY DEF Phases
  <2>3. PICK c \in 1..MaxPow : pc = phase /\ Write(phase, c)
    BY <2>1, CountedStep
  <2>4. QED
    BY <2>2, <2>3 DEF Write, Rank, Counted, Tail
<1>3. CASE \E phase \in Tail : TailChunk(phase) \/ TailDigit(phase)
  <2>1. PICK phase \in Tail : TailChunk(phase) \/ TailDigit(phase)
    BY <1>3
  <2>2. phase \in Phases
    BY DEF Phases
  <2>3. PICK c \in 1..MaxPow : pc = phase /\ Write(phase, c)
    BY <2>1, TailStep
  <2>4. QED
    BY <2>2, <2>3 DEF Write, Rank, Tail
<1>4. CASE EndCase1
  BY <1>4 DEF EndCase1, WriteDot, Rank, Tail
<1>5. CASE EndLo2A
  BY <1>5 DEF EndLo2A, Rank, Tail
<1>6. CASE EndHi2A
  BY <1>6 DEF EndHi2A, WriteDot, Rank, Tail
<1>7. CASE EndFrac2B
  BY <1>7 DEF EndFrac2B, WriteDot, Rank, Tail
<1>8. CASE EndInt2B
  BY <1>8 DEF EndInt2B, Rank, Tail
<1>9. CASE \E phase \in Tail : EndTail(phase)
  <2>1. pc \in Tail /\ pc' = "done" /\ UNCHANGED <<text, garbled>>
    BY <1>9 DEF EndTail
  <2>2. Rank = 3 /\ Rank' = 4
    BY <2>1 DEF Rank, Tail
  <2>3. QED
    BY <2>1, <2>2
<1>10. QED
  BY <1>1, <1>2, <1>3, <1>4, <1>5, <1>6, <1>7, <1>8, <1>9 DEF Next

\* Writing digits makes one of the two parts longer.
LEMMA EmitLengthens ==
  ASSUME TypeInv, NEW phase \in Phases, NEW c \in 1..MaxPow, Emit(phase, c)
  PROVE  int.len' + frac.len' = int.len + frac.len + c
<1>1. TypeOK /\ PartOf(phase) \in {"int", "frac"} /\ c \in 0..MaxPow
  BY DEF TypeInv, PartOf
<1>2. /\ int.len \in Nat /\ frac.len \in Nat /\ c \in Nat
      /\ int.len <= MaxPow /\ frac.len <= MaxPow
  BY <1>1, UsedBounds, NumbersAssumption, OutAssumption
<1>3. text[PartOf(phase)].len <= MaxPow
  BY <1>1, <1>2 DEF int, frac
<1>4. \A p \in Parts : text'[p].len
        = IF p = PartOf(phase) THEN text[p].len + c ELSE text[p].len
  BY <1>1, <1>3, EmitSize
<1>5. /\ int.len' = IF PartOf(phase) = "int" THEN int.len + c ELSE int.len
      /\ frac.len' = IF PartOf(phase) = "frac" THEN frac.len + c ELSE frac.len
  BY <1>4 DEF Parts, int, frac
<1>6. QED
  BY <1>1, <1>2, <1>5

StepsAdvance == [][Progress < Progress']_vars

\* Every call is over after at most BufSize + 3 steps, whatever value and scale
\* it is given, and after at most MaxDigits + 4 if a cast has made the object:
\* each step makes progress, for words of either sign, and the progress is
\* bounded.
THEOREM StepsBounded ==
  Spec => /\ StepsAdvance
          /\ [](Progress \in 0..(BufSize + 3) /\ (OfCast => Progress <= MaxDigits + 4))
<1>1. TypeInv /\ CastInv
        => Progress \in 0..(BufSize + 3) /\ (OfCast => Progress <= MaxDigits + 4)
  <2> SUFFICES ASSUME TypeInv, CastInv
               PROVE  /\ Progress \in 0..(BufSize + 3)
                      /\ OfCast => Progress <= MaxDigits + 4
    OBVIOUS
  <2>1. Progress \in 0..(BufSize + 3)
    BY UsedBounds, RankType DEF Progress
  <2>2. OfCast => Progress <= MaxDigits + 4
    <3>1. int.len \in Nat /\ frac.len \in Nat /\ MaxDigits \in Nat
      BY SizeTypes DEF TypeInv
    <3>2. OfCast => frac.len + int.len <= MaxDigits
      BY DEF CastInv, SizeInv
    <3>3. QED
      BY <3>1, <3>2, RankType DEF Progress
  <2>3. QED
    BY <2>1, <2>2
<1>2. TypeInv /\ TypeInv' /\ [Next]_vars => [Progress < Progress']_vars
  <2>1. SUFFICES ASSUME TypeInv, TypeInv', Next PROVE Progress < Progress'
    OBVIOUS
  <2>2. /\ int.len \in Nat /\ frac.len \in Nat /\ Rank \in 0..4
        /\ int.len' \in Nat /\ frac.len' \in Nat /\ Rank' \in 0..4
    <3>1. TypeOK /\ TypeOK'
      BY <2>1 DEF TypeInv
    <3>2. int.len' \in Nat /\ frac.len' \in Nat
      BY <3>1 DEF TypeOK, Parts, int, frac
    <3>3. Rank' \in 0..4
      BY DEF Rank
    <3>4. QED
      BY <3>1, <3>2, <3>3, SizeTypes, RankType
  <2>3. CASE \E phase \in Phases, c \in 1..MaxPow : Emit(phase, c) /\ UNCHANGED pc
    <3>1. PICK phase \in Phases, c \in 1..MaxPow : Emit(phase, c) /\ UNCHANGED pc
      BY <2>3
    <3>2. int.len' + frac.len' = int.len + frac.len + c
      BY <2>1, <3>1, EmitLengthens
    <3>3. Rank' = Rank
      BY <3>1 DEF Rank
    <3>4. QED
      BY <2>2, <3>2, <3>3, NumbersAssumption DEF Progress
  <2>4. CASE UNCHANGED <<text, garbled>> /\ Rank < Rank'
    <3>1. int' = int /\ frac' = frac
      BY <2>4 DEF int, frac
    <3>2. QED
      BY <2>2, <2>4, <3>1 DEF Progress
  <2>5. QED
    BY <2>1, <2>3, <2>4, NextSplits DEF TypeInv
<1>3. QED
  BY <1>1, <1>2, SizeInvariant, PTL DEF Spec, StepsAdvance

-----------------------------------------------------------------------------
(***************************************************************************)
(* What a text of the model stands for.  The buffer holds characters; the  *)
(* model keeps, of each part, how many there are and the number they       *)
(* spell.  Nothing is lost by that, and nothing written is changed.        *)
(***************************************************************************)
\* The string d is what a length and a number stand for.
StandsFor(t, d) == d \in Strings(t.len) /\ SpelledBy(t.num, d, t.len)

\* A number below the power of its length stands for one string.
LEMMA HoldsOne ==
  ASSUME NEW t, t.len \in 0..MaxPow, t.num \in 0..(Pow[t.len] - 1)
  PROVE  \E d : StandsFor(t, d) /\ \A e : StandsFor(t, e) => e = d
<1>1. PICK d \in Strings(t.len) : SpelledBy(t.num, d, t.len)
  BY StringExists
<1>2. ASSUME NEW e, StandsFor(t, e) PROVE e = d
  BY <1>1, <1>2, StringUnique DEF StandsFor
<1>3. QED
  BY <1>1, <1>2 DEF StandsFor

StringInv ==
  ~garbled => \A p \in Parts : text[p].num \in 0..(Pow[text[p].len] - 1)

LEMMA PartTypes ==
  ASSUME TypeInv, NEW p \in Parts
  PROVE  text[p] \in [len : Nat, num : Int] /\ text[p].len \in 0..MaxPow
<1>1. TypeOK
  BY DEF TypeInv
<1>2. text[p] \in [len : Nat, num : Int] /\ text[p] \in {int, frac}
  BY <1>1 DEF TypeOK, Parts, int, frac
<1>3. QED
  BY <1>1, <1>2, SizeTypes, UsedBounds

\* What a step does to a part is to push digits to its front, perhaps none.
LEMMA StepPushes ==
  ASSUME TypeInv, TypeInv', Next, ~garbled', NEW p \in Parts
  PROVE  /\ ~garbled
         /\ \E c \in 0..MaxPow : \E r \in 0..(Pow[c] - 1) :
              text'[p] = Push(text[p], Entry(r, c))
<1>1. text[p] \in [len : Nat, num : Int] /\ text[p].len \in 0..MaxPow
  BY PartTypes
<1>2. 0 \in 0..MaxPow /\ 0 \in 0..(Pow[0] - 1)
  BY NumbersAssumption, PowAssumption
<1>3. Push(text[p], Entry(0, 0)) = text[p]
  <2> DEFINE t == text[p]
  <2>1. t \in [len : Nat, num : Int] /\ Pow[t.len] \in Int
    BY <1>1, PowType
  <2> HIDE DEF t
  <2>2. t.len + 0 = t.len /\ t.num + (0 * Pow[t.len]) = t.num
    BY <2>1
  <2>3. Push(t, Entry(0, 0)) = [len |-> t.len, num |-> t.num]
    BY <2>2 DEF Push, Entry
  <2>4. QED
    BY <2>1, <2>3 DEF t
<1>4. TypeOK
  BY DEF TypeInv
<1>5. CASE UNCHANGED <<text, garbled>>
  BY <1>2, <1>3, <1>5
<1>6. CASE \E phase \in Phases, c \in 1..MaxPow : Emit(phase, c) /\ UNCHANGED pc
  <2>1. PICK phase \in Phases, c \in 1..MaxPow : Emit(phase, c)
    BY <1>6
  <2> DEFINE w == word[WordOf(phase)]
             r == CMod(w, Pow[c])
  <2>2. w \in Int
    BY <1>4 DEF TypeOK, WordOf, Words
  <2>3. c \in 0..MaxPow /\ Pow[c] \in Nat /\ Pow[c] > 0
    BY PowType, NumbersAssumption
  <2>4. r \in -(Pow[c] - 1) .. (Pow[c] - 1)
    BY <2>2, <2>3, CModBound
  <2>5. /\ text' = [text EXCEPT ![PartOf(phase)] = Push(@, Entry(r, c))]
        /\ garbled' = (garbled \/ r < 0)
    BY <2>1 DEF Emit
  <2> HIDE DEF r
  <2>6. ~garbled /\ ~ (r < 0)
    BY <2>5
  <2>7. r \in 0..(Pow[c] - 1)
    BY <2>3, <2>4, <2>6
  <2>8. text'[p] = IF p = PartOf(phase) THEN Push(text[p], Entry(r, c)) ELSE text[p]
    BY <1>4, <2>5 DEF TypeOK
  <2>9. CASE p = PartOf(phase)
    BY <2>3, <2>6, <2>7, <2>8, <2>9
  <2>10. CASE p # PartOf(phase)
    BY <1>2, <1>3, <2>6, <2>8, <2>10
  <2>11. QED
    BY <2>9, <2>10
<1>7. QED
  BY <1>4, <1>5, <1>6, NextSplits

\* The number of a part stays below the power of its length.
LEMMA StringNext == TypeInv /\ TypeInv' /\ StringInv /\ [Next]_vars => StringInv'
<1> SUFFICES ASSUME TypeInv, TypeInv', StringInv, [Next]_vars,
                    ~garbled', NEW p \in Parts
             PROVE  text'[p].num \in 0..(Pow[text'[p].len] - 1)
  BY DEF StringInv
<1>1. CASE UNCHANGED vars
  BY <1>1 DEF vars, StringInv
<1>2. CASE Next
  <2>1. PICK c \in 0..MaxPow : \E r \in 0..(Pow[c] - 1) :
          ~garbled /\ text'[p] = Push(text[p], Entry(r, c))
    BY <1>2, StepPushes
  <2>2. PICK r \in 0..(Pow[c] - 1) : ~garbled /\ text'[p] = Push(text[p], Entry(r, c))
    BY <2>1
  <2> DEFINE n == text[p].len
             num == text[p].num
  <2>3. num \in 0..(Pow[n] - 1)
    BY <2>2 DEF StringInv
  <2>4. text'[p].len = n + c /\ text'[p].num = num + (r * Pow[n])
    BY <2>2 DEF Push, Entry
  <2>5. n \in Nat /\ c \in Nat /\ n + c <= MaxPow /\ r \in Nat /\ r < Pow[c]
    <3>1. text'[p].len \in 0..MaxPow
      <4>1. TypeInv' => (text[p].len \in 0..MaxPow)'
        BY PartTypes, PTL
      <4>2. QED
        BY <4>1
    <3>2. n \in 0..MaxPow /\ Pow[c] \in Nat
      BY PartTypes, PowType
    <3>3. QED
      BY <2>4, <3>1, <3>2, NumbersAssumption
  <2> HIDE DEF n, num
  <2>6. num + (r * Pow[n]) \in 0..(Pow[n + c] - 1)
    BY <2>3, <2>5, TakeDigits, 0 \in Nat
  <2>7. QED
    BY <2>4, <2>6
<1>3. QED
  BY <1>1, <1>2

LEMMA StringInvariant == Spec => []StringInv
<1>1. Init => StringInv
  BY PowAssumption DEF Init, StringInv, NoDigits
<1>2. QED
  BY <1>1, StringNext, SizeInvariant, PTL DEF Spec

\* What the model keeps of a text determines it: as long as only digits are
\* written, the length and the number of each part stand for one string.
THEOREM TextIsString ==
  Spec => [](~garbled => \A p \in Parts :
               \E d : StandsFor(text[p], d) /\ \A e : StandsFor(text[p], e) => e = d)
<1>1. TypeInv /\ StringInv
        => (~garbled => \A p \in Parts :
              \E d : StandsFor(text[p], d) /\ \A e : StandsFor(text[p], e) => e = d)
  BY PartTypes, HoldsOne DEF StringInv
<1>2. QED
  BY <1>1, SizeInvariant, StringInvariant, PTL

\* The strings before and after a step agree on the places written before.
DigitsKept ==
  ~garbled' => \A p \in Parts : \A d, e :
    StandsFor(text[p], d) /\ StandsFor(text'[p], e)
      => /\ text[p].len <= text'[p].len
         /\ \A i \in 0..(text[p].len - 1) : e[i] = d[i]

\* A digit that is written is not changed again: the buffer is filled from its
\* end, each step putting its digits in front of those already there.
THEOREM DigitsStay == Spec => [][DigitsKept]_vars
<1>1. TypeInv /\ TypeInv' /\ StringInv /\ StringInv' /\ [Next]_vars => [DigitsKept]_vars
  <2> SUFFICES ASSUME TypeInv, TypeInv', StringInv, Next, ~garbled', NEW p \in Parts,
                      NEW d, NEW e, StandsFor(text[p], d), StandsFor(text'[p], e)
               PROVE  /\ text[p].len <= text'[p].len
                      /\ \A i \in 0..(text[p].len - 1) : e[i] = d[i]
    BY DEF DigitsKept
  <2>1. PICK c \in 0..MaxPow : \E r \in 0..(Pow[c] - 1) :
          text'[p] = Push(text[p], Entry(r, c))
    BY StepPushes
  <2>2. PICK r \in 0..(Pow[c] - 1) : text'[p] = Push(text[p], Entry(r, c))
    BY <2>1
  <2> DEFINE n == text[p].len
             num == text[p].num
  <2>3. text'[p].len = n + c /\ text'[p].num = num + (r * Pow[n])
    BY <2>2 DEF Push, Entry
  <2>4. n \in Nat /\ num \in Int /\ c \in Nat /\ r \in Int /\ n + c \in 0..MaxPow
    <3>1. text'[p].len \in 0..MaxPow
      <4>1. TypeInv' => (text[p].len \in 0..MaxPow)'
        BY PartTypes, PTL
      <4>2. QED
        BY <4>1
    <3>2. n \in 0..MaxPow /\ num \in Int /\ Pow[c] \in Nat
      BY PartTypes, PowType
    <3>3. QED
      BY <2>3, <3>1, <3>2, NumbersAssumption
  <2>5. PICK g \in Strings(c) : SpelledBy(r, g, c)
    BY StringExists
  <2>6. d \in Strings(n) /\ SpelledBy(num, d, n)
    BY DEF StandsFor
  <2>7. e \in Strings(n + c) /\ SpelledBy(num + (r * Pow[n]), e, n + c)
    BY <2>3 DEF StandsFor
  <2> HIDE DEF n, num
  <2>8. /\ InFront(g, c, d, n) \in Strings(n + c)
        /\ SpelledBy(num + (r * Pow[n]), InFront(g, c, d, n), n + c)
    <3>1. n + c <= MaxPow
      BY <2>4, NumbersAssumption
    <3>2. QED
      BY <2>4, <2>5, <2>6, <3>1, InFrontSpells
  <2>9. e = InFront(g, c, d, n)
    BY <2>4, <2>7, <2>8, StringUnique
  <2>10. n <= n + c /\ \A i \in 0..(n - 1) : e[i] = d[i]
    BY <2>4, <2>9 DEF InFront
  <2>11. QED
    BY <2>3, <2>10 DEF n
<1>2. QED
  BY <1>1, SizeInvariant, StringInvariant, PTL DEF Spec

=============================================================================
