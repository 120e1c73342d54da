------------------------- MODULE FxyPtyExactProofs -------------------------
(***************************************************************************)
(* Proofs that statements compute with exact numbers, where all modifiers  *)
(* have one scale and the tests' discipline is kept: each operator gives   *)
(* the number it promises, comparisons are those of the numbers, and       *)
(* FxyPtySession implements FxyPtyExact, for all widths, all literals and  *)
(* any number of values and cells.                                         *)
(***************************************************************************)
EXTENDS FxyPtySessionProofs, FxyPtyPlannerProofs

\* Units of the last digit, and units per unit of a stored integer's scale.
Grain == Pow[MaxDigits - ColumnScale]
One == Pow[MaxDigits]
Weight == Pow[ColumnScale]

LEMMA Units ==
  /\ Grain \in Nat /\ Grain > 0 /\ One \in Nat /\ One > 0
  /\ Weight \in Nat /\ Weight > 0 /\ One = Weight * Grain
<1> DEFINE s == ColumnScale
           t == MaxDigits - ColumnScale
<1>1. s \in 0..MaxDigits /\ MaxDigits \in 0..MaxPow /\ MaxDigits \in Nat
  BY SessionAssumption, NumbersAssumption
<1>2. s \in Nat /\ t \in Nat /\ s + t = MaxDigits /\ s + t <= MaxPow
      /\ s \in 0..MaxPow /\ t \in 0..MaxPow
  BY <1>1, NumbersAssumption
<1> HIDE DEF s, t
<1>3. Pow[s + t] = Pow[s] * Pow[t]
  BY <1>2, PowSum
<1>4. QED
  BY <1>1, <1>2, <1>3, PowType DEF Grain, One, Weight, s, t

-----------------------------------------------------------------------------
(***************************************************************************)
(* Numbers in units, and stored integers.                                  *)
(***************************************************************************)
\* Scaling both sides of an inequality by a positive number.
LEMMA ScaleWithin ==
  ASSUME NEW e \in Int, NEW b \in Int, NEW k \in Nat, k > 0
  PROVE  Exact!Within(e, b) <=> Exact!Within(e * k, b * k)
<1>1. e < b <=> e * k < b * k
  OBVIOUS
<1>2. -b < e <=> -(b * k) < e * k
  <2> DEFINE c == -b
  <2>1. c \in Int /\ c * k = -(b * k)
    OBVIOUS
  <2> HIDE DEF c
  <2>2. c < e <=> c * k < e * k
    BY <2>1
  <2>3. QED
    BY <2>1, <2>2 DEF c
<1>3. QED
  BY <1>1, <1>2 DEF Exact!Within

LEMMA SumExact ==
  ASSUME NEW x \in Int, NEW y \in Int
  PROVE  /\ (x + y) * Grain = (x * Grain) + (y * Grain)
         /\ (x - y) * Grain = (x * Grain) - (y * Grain)
BY Units

LEMMA OrderExact ==
  ASSUME NEW x \in Int, NEW y \in Int
  PROVE  /\ x * Grain < y * Grain <=> x < y
         /\ x * Grain = y * Grain <=> x = y
         /\ x * Grain \in Int /\ y * Grain \in Int
BY Units

LEMMA ProductExact ==
  ASSUME NEW x \in Int, NEW y \in Int, NEW z \in LibMultiply(x, y, ColumnScale)
  PROVE  Exact!Within(((z * Grain) * One) - ((x * Grain) * (y * Grain)), Grain * One)
<1> DEFINE a == x * y
           w == Weight
           g == Grain
           k == g * g
<1>1. a \in Int /\ w \in Nat /\ w > 0 /\ g \in Nat /\ g > 0
  BY Units
<1>2. z \in {a \div w, -((-a) \div w)}
  BY DEF LibMultiply, Quotients, Weight
<1> HIDE DEF a, w, g
<1>3. z \in Int /\ -w < (z * w) - a /\ (z * w) - a < w
  BY <1>1, <1>2, NeighbourNear
<1>4. k \in Nat /\ k > 0
  BY <1>1
<1> DEFINE e == (z * w) - a
<1>5. e \in Int /\ Exact!Within(e, w)
  BY <1>1, <1>3 DEF Exact!Within
<1>6. e * k = ((z * w) * k) - (a * k) /\ (z * w) * k = (z * g) * (w * g)
      /\ w * k = g * (w * g)
  BY <1>1, <1>3
<1>7. a * k = (x * g) * (y * g)
  BY <1>1 DEF a
<1> HIDE DEF e, k
<1>8. Exact!Within(e * k, w * k)
  <2>1. w \in Int
    BY <1>1
  <2>2. QED
    BY <1>4, <1>5, <2>1, ScaleWithin, Zenon
<1>9. One = w * g
  BY Units DEF w, g
<1>10. QED
  BY <1>6, <1>7, <1>8, <1>9 DEF g

LEMMA QuotientExactly ==
  ASSUME NEW x \in Int, NEW y \in Int, NEW z \in LibDivide(x, y, ColumnScale)
  PROVE  /\ y # 0
         /\ Exact!Within(((z * Grain) * (y * Grain)) - ((x * Grain) * One),
                         IF y * Grain > 0 THEN Grain * (y * Grain)
                         ELSE Grain * (-(y * Grain)))
<1> DEFINE w == Weight
           g == Grain
           k == g * g
           m == IF y > 0 THEN y ELSE -y
           a == IF y > 0 THEN x * w ELSE -(x * w)
           e == (z * m) - a
<1>1. w \in Nat /\ w > 0 /\ g \in Nat /\ g > 0 /\ One = w * g
  BY Units
<1>2. y # 0
  BY DEF LibDivide
<1>3. m \in Nat /\ m > 0 /\ a \in Int
  BY <1>1, <1>2
<1>4. z \in {a \div m, -((-a) \div m)}
  <2>1. CASE y > 0
    BY <1>2, <2>1 DEF LibDivide, Quotients, Weight
  <2>2. CASE ~(y > 0)
    <3>1. -x * Pow[ColumnScale] = -(x * Pow[ColumnScale])
      BY <1>1 DEF Weight
    <3>2. QED
      BY <1>2, <2>2, <3>1 DEF LibDivide, Quotients, Weight
  <2>3. QED
    BY <2>1, <2>2
<1> HIDE DEF m, a, w, g
<1>5. z \in Int /\ -m < (z * m) - a /\ (z * m) - a < m
  BY <1>3, <1>4, NeighbourNear
<1>6. k \in Nat /\ k > 0 /\ e \in Int /\ Exact!Within(e, m)
  BY <1>1, <1>3, <1>5 DEF Exact!Within
<1> HIDE DEF e, k
<1>7. Exact!Within(e * k, m * k)
  <2>1. m \in Int
    BY <1>3
  <2>2. QED
    BY <1>6, <2>1, ScaleWithin, Zenon
<1>8. CASE y > 0
  <2>1. y * g > 0 /\ m * k = g * (y * g)
    BY <1>1, <1>8 DEF m, k
  <2>2. e * k = ((z * y) - (x * w)) * k
    BY <1>8 DEF e, m, a
  <2>3. ((z * y) - (x * w)) * k = ((z * g) * (y * g)) - ((x * g) * (w * g))
    BY <1>1, <1>5 DEF k
  <2>4. QED
    BY <1>1, <1>2, <1>7, <2>1, <2>2, <2>3 DEF g
<1>9. CASE ~(y > 0)
  <2>1. ~(y * g > 0) /\ m * k = g * (-(y * g))
    BY <1>1, <1>9 DEF m, k
  <2>2. e * k = ((z * (-y)) + (x * w)) * k
    BY <1>1, <1>5, <1>9 DEF e, m, a
  <2>3. ((z * (-y)) + (x * w)) * k = -(((z * g) * (y * g)) - ((x * g) * (w * g)))
    BY <1>1, <1>5 DEF k
  <2>4. ((z * g) * (y * g)) - ((x * g) * (w * g)) \in Int /\ m * k \in Int
    BY <1>1, <1>3, <1>5, <1>6
  <2>5. Exact!Within(((z * g) * (y * g)) - ((x * g) * (w * g)), m * k)
    BY <1>7, <2>2, <2>3, <2>4 DEF Exact!Within
  <2>6. QED
    BY <1>1, <1>2, <2>1, <2>5 DEF g
<1>10. QED
  BY <1>8, <1>9

-----------------------------------------------------------------------------
(***************************************************************************)
(* The objects of one scale.                                               *)
(***************************************************************************)
OneScale == Scales = {ColumnScale}

LEMMA NumberOf ==
  ASSUME OneScale, NEW o, InUse(o)
  PROVE  /\ o.kind = "decimal" /\ o.scale = ColumnScale
         /\ o \in StoredObjects
         /\ Value(o) \in Int /\ Number(o) = Value(o) * Grain
<1>1. o.kind = "decimal" /\ o.scale = ColumnScale /\ o \in Decimals
  BY DEF OneScale, InUse, Decimals
<1>2. o \in StoredObjects
  <2>1. Int64 \subseteq Int /\ 0..MaxDigits \subseteq Int
    BY HalfWordType, NumbersAssumption DEF Int64
  <2>2. QED
    BY <1>1, <2>1 DEF Decimals, StoredObjects
<1>3. Value(o) \in Int
  BY <1>2, ValueType
<1>4. Number(o) = Value(o) * Grain
  BY <1>1 DEF Number, Grain
<1>5. QED
  BY <1>1, <1>2, <1>3, <1>4

LEMMA NumberOfObject ==
  ASSUME NEW v \in Native
  PROVE  v \in Int /\ Number(Object(v, ColumnScale)) = v * Grain
<1>1. Value(Object(v, ColumnScale)) = v
  BY PackUnpack DEF Value, Object
<1>2. QED
  BY <1>1 DEF Number, Object, Grain, Native

LEMMA ArithmeticExact ==
  ASSUME OneScale, NEW op \in Operators, NEW a, NEW b, InUse(a), InUse(b),
         NEW d \in Arithmetic(op, a, b)
  PROVE  Exact!Gives(op, Number(a), Number(b), Number(d))
<1> DEFINE x == Value(a)
           y == Value(b)
<1>1. /\ x \in Int /\ y \in Int /\ a.scale = ColumnScale
      /\ Number(a) = x * Grain /\ Number(b) = y * Grain
  BY NumberOf
<1> HIDE DEF x, y
<1>2. CASE op = "+"
  <2>1. PICK z \in LibAdd(x, y) : d = Object(z, ColumnScale)
    BY <1>1, <1>2 DEF Arithmetic, Add, x, y
  <2>2. z \in Native /\ z = x + y
    BY DEF LibAdd
  <2>3. Number(d) = (x * Grain) + (y * Grain)
    BY <1>1, <2>1, <2>2, NumberOfObject, SumExact
  <2>4. QED
    BY <1>1, <1>2, <2>3 DEF Exact!Gives
<1>3. CASE op = "-"
  <2>1. PICK z \in LibSubtract(x, y) : d = Object(z, ColumnScale)
    BY <1>1, <1>3 DEF Arithmetic, Subtract, x, y
  <2>2. z \in Native /\ z = x - y
    BY DEF LibSubtract
  <2>3. Number(d) = (x * Grain) - (y * Grain)
    BY <1>1, <2>1, <2>2, NumberOfObject, SumExact
  <2>4. QED
    BY <1>1, <1>3, <2>3 DEF Exact!Gives
<1>4. CASE op = "*"
  <2>1. PICK z \in LibMultiply(x, y, ColumnScale) : d = Object(z, ColumnScale)
    BY <1>1, <1>4 DEF Arithmetic, Multiply, x, y
  <2>2. z \in Native
    BY DEF LibMultiply, Quotients
  <2>3. Number(d) = z * Grain
    BY <2>1, <2>2, NumberOfObject
  <2>4. Exact!Within(((z * Grain) * One) - ((x * Grain) * (y * Grain)), Grain * One)
    BY <1>1, ProductExact
  <2>5. QED
    BY <1>1, <1>4, <2>3, <2>4 DEF Exact!Gives, Grain, One
<1>5. CASE op = "/"
  <2>1. PICK z \in LibDivide(x, y, ColumnScale) : d = Object(z, ColumnScale)
    BY <1>1, <1>5 DEF Arithmetic, Divide, x, y
  <2>2. z \in Native
    BY DEF LibDivide, Quotients
  <2>3. Number(d) = z * Grain
    BY <2>1, <2>2, NumberOfObject
  <2>4. /\ y # 0
        /\ Exact!Within(((z * Grain) * (y * Grain)) - ((x * Grain) * One),
                        IF y * Grain > 0 THEN Grain * (y * Grain)
                        ELSE Grain * (-(y * Grain)))
    BY <1>1, QuotientExactly
  <2>5. y * Grain # 0
    BY <1>1, <2>4, Units
  <2>6. QED
    BY <1>1, <1>5, <2>3, <2>4, <2>5 DEF Exact!Gives, Grain, One
<1>6. QED
  BY <1>2, <1>3, <1>4, <1>5 DEF Operators

LEMMA ChoiceExact ==
  ASSUME OneScale, NEW op \in {"smaller", "larger"}, NEW a, NEW b, InUse(a), InUse(b)
  PROVE  Exact!Gives(op, Number(a), Number(b),
                     Number(IF IF op = "smaller" THEN FirstIsSmaller(a, b)
                                                 ELSE FirstIsLarger(a, b)
                            THEN a ELSE b))
<1> DEFINE x == Value(a)
           y == Value(b)
<1>1. /\ x \in Int /\ y \in Int
      /\ Number(a) = x * Grain /\ Number(b) = y * Grain
  BY NumberOf
<1>2. FirstIsSmaller(a, b) <=> x < y
  BY <1>1 DEF FirstIsSmaller, Compare, LibCompare
<1>3. FirstIsLarger(a, b) <=> x >= y
  BY <1>1 DEF FirstIsLarger, Compare, LibCompare
<1> HIDE DEF x, y
<1>4. /\ x * Grain < y * Grain <=> x < y
      /\ x * Grain > y * Grain <=> x > y
      /\ x * Grain = y * Grain <=> x = y
  BY <1>1, OrderExact, Units
<1>5. CASE op = "smaller"
  BY <1>1, <1>2, <1>4, <1>5 DEF Exact!Gives
<1>6. CASE op = "larger"
  BY <1>1, <1>3, <1>4, <1>6 DEF Exact!Gives
<1>7. QED
  BY <1>5, <1>6

LEMMA ComparisonExact ==
  ASSUME OneScale, NEW op \in Comparisons, NEW a, NEW b, InUse(a), InUse(b),
         NEW yes \in Answers(op, a, b)
  PROVE  yes \in BOOLEAN /\ yes = Exact!True(op, Number(a), Number(b))
<1> DEFINE x == Value(a)
           y == Value(b)
           u == Number(a)
           v == Number(b)
<1>1. /\ x \in Int /\ y \in Int /\ a \in StoredObjects /\ b \in StoredObjects
      /\ u = x * Grain /\ v = y * Grain
  BY NumberOf
<1>2. yes <=> Holds(op, a, b)
  BY <1>1, RewritingSafe
<1>3. yes \in BOOLEAN
  <2>1. Commutator[op] \in Comparisons
    BY DEF Commutator, Comparisons
  <2>2. QED
    BY <2>1, HoldsType DEF Answers
<1>4. /\ Holds("=", a, b) <=> x = y
      /\ Holds("<>", a, b) <=> x # y
      /\ Holds("<", a, b) <=> x < y
      /\ Holds(">", a, b) <=> x > y
      /\ Holds("<=", a, b) <=> x <= y
      /\ Holds(">=", a, b) <=> x >= y
  BY <1>1, HoldsOnValues
<1> HIDE DEF x, y
<1>5. /\ u < v <=> x < y
      /\ u > v <=> x > y
      /\ u = v <=> x = y
      /\ u <= v <=> x <= y
      /\ u >= v <=> x >= y
  BY <1>1, OrderExact, Units
<1> HIDE DEF u, v
<1>6. Exact!True(op, u, v) \in BOOLEAN /\ (Holds(op, a, b) <=> Exact!True(op, u, v))
  <2>1. CASE op = "="
    BY <1>4, <1>5, <2>1 DEF Exact!True
  <2>2. CASE op = "<>"
    BY <1>4, <1>5, <2>2 DEF Exact!True
  <2>3. CASE op = "<"
    BY <1>4, <1>5, <2>3 DEF Exact!True
  <2>4. CASE op = ">"
    BY <1>4, <1>5, <2>4 DEF Exact!True
  <2>5. CASE op = "<="
    BY <1>4, <1>5, <2>5 DEF Exact!True
  <2>6. CASE op = ">="
    BY <1>4, <1>5, <2>6 DEF Exact!True
  <2>7. QED
    BY <2>1, <2>2, <2>3, <2>4, <2>5, <2>6 DEF Comparisons
<1>7. QED
  BY <1>2, <1>3, <1>6 DEF u, v

\* A literal is the number of its first word, to the last digit of the scale.
LEMMA LiteralExact ==
  ASSUME NEW w \in Words, NEW d \in Parsed(Text(w), ColumnScale)
  PROVE  Exact!Rounded(Number(d))
<1>1. w \in [num : Int, frac : 0..MaxDigits]
  <2> DEFINE S == [num : Int, frac : 0..MaxDigits]
  <2>1. PICK l \in Literals \ {<<>>} : w = Head(l)
    BY DEF Words
  <2>2. l \in Seq(S) /\ l # <<>>
    BY <2>1, SessionAssumption
  <2> HIDE DEF S
  <2>3. w \in S
    BY <2>1, <2>2
  <2>4. QED
    BY <2>3 DEF S
<1> DEFINE n == w.num
           a == n * Weight
           b == Pow[w.frac]
           h == Pow[MaxDigits - w.frac]
           g == Grain
<1>2. /\ n \in Int /\ a \in Int /\ b \in Nat /\ b > 0 /\ h \in Nat /\ h > 0
      /\ b * h = One /\ g \in Nat /\ g > 0
  <2> DEFINE f == w.frac
             k == MaxDigits - w.frac
  <2>1. f \in Nat /\ k \in Nat /\ f + k = MaxDigits /\ f + k <= MaxPow
        /\ f \in 0..MaxPow /\ k \in 0..MaxPow
    BY <1>1, NumbersAssumption
  <2> HIDE DEF f, k
  <2>2. Pow[f] * Pow[k] = Pow[f + k]
    BY <2>1, PowSum
  <2>3. QED
    BY <1>1, <2>1, <2>2, PowType, Units DEF f, k, One
<1>3. PICK z \in Quotients(a, b) : d = Object(z, ColumnScale)
  BY DEF Parsed, Text, In, LibParse, Weight
<1>4. z \in Native /\ z \in {a \div b, -((-a) \div b)}
  BY DEF Quotients
<1> HIDE DEF a, b, h, g, n
<1>5. z \in Int /\ -b < (z * b) - a /\ (z * b) - a < b
  BY <1>2, <1>4, NeighbourNear
<1> DEFINE e == (z * b) - a
           o == (z * g) - (n * h)
<1>6. e \in Int /\ b \in Int /\ o \in Int /\ g \in Int /\ Exact!Within(e, b)
  BY <1>2, <1>5 DEF Exact!Within
<1>7. e * h = o * Weight /\ b * h = g * Weight
  <2>1. e * h = (z * (b * h)) - (a * h)
    BY <1>2, <1>5
  <2>2. b * h = Weight * g /\ a * h = (n * h) * Weight
    BY <1>2, Units DEF g, a
  <2>3. z * (Weight * g) = (z * g) * Weight
    BY <1>2, <1>5, Units
  <2>4. QED
    BY <1>2, <1>5, <2>1, <2>2, <2>3, Units
<1> HIDE DEF e, o
<1>8. Exact!Within(e * h, b * h)
  BY <1>2, <1>6, ScaleWithin, Zenon
<1>9. Exact!Within(o, g)
  <2>1. Exact!Within(o * Weight, g * Weight)
    BY <1>7, <1>8
  <2>2. QED
    BY <1>6, <2>1, Units, ScaleWithin, Zenon
<1>10. Number(d) = z * g
  BY <1>3, <1>4, NumberOfObject DEF g
<1>11. (z * g) % g = 0
  <2>1. z * g = (g * z) + 0 /\ z * g \in Int /\ 0 \in 0..(g - 1)
    BY <1>2, <1>5
  <2>2. QED
    BY <1>2, <1>5, <2>1, DivModUnique
<1>12. Number(Text(w)) = n * h
  BY DEF Number, Text, n, h
<1>13. Number(Text(w)) \in { Number(Text(t)) : t \in Words }
  OBVIOUS
<1>14. QED
  BY <1>9, <1>10, <1>11, <1>12, <1>13 DEF Exact!Rounded, o, g, Grain

-----------------------------------------------------------------------------
(***************************************************************************)
(* The refinement: every step of a statement maps to a step of FxyPtyExact *)
(* or to none.                                                             *)
(***************************************************************************)
Vals == [r \in Regs |-> IF IsSet(r) /\ ~Bare(r) THEN Number1(ObjectOf(r)) ELSE <<>>]
RowNumber == Number1(mem[RowCell])

LEMMA ValOf ==
  ASSUME SInv, NEW r \in Regs, IsSet(r), ~Bare(r)
  PROVE  /\ InUse(ObjectOf(r)) /\ Read(r) = {ObjectOf(r)}
         /\ Vals[r] = <<Number(ObjectOf(r))>> /\ Vals[r] # <<>>
         /\ Vals[r][1] = Number(ObjectOf(r))
<1>1. InUse(ObjectOf(r)) /\ Read(r) = {ObjectOf(r)}
  BY ReadsDecimal
<1>2. ObjectOf(r).kind # "free"
  BY <1>1 DEF InUse, Decimals
<1>3. Number1(ObjectOf(r)) = <<Number(ObjectOf(r))>>
  BY <1>2 DEF Number1
<1>4. Vals[r] = <<Number(ObjectOf(r))>>
  BY <1>3 DEF Vals
<1>5. QED
  BY <1>1, <1>4

LEMMA PutMaps ==
  ASSUME SInv, NEW r \in Regs, NEW bare \in BOOLEAN, NEW o, Put(r, bare, o)
  PROVE  /\ Vals'[r] = IF bare THEN <<>> ELSE Number1(o)
         /\ \A q \in Regs \ {r} : Vals'[q] = Vals[q]
         /\ RowNumber' = RowNumber
<1>1. PICK c \in Places, t \in Typmods :
        reg' = [reg EXCEPT ![r] = Ref(c, t, bare)] /\ mem'[c] = o
  BY DEF Put
<1>2. reg \in [Regs -> Values]
  BY TypeParts DEF SInv
<1>3. reg'[r] = Ref(c, t, bare) /\ \A q \in Regs \ {r} : reg'[q] = reg[q]
  BY <1>1, <1>2
<1>4. IsSet(r)' /\ Bare(r)' = bare /\ ObjectOf(r)' = o
  BY <1>1, <1>3 DEF IsSet, CellOf, Bare, ObjectOf, Ref, Unset
<1>5. Vals'[r] = IF bare THEN <<>> ELSE Number1(o)
  <2>1. Vals'[r] = IF IsSet(r)' /\ ~Bare(r)' THEN Number1(ObjectOf(r)') ELSE <<>>
    BY DEF Vals, Number1, Number, Value
  <2>2. QED
    BY <1>4, <2>1
<1>6. ASSUME NEW q \in Regs \ {r} PROVE Vals'[q] = Vals[q]
  <2>1. /\ IsSet(q)' <=> IsSet(q)
        /\ IsSet(q) => (Bare(q)' <=> Bare(q)) /\ ObjectOf(q)' = ObjectOf(q)
    BY <1>3 DEF IsSet, CellOf, Bare, ObjectOf, Put
  <2>2. Vals'[q] = IF IsSet(q)' /\ ~Bare(q)' THEN Number1(ObjectOf(q)') ELSE <<>>
    BY DEF Vals, Number1, Number, Value
  <2>3. Vals[q] = IF IsSet(q) /\ ~Bare(q) THEN Number1(ObjectOf(q)) ELSE <<>>
    BY DEF Vals
  <2>4. QED
    BY <2>1, <2>2, <2>3
<1>7. RowNumber' = RowNumber
  BY DEF Put, RowNumber, Number1, Number, Value
<1>8. QED
  BY <1>5, <1>6, <1>7

\* A new value that is the row's, a literal, or computed.
LEMMA EvaluateMaps ==
  ASSUME SInv, NEW r \in Regs, NEW o, InUse(o), Put(r, FALSE, o), reply' = <<>>,
         \/ o = mem[RowCell]
         \/ Exact!Rounded(Number(o))
         \/ \E p, q \in Regs : /\ IsSet(p) /\ ~Bare(p) /\ IsSet(q) /\ ~Bare(q)
                               /\ \E op \in Exact!Operators :
                                    Exact!Gives(op, Number(ObjectOf(p)),
                                                Number(ObjectOf(q)), Number(o))
  PROVE  Exact!Evaluate(r)
<1>1. o.kind # "free"
  BY DEF InUse, Decimals
<1>2. Number1(o) = <<Number(o)>>
  BY <1>1 DEF Number1
<1>3. /\ Vals'[r] = <<Number(o)>> /\ RowNumber' = RowNumber
      /\ \A q \in Regs \ {r} : Vals'[q] = Vals[q]
  BY <1>2, PutMaps
<1>4. Len(Vals'[r]) = 1 /\ Vals'[r][1] = Number(o)
  BY <1>3
<1>5. Exact!Fill(r)
  BY <1>3, <1>4 DEF Exact!Fill, Vals, RowNumber
<1>6. CASE o = mem[RowCell]
  <2>1. Vals'[r] = RowNumber
    BY <1>2, <1>3, <1>6 DEF RowNumber
  <2>2. QED
    BY <1>5, <2>1 DEF Exact!Evaluate, Vals, RowNumber
<1>7. CASE Exact!Rounded(Number(o))
  <2>1. Exact!Rounded(Vals'[r][1])
    BY <1>4, <1>7
  <2>2. QED
    BY <1>5, <2>1 DEF Exact!Evaluate, Vals
<1>8. ASSUME NEW p \in Regs, NEW q \in Regs,
             IsSet(p), ~Bare(p), IsSet(q), ~Bare(q),
             NEW op \in Exact!Operators,
             Exact!Gives(op, Number(ObjectOf(p)), Number(ObjectOf(q)), Number(o))
      PROVE  Exact!Evaluate(r)
  <2>1. /\ Vals[p] # <<>> /\ Vals[p][1] = Number(ObjectOf(p))
        /\ Vals[q] # <<>> /\ Vals[q][1] = Number(ObjectOf(q))
    BY <1>8, ValOf
  <2>2. Exact!Gives(op, Vals[p][1], Vals[q][1], Vals'[r][1])
    BY <1>4, <1>8, <2>1
  <2>3. Exact!Computed(Vals'[r][1])
    BY <1>8, <2>1, <2>2 DEF Exact!Computed, Vals
  <2>4. QED
    BY <1>5, <2>3 DEF Exact!Evaluate, Vals
<1>9. QED
  BY <1>6, <1>7, <1>8

\* A statement that ends leaves no value, and the row it is given.
LEMMA EndMaps ==
  ASSUME NEW o, EndWith(o)
  PROVE  Vals' = Exact!Nothing /\ RowNumber' = Number1(o) /\ reply' = <<>>
<1>1. \A r \in Regs : ~IsSet(r)'
  BY DEF EndWith, IsSet
<1>2. Vals' = [r \in Regs |-> <<>>]
  BY <1>1 DEF Vals, Number1, Number, Value
<1>3. mem'[RowCell] = o /\ reply' = <<>>
  BY DEF EndWith
<1>4. RowNumber' = Number1(o)
  BY <1>3 DEF RowNumber, Number1, Number, Value
<1>5. QED
  BY <1>2, <1>3, <1>4 DEF Exact!Nothing

LEMMA FinishMaps ==
  ASSUME End
  PROVE  Exact!Next
<1>1. Vals' = Exact!Nothing /\ RowNumber' = RowNumber /\ reply' = <<>>
  BY EndMaps DEF End, RowNumber
<1>2. Exact!Finish
  BY <1>1 DEF Exact!Finish, Vals, RowNumber
<1>3. QED
  BY <1>2 DEF Exact!Next

LEMMA LiteralMaps ==
  ASSUME SInv, NEW r \in Regs, NEW x \in Literals, Literal(r, x)
  PROVE  Exact!Next
<1>1. Put(r, TRUE, Text(Head(x))) /\ reply' = <<>>
  BY LiteralStep DEF Literal
<1>2. /\ Vals'[r] = <<>> /\ RowNumber' = RowNumber
      /\ \A q \in Regs \ {r} : Vals'[q] = Vals[q]
  BY <1>1, PutMaps
<1>3. Vals[r] = <<>>
  BY DEF Literal, Vals
<1>4. Vals' = Vals
  <2>1. \A q \in Regs : Vals'[q] = Vals[q]
    BY <1>2, <1>3
  <2>2. Vals = [q \in Regs |-> Vals[q]] /\ Vals' = [q \in Regs |-> Vals'[q]]
    BY DEF Vals
  <2>3. QED
    BY <2>1, <2>2
<1>5. Exact!Write
  BY <1>1, <1>2, <1>4 DEF Exact!Write, Vals, RowNumber
<1>6. QED
  BY <1>5 DEF Exact!Next

LEMMA CastMaps ==
  ASSUME OneScale, SInv, NEW r \in Regs, NEW t \in Scales, Bare(r), Cast(r, t)
  PROVE  Exact!Next
<1>1. t = ColumnScale /\ reply' = <<>> /\ IsSet(r)
  BY DEF OneScale, Cast
<1>2. PICK d \in Parsed(ObjectOf(r), t) : Put(r, FALSE, d)
  BY CastStep
<1>3. ObjectOf(r) \in TextObjects
  BY <1>1 DEF SInv, ValueInv, BareInv
<1>4. InUse(d)
  BY <1>3, ParsedType
<1>5. Exact!Rounded(Number(d))
  BY <1>1, <1>3, LiteralExact DEF TextObjects
<1>6. Exact!Evaluate(r)
  BY <1>1, <1>2, <1>4, <1>5, EvaluateMaps
<1>7. QED
  BY <1>6 DEF Exact!Next

\* What an operator puts in its place, for any two operands that are no bare
\* literals.
LEMMA OperateGives ==
  ASSUME OneScale, SInv, NEW op \in Operators, NEW p \in Regs, NEW q \in Regs,
         NEW r \in Regs, ~Bare(p), ~Bare(q), Operate(op, p, q, r)
  PROVE  \E d : /\ Put(r, FALSE, d) /\ InUse(d)
                /\ Exact!Gives(op, Number(ObjectOf(p)), Number(ObjectOf(q)), Number(d))
<1>1. IsSet(p) /\ IsSet(q)
  BY DEF Operate, Result
<1>2. InUse(ObjectOf(p)) /\ InUse(ObjectOf(q))
  BY <1>1, ReadsDecimal
<1>3. PICK d \in Arithmetic(op, ObjectOf(p), ObjectOf(q)) : Put(r, FALSE, d)
  BY OperateStep
<1>4. InUse(d) /\ Exact!Gives(op, Number(ObjectOf(p)), Number(ObjectOf(q)), Number(d))
  BY <1>2, ArithmeticType, ArithmeticExact
<1>5. QED
  BY <1>3, <1>4

LEMMA ChooseGives ==
  ASSUME OneScale, SInv, NEW op \in {"smaller", "larger"}, NEW p \in Regs, NEW q \in Regs,
         NEW r \in Regs, ~Bare(p), ~Bare(q), Choose(op, p, q, r)
  PROVE  \E d : /\ Put(r, FALSE, d) /\ InUse(d)
                /\ Exact!Gives(op, Number(ObjectOf(p)), Number(ObjectOf(q)), Number(d))
<1>1. IsSet(p) /\ IsSet(q)
  BY DEF Choose, Result
<1>2. InUse(ObjectOf(p)) /\ InUse(ObjectOf(q))
  BY <1>1, ReadsDecimal
<1> DEFINE a == ObjectOf(p)
           b == ObjectOf(q)
           d == IF IF op = "smaller" THEN FirstIsSmaller(a, b) ELSE FirstIsLarger(a, b)
                THEN a ELSE b
<1>3. ObjectOf(Chosen(op, p, q)) = d
  BY DEF Chosen
<1>4. Put(r, FALSE, d)
  BY <1>3, ChooseStep
<1>5. Exact!Gives(op, Number(a), Number(b), Number(d))
  BY <1>2, ChoiceExact
<1>6. InUse(d)
  BY <1>2
<1> HIDE DEF d
<1>7. QED
  BY <1>4, <1>5, <1>6

\* The answer to a comparison of two values that are no bare literals.
LEMMA AskGives ==
  ASSUME OneScale, SInv, NEW op \in Comparisons, NEW p \in Regs, NEW q \in Regs,
         ~Bare(p), ~Bare(q), Ask(op, p, q)
  PROVE  reply' = <<Exact!True(op, Number(ObjectOf(p)), Number(ObjectOf(q)))>>
<1>1. IsSet(p) /\ IsSet(q)
  BY DEF Ask
<1>2. /\ InUse(ObjectOf(p)) /\ Read(p) = {ObjectOf(p)}
      /\ InUse(ObjectOf(q)) /\ Read(q) = {ObjectOf(q)}
  BY <1>1, ReadsDecimal
<1>3. PICK yes \in Answers(op, ObjectOf(p), ObjectOf(q)) : reply' = <<yes>>
  BY <1>2 DEF Ask
<1>4. yes = Exact!True(op, Number(ObjectOf(p)), Number(ObjectOf(q)))
  BY <1>2, ComparisonExact
<1>5. QED
  BY <1>3, <1>4

LEMMA OperatorsMap ==
  ASSUME OneScale, SInv, NEW p \in Regs, NEW q \in Regs,
         IsSet(p), ~Bare(p), IsSet(q), ~Bare(q)
  PROVE  /\ \A op \in Operators, r \in Regs : Operate(op, p, q, r) => Exact!Next
         /\ \A op \in {"smaller", "larger"}, r \in Regs : Choose(op, p, q, r) => Exact!Next
         /\ \A op \in Comparisons : Ask(op, p, q) => Exact!Next
<1>1. ASSUME NEW op \in Operators, NEW r \in Regs, Operate(op, p, q, r)
      PROVE  Exact!Next
  <2>1. op \in Exact!Operators /\ reply' = <<>>
    BY <1>1 DEF Operators, Exact!Operators, Operate
  <2>2. PICK d : /\ Put(r, FALSE, d) /\ InUse(d)
                 /\ Exact!Gives(op, Number(ObjectOf(p)), Number(ObjectOf(q)), Number(d))
    BY <1>1, OperateGives
  <2>3. Exact!Evaluate(r)
    BY <2>1, <2>2, EvaluateMaps
  <2>4. QED
    BY <2>3 DEF Exact!Next
<1>2. ASSUME NEW op \in {"smaller", "larger"}, NEW r \in Regs, Choose(op, p, q, r)
      PROVE  Exact!Next
  <2>1. op \in Exact!Operators /\ reply' = <<>>
    BY <1>2 DEF Exact!Operators, Choose
  <2>2. PICK d : /\ Put(r, FALSE, d) /\ InUse(d)
                 /\ Exact!Gives(op, Number(ObjectOf(p)), Number(ObjectOf(q)), Number(d))
    BY <1>2, ChooseGives
  <2>3. Exact!Evaluate(r)
    BY <2>1, <2>2, EvaluateMaps
  <2>4. QED
    BY <2>3 DEF Exact!Next
<1>3. ASSUME NEW op \in Comparisons, Ask(op, p, q)
      PROVE  Exact!Next
  <2>1. /\ Vals[p] # <<>> /\ Vals[p][1] = Number(ObjectOf(p))
        /\ Vals[q] # <<>> /\ Vals[q][1] = Number(ObjectOf(q))
    BY ValOf
  <2>2. reply' = <<Exact!True(op, Vals[p][1], Vals[q][1])>>
    BY <1>3, <2>1, AskGives
  <2>3. Vals' = Vals /\ RowNumber' = RowNumber
    BY <1>3 DEF Ask, Vals, RowNumber, IsSet, Bare, ObjectOf, CellOf, Number1, Number, Value
  <2>4. Exact!Ask(op, p, q)
    BY <2>1, <2>2, <2>3 DEF Exact!Ask, Vals, RowNumber
  <2>5. QED
    BY <2>4 DEF Exact!Next, Comparisons
<1>4. QED
  BY <1>1, <1>2, <1>3

LEMMA StoreMaps ==
  ASSUME SInv, NEW r \in Regs, ~Bare(r), Store(r)
  PROVE  Exact!Next
<1>1. IsSet(r) /\ EndWith(ObjectOf(r))
  BY DEF Store
<1>2. Vals[r] # <<>> /\ Vals[r] = Number1(ObjectOf(r))
  BY <1>1, ValOf DEF Vals
<1>3. Vals' = Exact!Nothing /\ RowNumber' = Vals[r] /\ reply' = <<>>
  BY <1>1, <1>2, EndMaps
<1>4. Exact!Store(r)
  BY <1>2, <1>3 DEF Exact!Store, Vals, RowNumber
<1>5. QED
  BY <1>4 DEF Exact!Next

LEMMA FetchMaps ==
  ASSUME SInv, NEW r \in Regs, Fetch(r)
  PROVE  Exact!Next
<1>1. Put(r, FALSE, mem[RowCell]) /\ reply' = <<>>
  BY FetchStep DEF Fetch
<1>2. InUse(mem[RowCell])
  BY DEF SInv, Fetch
<1>3. Exact!Evaluate(r)
  BY <1>1, <1>2, EvaluateMaps
<1>4. QED
  BY <1>3 DEF Exact!Next

LEMMA StepMaps ==
  ASSUME OneScale, SInv, Disciplined
  PROVE  Exact!Next
<1>1. CASE \E r \in Regs, x \in Literals : Literal(r, x)
  BY <1>1, LiteralMaps
<1>2. CASE End
  BY <1>2, FinishMaps
<1>3. CASE \E x \in Literals : LiteralError(x)
  BY <1>2, <1>3 DEF LiteralError
<1>4. CASE \E r \in Regs, t \in Scales : IsSet(r) /\ Bare(r) /\ Cast(r, t)
  BY <1>4, CastMaps
<1>5. CASE \E r \in Regs, t \in Scales : IsSet(r) /\ Bare(r) /\ CastError(r, t)
  BY <1>2, <1>5 DEF CastError
<1>6. ASSUME NEW p \in { r \in Regs : IsSet(r) /\ ~Bare(r) },
             NEW q \in { r \in Regs : IsSet(r) /\ ~Bare(r) },
             \/ \E op \in Operators, r \in Regs : Operate(op, p, q, r)
             \/ \E op \in Operators : OperateError(op, p, q)
             \/ \E op \in {"smaller", "larger"}, r \in Regs : Choose(op, p, q, r)
             \/ \E op \in Comparisons : Ask(op, p, q)
             \/ Store(p)
      PROVE  Exact!Next
  <2>0. p \in Regs /\ IsSet(p) /\ ~Bare(p) /\ q \in Regs /\ IsSet(q) /\ ~Bare(q)
    OBVIOUS
  <2>1. CASE \E op \in Operators, r \in Regs : Operate(op, p, q, r)
    BY <2>0, <2>1, OperatorsMap
  <2>2. CASE \E op \in Operators : OperateError(op, p, q)
    BY <1>2, <2>2 DEF OperateError
  <2>3. CASE \E op \in {"smaller", "larger"}, r \in Regs : Choose(op, p, q, r)
    BY <2>0, <2>3, OperatorsMap
  <2>4. CASE \E op \in Comparisons : Ask(op, p, q)
    BY <2>0, <2>4, OperatorsMap
  <2>5. CASE Store(p)
    BY <2>0, <2>5, StoreMaps
  <2>6. QED
    BY <1>6, <2>1, <2>2, <2>3, <2>4, <2>5
<1>7. CASE \E r \in Regs : Fetch(r)
  BY <1>7, FetchMaps
<1>8. QED
  BY <1>1, <1>2, <1>3, <1>4, <1>5, <1>6, <1>7 DEF Disciplined

-----------------------------------------------------------------------------
\* With one scale and literals that are cast before use, what fxypty_in, the
\* casts, the operators, comparisons, minimum and maximum, and the row make of
\* a statement is a computation with exact numbers.
THEOREM SessionExact == OneScale => (CastFirstSpec => ImplementsExact)
<1> SUFFICES ASSUME OneScale PROVE CastFirstSpec => ImplementsExact
  OBVIOUS
<1>1. Init => Exact!Init
  <2> SUFFICES ASSUME Init PROVE Exact!Init
    OBVIOUS
  <2>1. mem[RowCell] = Free /\ \A r \in Regs : ~IsSet(r)
    BY DEF Init, IsSet
  <2>2. Vals = Exact!Nothing /\ RowNumber = <<>> /\ reply = <<>>
    BY <2>1 DEF Vals, RowNumber, Exact!Nothing, Number1, Free, Init
  <2>3. QED
    BY <2>2 DEF Exact!Init, Vals, RowNumber
<1>2. SInv /\ [Disciplined]_vars => [Exact!Next]_Exact!vars
  <2>1. ASSUME SInv, Disciplined PROVE Exact!Next
    BY <2>1, StepMaps
  <2>2. UNCHANGED vars => UNCHANGED Exact!vars
    BY DEF vars, Exact!vars, IsSet, Bare, ObjectOf, CellOf, Number1, Number, Value
  <2>3. QED
    BY <2>1, <2>2
<1>3. QED
  BY <1>1, <1>2, SessionInvariant, PTL DEF CastFirstSpec, ImplementsExact, Exact!Spec

\* A value of a statement that is a decimal is no bare literal.
LEMMA GivenValue ==
  ASSUME SInv, NEW p \in Given
  PROVE  p \in Regs /\ IsSet(p) /\ ~Bare(p)
<1>1. p \in Regs /\ IsSet(p) /\ ObjectOf(p).kind = "decimal"
  BY DEF Given
<1>2. Bare(p) => ObjectOf(p).kind = "text"
  BY <1>1 DEF SInv, ValueInv, BareInv, TextObjects, Text
<1>3. QED
  BY <1>1, <1>2

\* The comments of fxypty_eq to fxypty_gte hold where there is one scale.
THEOREM ComparisonsExact == OneScale => (CastFirstSpec => ComparesValues)
<1> SUFFICES ASSUME OneScale PROVE CastFirstSpec => ComparesValues
  OBVIOUS
<1>1. SInv => [ \A p, q \in Given : Compares(p, q) ]_vars
  BY GivenValue, AskGives DEF Compares
<1>2. QED
  BY <1>1, SessionInvariant, PTL DEF ComparesValues

\* The comments of fxypty_add to fxypty_divide, and of minimum and maximum.
THEOREM ResultsExact == OneScale => (CastFirstSpec => OperatorsExact)
<1> SUFFICES ASSUME OneScale PROVE CastFirstSpec => OperatorsExact
  OBVIOUS
<1>1. ASSUME SInv, NEW r \in Regs, NEW d, Put(r, FALSE, d)
      PROVE  NewNumber(r) = Number(d)
  <2>1. PICK c \in Places, t \in Typmods :
          reg' = [reg EXCEPT ![r] = Ref(c, t, FALSE)] /\ mem'[c] = d
    BY <1>1 DEF Put
  <2>2. reg \in [Regs -> Values]
    BY <1>1, TypeParts DEF SInv
  <2>3. reg'[r][1].cell = c
    BY <2>1, <2>2 DEF Ref
  <2>4. QED
    BY <2>1, <2>3 DEF NewNumber
<1>2. SInv =>
        [ \A p, q \in Given, r \in Regs :
            /\ \A op \in Operators :
                 Operate(op, p, q, r) =>
                   Exact!Gives(op, Number(ObjectOf(p)), Number(ObjectOf(q)), NewNumber(r))
            /\ \A op \in {"smaller", "larger"} :
                 Choose(op, p, q, r) =>
                   Exact!Gives(op, Number(ObjectOf(p)), Number(ObjectOf(q)), NewNumber(r)) ]_vars
  <2>1. ASSUME SInv, NEW p \in Given, NEW q \in Given, NEW r \in Regs,
               NEW op \in Operators, Operate(op, p, q, r)
        PROVE  Exact!Gives(op, Number(ObjectOf(p)), Number(ObjectOf(q)), NewNumber(r))
    <3>1. p \in Regs /\ ~Bare(p) /\ q \in Regs /\ ~Bare(q)
      BY <2>1, GivenValue
    <3>2. PICK d : /\ Put(r, FALSE, d)
                   /\ Exact!Gives(op, Number(ObjectOf(p)), Number(ObjectOf(q)), Number(d))
      BY <2>1, <3>1, OperateGives
    <3>3. NewNumber(r) = Number(d)
      BY <1>1, <2>1, <3>2
    <3>4. QED
      BY <3>2, <3>3
  <2>2. ASSUME SInv, NEW p \in Given, NEW q \in Given, NEW r \in Regs,
               NEW op \in {"smaller", "larger"}, Choose(op, p, q, r)
        PROVE  Exact!Gives(op, Number(ObjectOf(p)), Number(ObjectOf(q)), NewNumber(r))
    <3>1. p \in Regs /\ ~Bare(p) /\ q \in Regs /\ ~Bare(q)
      BY <2>2, GivenValue
    <3>2. PICK d : /\ Put(r, FALSE, d)
                   /\ Exact!Gives(op, Number(ObjectOf(p)), Number(ObjectOf(q)), Number(d))
      BY <2>2, <3>1, ChooseGives
    <3>3. NewNumber(r) = Number(d)
      BY <1>1, <2>2, <3>2
    <3>4. QED
      BY <3>2, <3>3
  <2>3. QED
    BY <2>1, <2>2
<1>3. QED
  BY <1>2, SessionInvariant, PTL DEF OperatorsExact

=============================================================================
