------------------------ MODULE FxyPtyPlannerProofs ------------------------
(***************************************************************************)
(* Proofs that the planner may trust the commutators and negators of the   *)
(* SQL script.                                                             *)
(***************************************************************************)
EXTENDS FxyPtyPlanner, FxyPtyNumbersProofs

StoredObjects == [kind : {"decimal"}, bytes : [lo : Int, hi : Int], scale : Int]

\* Whatever its words, an object has a value.
LEMMA ValueType ==
  ASSUME NEW a \in StoredObjects
  PROVE  Value(a) \in Int
<1>1. a.bytes.lo \in Int /\ a.bytes.hi \in Int
  BY DEF StoredObjects
<1>2. Word \in Nat /\ Word > 0
  BY NumbersAssumption
<1> DEFINE l == a.bytes.lo
           h == a.bytes.hi
<1>3. l \in Int /\ h \in Int
  BY <1>1
<1> HIDE DEF l, h
<1>4. l % Word \in Int
  BY <1>2, <1>3, DivMod
<1>5. h * Word \in Int
  BY <1>2, <1>3
<1>6. (l % Word) + (h * Word) \in Int
  BY <1>4, <1>5
<1>7. QED
  BY <1>6 DEF Value, Pack128, l, h

\* The six comparisons, in terms of the two integers.
LEMMA HoldsOnValues ==
  ASSUME NEW a \in StoredObjects, NEW b \in StoredObjects
  PROVE  /\ Holds("=", a, b) <=> Value(a) = Value(b)
         /\ Holds("<>", a, b) <=> Value(a) # Value(b)
         /\ Holds("<", a, b) <=> Value(a) < Value(b)
         /\ Holds(">", a, b) <=> Value(a) > Value(b)
         /\ Holds("<=", a, b) <=> Value(a) <= Value(b)
         /\ Holds(">=", a, b) <=> Value(a) >= Value(b)
<1> DEFINE x == Value(a)
           y == Value(b)
           c == Compare(a, b)
<1>1. x \in Int /\ y \in Int
  BY ValueType
<1>2. c = IF x < y THEN -1 ELSE IF x > y THEN 1 ELSE 0
  BY DEF Compare, LibCompare
<1>3. /\ Holds("=", a, b) <=> c = 0
      /\ Holds("<>", a, b) <=> c # 0
      /\ Holds("<", a, b) <=> c < 0
      /\ Holds(">", a, b) <=> c > 0
      /\ Holds("<=", a, b) <=> c <= 0
      /\ Holds(">=", a, b) <=> c >= 0
  BY DEF Holds
<1> HIDE DEF x, y, c
<1>4. /\ c = 0 <=> x = y
      /\ c < 0 <=> x < y
      /\ c > 0 <=> x > y
      /\ c <= 0 <=> x <= y
      /\ c >= 0 <=> x >= y
  BY <1>1, <1>2
<1>5. QED
  BY <1>3, <1>4 DEF x, y

\* No rewriting of a comparison by its commutator, its negator or both
\* changes its answer: for all objects, those of different scales and those
\* that are no decimals included.
THEOREM RewritingSafe ==
  ASSUME NEW op \in Comparisons,
         NEW a \in StoredObjects, NEW b \in StoredObjects,
         NEW yes \in Answers(op, a, b)
  PROVE  yes <=> Holds(op, a, b)
<1> DEFINE x == Value(a)
           y == Value(b)
<1>1. x \in Int /\ y \in Int
  BY ValueType
<1>2. /\ Holds("=", a, b) <=> x = y
      /\ Holds("<>", a, b) <=> x # y
      /\ Holds("<", a, b) <=> x < y
      /\ Holds(">", a, b) <=> x > y
      /\ Holds("<=", a, b) <=> x <= y
      /\ Holds(">=", a, b) <=> x >= y
  BY HoldsOnValues
<1>3. /\ Holds("=", b, a) <=> y = x
      /\ Holds("<>", b, a) <=> y # x
      /\ Holds("<", b, a) <=> y < x
      /\ Holds(">", b, a) <=> y > x
      /\ Holds("<=", b, a) <=> y <= x
      /\ Holds(">=", b, a) <=> y >= x
  BY HoldsOnValues
<1> HIDE DEF x, y
<1>4. Holds(Commutator[op], b, a) <=> Holds(op, a, b)
  BY <1>1, <1>2, <1>3 DEF Comparisons, Commutator
<1>5. ~Holds(Negator[op], a, b) <=> Holds(op, a, b)
  BY <1>1, <1>2 DEF Comparisons, Negator
<1>6. ~Holds(Negator[Commutator[op]], b, a) <=> Holds(op, a, b)
  BY <1>1, <1>2, <1>3 DEF Comparisons, Negator, Commutator
<1>7. QED
  BY <1>4, <1>5, <1>6 DEF Answers

\* The script declares + and * their own commutators: they are, where the
\* operands have one scale.
THEOREM OperandsCommute ==
  ASSUME NEW a \in StoredObjects, NEW b \in StoredObjects, a.scale = b.scale
  PROVE  Add(a, b) = Add(b, a) /\ Multiply(a, b) = Multiply(b, a)
<1> DEFINE x == Value(a)
           y == Value(b)
           s == a.scale
<1>1. x \in Int /\ y \in Int
  BY ValueType
<1> HIDE DEF x, y
<1>2. x + y = y + x /\ x * y = y * x
  BY <1>1
<1>3. LibAdd(x, y) = LibAdd(y, x) /\ LibMultiply(x, y, s) = LibMultiply(y, x, s)
  BY <1>2 DEF LibAdd, LibMultiply
<1>4. QED
  BY <1>3 DEF Add, Multiply, x, y

=============================================================================
