-------------------------- MODULE FxyPtyAggProofs --------------------------
(***************************************************************************)
(* Proofs about FxyPtyAgg, for every table and every order of its rows.    *)
(* ExtremeRight is inductive together with the types: what the comparison  *)
(* of two objects says is what their values say, because both are read     *)
(* back from the stored bytes.  SumRight is inductive with both, since the *)
(* sum of a set of rows does not depend on the order in which it is taken. *)
(***************************************************************************)
EXTENDS FxyPtyAgg, FxyPtyNumbersProofs, FiniteSetTheorems, WellFoundedInduction

\* A stored object is an object, and holds the value it was made of.
LEMMA ObjectType ==
  ASSUME NEW v \in Native, NEW s \in 0..MaxDigits
  PROVE  Object(v, s) \in Objects /\ Value(Object(v, s)) = v
  BY PackUnpack DEF Object, Objects, Value

\* The value of an object is an integer.
LEMMA ValueType ==
  ASSUME NEW a \in Objects
  PROVE  Value(a) \in Int
<1>1. a.bytes.lo \in Int /\ a.bytes.hi \in Int
  BY HalfWordType DEF Objects, Int64
<1>2. Word \in Nat /\ Word > 0
  BY HalfWordType
<1>3. (a.bytes.lo % Word) \in Int
  BY <1>1, <1>2, DivMod
<1>4. (a.bytes.hi * Word) \in Int
  BY <1>1, <1>2
<1>5. QED
  BY <1>3, <1>4 DEF Value, Pack128

LEMMA ColumnType ==
  ASSUME column \in [Rows -> Column], NEW i \in Rows, column[i] # NULL
  PROVE  column[i] \in Objects
<1>1. PICK v \in Values : column[i] = Object(v, Scale)
  BY DEF Column
<1>2. v \in Native /\ Scale \in 0..MaxDigits
  BY AggAssumption
<1>3. QED
  BY <1>1, <1>2, ObjectType

LEMMA NullIsNoObject == NULL \notin Objects
  BY DEF NULL, Objects

\* The comparison of two objects orders their values.
LEMMA CompareType ==
  ASSUME NEW a \in Objects, NEW b \in Objects
  PROVE  /\ FirstIsSmaller(a, b) <=> Value(a) < Value(b)
         /\ FirstIsLarger(a, b) <=> Value(a) >= Value(b)
<1>1. Value(a) \in Int /\ Value(b) \in Int
  BY ValueType
<1>2. QED
  BY <1>1 DEF FirstIsSmaller, FirstIsLarger, Compare, LibCompare

\* The states a transition returns are objects: its two arguments, or a sum.
LEMMA TransitionType ==
  ASSUME NEW a \in Objects, NEW b \in Objects, agg \in {"sum", "min", "max"}
  PROVE  Transition(a, b) \subseteq Objects
<1>1. CASE agg = "sum"
  <2>1. SUFFICES ASSUME NEW v \in Native
                 PROVE  Object(v, a.scale) \in Objects
    BY <1>1 DEF Transition, Add, LibAdd
  <2>2. a.scale \in 0..MaxDigits
    BY DEF Objects
  <2>3. QED
    BY <2>2, ObjectType
<1>2. CASE agg = "min"
  BY <1>2 DEF Transition
<1>3. CASE agg = "max"
  BY <1>3 DEF Transition
<1>4. QED
  BY <1>1, <1>2, <1>3

-----------------------------------------------------------------------------
LEMMA TypeInit == Init => TypeOK
  BY DEF Init, TypeOK

LEMMA TypeNext == TypeOK /\ [Next]_vars => TypeOK'
<1>1. SUFFICES ASSUME TypeOK, [Next]_vars PROVE TypeOK'
  OBVIOUS
<1> USE DEF TypeOK
<1>2. ASSUME NEW i \in Rows, First(i) PROVE TypeOK'
  BY <1>1, <1>2, ColumnType DEF First
<1>3. ASSUME NEW i \in Rows, Strict(i) PROVE TypeOK'
  BY <1>1, <1>3 DEF Strict
<1>4. ASSUME NEW i \in Rows, Advance(i) PROVE TypeOK'
  <2>1. column[i] \in Objects /\ state \in Objects
    BY <1>1, <1>4, ColumnType DEF Advance
  <2>2. state' \in Objects
    BY <1>1, <1>4, <2>1, TransitionType DEF Advance
  <2>3. QED
    BY <1>1, <1>4, <2>2 DEF Advance
<1>5. ASSUME NEW i \in Rows, Fail(i) PROVE TypeOK'
  BY <1>1, <1>5 DEF Fail
<1>6. CASE Finish
  BY <1>1, <1>6 DEF Finish
<1>7. CASE UNCHANGED vars
  BY <1>1, <1>7 DEF vars
<1>8. QED
  BY <1>1, <1>2, <1>3, <1>4, <1>5, <1>6, <1>7 DEF Next

\* The variables keep their types: the state is always NULL or an object of
\* two 64-bit words.
THEOREM TypeCorrect == Spec => []TypeOK
  BY TypeInit, TypeNext, PTL DEF Spec

-----------------------------------------------------------------------------
LEMMA ExtremeInit == Init => ExtremeRight
  BY DEF Init, ExtremeRight, Seen

\* A row that was taken has been seen, and nothing else has been added.
LEMMA SeenGrows ==
  ASSUME TypeOK, NEW i \in left, left' = left \ {i}, UNCHANGED column
  PROVE  Seen' = IF column[i] = NULL THEN Seen ELSE Seen \union {i}
  BY DEF Seen, TypeOK

LEMMA ExtremeNext == TypeOK /\ ExtremeRight /\ [Next]_vars => ExtremeRight'
<1>1. SUFFICES ASSUME TypeOK, ExtremeRight, [Next]_vars PROVE ExtremeRight'
  OBVIOUS
<1>2. \A i \in Seen : column[i] \in Objects /\ Value(column[i]) \in Int
  BY <1>1, ColumnType, ValueType DEF Seen, TypeOK
<1>3. ASSUME NEW i \in Rows, First(i) PROVE ExtremeRight'
  <2>1. Seen = {} /\ Seen' = {i}
    BY <1>1, <1>3, SeenGrows DEF First, ExtremeRight
  <2>2. column[i] \in Objects /\ Value(column[i]) \in Int
    BY <1>1, <1>3, ColumnType, ValueType DEF First, TypeOK
  <2>3. state' = column[i] /\ column' = column /\ state' # NULL
    BY <1>3 DEF First
  <2>4. QED
    BY <2>1, <2>2, <2>3 DEF ExtremeRight
<1>4. ASSUME NEW i \in Rows, Strict(i) PROVE ExtremeRight'
  <2>1. Seen' = Seen
    BY <1>1, <1>4, SeenGrows DEF Strict
  <2>2. QED
    BY <1>1, <1>4, <2>1 DEF Strict, ExtremeRight
<1>5. ASSUME NEW i \in Rows, Advance(i) PROVE ExtremeRight'
  <2> DEFINE b == column[i]
  <2>1. Seen' = Seen \union {i} /\ UNCHANGED <<agg, column>>
    BY <1>1, <1>5, SeenGrows DEF Advance
  <2>2. b \in Objects /\ state \in Objects
    BY <1>1, <1>5, ColumnType DEF Advance, TypeOK
  <2>3. Value(b) \in Int /\ Value(state) \in Int
    BY <2>2, ValueType
  <2>4. state' \in Transition(state, b) /\ state # NULL
    BY <1>5 DEF Advance
  <2>5. state' # NULL
    BY <1>1, <2>2, <2>4, TransitionType, NullIsNoObject DEF TypeOK
  <2>6. agg = "min" =>
          /\ state' \in {state, b}
          /\ Value(state') <= Value(state) /\ Value(state') <= Value(b)
    BY <2>2, <2>3, <2>4, CompareType DEF Transition
  <2>7. agg = "max" =>
          /\ state' \in {state, b}
          /\ Value(state') >= Value(state) /\ Value(state') >= Value(b)
    BY <2>2, <2>3, <2>4, CompareType DEF Transition
  <2>8. agg # "sum" => agg = "min" \/ agg = "max"
    BY <1>1 DEF TypeOK
  <2>9. ASSUME agg # "sum"
        PROVE  /\ \E j \in Seen' : state' = column[j]
               /\ \A j \in Seen' : IF agg = "min" THEN Value(state') <= Value(column[j])
                                                  ELSE Value(state') >= Value(column[j])
    <3>1. /\ \E j \in Seen : state = column[j]
          /\ \A j \in Seen : IF agg = "min" THEN Value(state) <= Value(column[j])
                                            ELSE Value(state) >= Value(column[j])
      BY <1>1, <2>4, <2>9 DEF ExtremeRight
    <3>2. state' \in {state, b}
      BY <2>6, <2>7, <2>8, <2>9
    <3>3. \E j \in Seen' : state' = column[j]
      BY <2>1, <3>1, <3>2
    <3>4. Value(state') \in Int
      BY <2>3, <3>2
    <3>5. ASSUME NEW j \in Seen'
          PROVE  IF agg = "min" THEN Value(state') <= Value(column[j])
                                ELSE Value(state') >= Value(column[j])
      <4>1. CASE j = i
        BY <4>1, <2>6, <2>7, <2>8, <2>9
      <4>2. CASE j \in Seen
        <5>1. Value(column[j]) \in Int
          BY <1>2, <4>2
        <5>2. CASE agg = "min"
          BY <5>1, <5>2, <4>2, <3>1, <3>4, <2>3, <2>6
        <5>3. CASE agg = "max"
          BY <5>1, <5>3, <4>2, <3>1, <3>4, <2>3, <2>7
        <5>4. QED
          BY <5>2, <5>3, <2>8, <2>9
      <4>3. QED
        BY <2>1, <3>5, <4>1, <4>2
    <3>6. QED
      BY <3>3, <3>5
  <2>10. QED
    BY <2>1, <2>5, <2>9 DEF ExtremeRight
<1>6. ASSUME NEW i \in Rows, Fail(i) PROVE ExtremeRight'
  BY <1>1, <1>6 DEF Fail, ExtremeRight, Seen
<1>7. CASE Finish
  BY <1>1, <1>7 DEF Finish, ExtremeRight, Seen
<1>8. CASE UNCHANGED vars
  BY <1>1, <1>8 DEF vars, ExtremeRight, Seen
<1>9. QED
  BY <1>1, <1>3, <1>4, <1>5, <1>6, <1>7, <1>8 DEF Next

\* Minimum and maximum are right for every table and every order of its rows.
THEOREM ExtremesCorrect == Spec => []ExtremeRight
<1>1. Init => TypeOK /\ ExtremeRight
  BY TypeInit, ExtremeInit
<1>2. TypeOK /\ ExtremeRight /\ [Next]_vars => TypeOK' /\ ExtremeRight'
  BY TypeNext, ExtremeNext
<1>3. QED
  BY <1>1, <1>2, PTL DEF Spec

-----------------------------------------------------------------------------
(***************************************************************************)
(* Sums over finite sets of rows.  Total is a fold over the rows in the    *)
(* order that CHOOSE picks them; that this order is of no matter is shown  *)
(* by comparing the fold with a function that is additive, whatever row is *)
(* taken from a set.  Both inductions are over the subsets of a finite     *)
(* set, as the absence of a minimal counterexample.                        *)
(***************************************************************************)
LEMMA MinimalSubset ==
  ASSUME NEW S, IsFiniteSet(S), NEW D, D \subseteq SUBSET S, D # {}
  PROVE  \E m \in D : \A T \in D : T \subseteq m => T = m
<1>1. IsWellFoundedOn(StrictSubsetOrdering(S), SUBSET S)
  BY FS_StrictSubsetOrderingWellFounded, FS_FiniteSubsetsOfFinite
<1>2. PICK m \in D : \A T \in D : ~ (<<T, m>> \in StrictSubsetOrdering(S))
  BY <1>1, WFMin
<1>3. QED
  BY <1>2 DEF StrictSubsetOrdering

\* Rows whose values are numbers.
Numeric(S) == IsFiniteSet(S) /\ \A i \in S : Value(column[i]) \in Int

Additive(g, S) ==
  /\ g \in [SUBSET S -> Int]
  /\ g[{}] = 0
  /\ \A T \in SUBSET S : \A i \in T : g[T] = Value(column[i]) + g[T \ {i}]

LEMMA AdditiveExists ==
  ASSUME NEW S, Numeric(S)
  PROVE  \E g : Additive(g, S)
<1> DEFINE D == { T \in SUBSET S : ~ \E g : Additive(g, T) }
<1>1. SUFFICES ASSUME D # {} PROVE FALSE
  OBVIOUS
<1>2. PICK m \in D : \A T \in D : T \subseteq m => T = m
  <2> HIDE DEF D
  <2>1. D \subseteq SUBSET S
    BY DEF D
  <2>2. QED
    BY <1>1, <2>1, MinimalSubset DEF Numeric
<1>3. m \in SUBSET S /\ ~ \E g : Additive(g, m)
  BY <1>2
<1>4. CASE m = {}
  <2>1. Additive([T \in SUBSET m |-> 0], m)
    BY <1>4 DEF Additive
  <2>2. QED
    BY <1>3, <2>1
<1>5. ASSUME NEW x \in m PROVE FALSE
  <2>1. m \ {x} \in SUBSET S /\ m \ {x} # m
    BY <1>3, <1>5
  <2>2. PICK g : Additive(g, m \ {x})
    BY <1>2, <2>1
  <2> DEFINE w == Value(column[x])
             h == [T \in SUBSET m |-> IF x \in T THEN w + g[T \ {x}] ELSE g[T]]
  <2>3. \A i \in m : Value(column[i]) \in Int
    BY <1>3 DEF Numeric
  <2>4. \A T \in SUBSET m : T \ {x} \in SUBSET (m \ {x}) /\ g[T \ {x}] \in Int
    BY <2>2 DEF Additive
  <2>5. \A T \in SUBSET m : x \notin T => T \in SUBSET (m \ {x}) /\ g[T] \in Int
    BY <2>2 DEF Additive
  <2>6. h \in [SUBSET m -> Int] /\ h[{}] = 0
    BY <2>2, <2>3, <2>4, <2>5 DEF Additive
  <2>7. ASSUME NEW T \in SUBSET m, NEW i \in T
        PROVE  h[T] = Value(column[i]) + h[T \ {i}]
    <3>1. T \ {i} \in SUBSET m
      OBVIOUS
    <3>2. CASE i = x
      <4>1. h[T] = w + g[T \ {x}] /\ h[T \ {x}] = g[T \ {x}]
        BY <3>1, <3>2
      <4>2. QED
        BY <3>2, <4>1
    <3>3. CASE i # x /\ x \notin T
      <4>1. h[T] = g[T] /\ h[T \ {i}] = g[T \ {i}]
        BY <3>1, <3>3
      <4>2. g[T] = Value(column[i]) + g[T \ {i}]
        BY <2>2, <2>5, <3>3 DEF Additive
      <4>3. QED
        BY <4>1, <4>2
    <3>4. CASE i # x /\ x \in T
      <4> DEFINE v == Value(column[i])
                 r == g[(T \ {i}) \ {x}]
      <4>1. h[T] = w + g[T \ {x}] /\ h[T \ {i}] = w + r
        BY <3>1, <3>4
      <4>2. (T \ {i}) \ {x} = (T \ {x}) \ {i}
        OBVIOUS
      <4>3. g[T \ {x}] = v + r
        BY <2>2, <2>4, <3>4, <4>2 DEF Additive
      <4>4. r \in Int /\ w \in Int /\ v \in Int
        BY <2>3, <2>4, <3>1
      <4>5. w + (v + r) = v + (w + r)
        <5> HIDE DEF w, v, r
        <5>1. QED
          BY <4>4
      <4>6. QED
        BY <4>1, <4>3, <4>5
    <3>5. QED
      BY <3>2, <3>3, <3>4
  <2>8. Additive(h, m)
    <3> HIDE DEF h
    <3>1. QED
      BY <2>6, <2>7 DEF Additive
  <2>9. QED
    BY <1>3, <2>8
<1>6. QED
  BY <1>4, <1>5

\* One step of the fold, and the row it takes.
Picked(T) == CHOOSE i \in T : TRUE
Unfolded(g, S) ==
  [T \in SUBSET S |->
     IF T = {} THEN 0 ELSE Value(column[Picked(T)]) + g[T \ {Picked(T)}]]

LEMMA FoldIsAdditive ==
  ASSUME NEW S, Numeric(S), NEW g, Additive(g, S), NEW h, h = Unfolded(h, S)
  PROVE  \A T \in SUBSET S : h[T] = g[T]
<1> DEFINE D == { T \in SUBSET S : h[T] # g[T] }
<1>1. SUFFICES ASSUME D # {} PROVE FALSE
  OBVIOUS
<1>2. PICK m \in D : \A T \in D : T \subseteq m => T = m
  <2> HIDE DEF D
  <2>1. D \subseteq SUBSET S
    BY DEF D
  <2>2. QED
    BY <1>1, <2>1, MinimalSubset DEF Numeric
<1>3. m \in SUBSET S /\ h[m] # g[m]
  BY <1>2
<1>4. h[m] = IF m = {} THEN 0 ELSE Value(column[Picked(m)]) + h[m \ {Picked(m)}]
  BY <1>3 DEF Unfolded
<1>5. CASE m = {}
  BY <1>3, <1>4, <1>5 DEF Additive
<1>6. CASE m # {}
  <2>1. Picked(m) \in m
    BY <1>6 DEF Picked
  <2>2. m \ {Picked(m)} \in SUBSET S /\ m \ {Picked(m)} # m
    BY <1>3, <2>1
  <2>3. h[m \ {Picked(m)}] = g[m \ {Picked(m)}]
    BY <1>2, <2>2
  <2>4. g[m] = Value(column[Picked(m)]) + g[m \ {Picked(m)}]
    BY <1>3, <2>1 DEF Additive
  <2>5. QED
    BY <1>3, <1>4, <1>6, <2>3, <2>4
<1>7. QED
  BY <1>5, <1>6

LEMMA TotalIsAdditive ==
  ASSUME NEW S, Numeric(S), NEW g, Additive(g, S), NEW T \in SUBSET S
  PROVE  Total(T) = g[T]
<1> DEFINE f == [U \in SUBSET T |-> g[U]]
           h == CHOOSE x : x = Unfolded(x, T)
<1>1. Numeric(T)
  BY FS_Subset DEF Numeric
<1>2. Additive(f, T)
  BY DEF Additive
<1>3. f = Unfolded(f, T)
  <2>1. ASSUME NEW U \in SUBSET T
        PROVE  f[U] = IF U = {} THEN 0
                      ELSE Value(column[Picked(U)]) + f[U \ {Picked(U)}]
    <3>1. U # {} => Picked(U) \in U
      BY DEF Picked
    <3> HIDE DEF f
    <3>2. QED
      BY <1>2, <3>1 DEF Additive
  <2>2. QED
    BY <2>1 DEF Unfolded
<1>4. h = Unfolded(h, T)
  <2> HIDE DEF f
  <2>1. QED
    BY <1>3
<1>5. Total(T) = h[T]
  BY DEF Total, Sum!MapThenSumSet, Sum!MapThenFoldSet, Unfolded, Picked
<1>6. h[T] = f[T]
  <2> HIDE DEF f, h
  <2>1. QED
    BY <1>1, <1>2, <1>4, FoldIsAdditive
<1>7. QED
  BY <1>5, <1>6

\* A sum does not depend on the order: any row may be taken from it.
LEMMA TotalAdds ==
  ASSUME NEW S, Numeric(S)
  PROVE  /\ Total(S) \in Int
         /\ Total({}) = 0
         /\ \A i \in S : Total(S) = Value(column[i]) + Total(S \ {i})
<1>1. PICK g : Additive(g, S)
  BY AdditiveExists
<1>2. \A T \in SUBSET S : Total(T) = g[T]
  BY <1>1, TotalIsAdditive
<1>3. QED
  BY <1>1, <1>2 DEF Additive

\* While the column stays, so does the sum of given rows.
LEMMA TotalKept ==
  ASSUME column' = column, Seen' \subseteq Rows
  PROVE  Total(Seen)' = Total(Seen')
BY DEF Total, Sum!MapThenSumSet, Sum!MapThenFoldSet

-----------------------------------------------------------------------------
\* The rows with a value hold numbers, and are of the column's scale.
LEMMA ColumnNumeric ==
  ASSUME TypeOK
  PROVE  /\ Numeric({ i \in Rows : column[i] # NULL }) /\ Numeric(Seen)
         /\ \A i \in Rows : column[i] # NULL => column[i].scale = Scale
<1>1. \A i \in Rows : column[i] # NULL => Value(column[i]) \in Int
  BY ColumnType, ValueType DEF TypeOK
<1>2. \A i \in Rows : column[i] # NULL => column[i].scale = Scale
  BY DEF TypeOK, Column, Object
<1>3. IsFiniteSet({ i \in Rows : column[i] # NULL }) /\ IsFiniteSet(Seen)
  <2>1. { i \in Rows : column[i] # NULL } \subseteq Rows /\ Seen \subseteq Rows
    BY DEF Seen
  <2>2. QED
    BY <2>1, FS_Subset, AggAssumption
<1>4. QED
  BY <1>1, <1>2, <1>3 DEF Numeric, Seen

\* An addition that has room gives the sum, at the scale of the first operand.
LEMMA AddGives ==
  ASSUME NEW a \in Objects, NEW b \in Objects
  PROVE  /\ \A c \in Add(a, b) : Value(c) = Value(a) + Value(b) /\ c.scale = a.scale
         /\ Add(a, b) = {} => Value(a) + Value(b) \notin Native
<1>1. Add(a, b) = { Object(v, a.scale) : v \in {Value(a) + Value(b)} \intersect Native }
  BY DEF Add, LibAdd
<1>2. a.scale \in 0..MaxDigits
  BY DEF Objects
<1>3. \A v \in Native : Value(Object(v, a.scale)) = v /\ Object(v, a.scale).scale = a.scale
  BY <1>2, ObjectType DEF Object
<1>4. QED
  BY <1>1, <1>3

LEMMA SumInit == Init => SumRight /\ ErrorDeserved
  BY DEF Init, SumRight, ErrorDeserved

\* The row that comes next adds its value to the total.
LEMMA SeenTotal ==
  ASSUME TypeOK, NEW i \in left, column[i] # NULL,
         left' = left \ {i}, UNCHANGED column
  PROVE  Total(Seen)' = Value(column[i]) + Total(Seen)
<1>1. Seen' = Seen \union {i} /\ Seen' \subseteq Rows /\ i \notin Seen
  BY SeenGrows DEF Seen, TypeOK
<1>2. Numeric(Seen')
  <2>1. i \in Rows /\ Value(column[i]) \in Int
    BY ColumnType, ValueType DEF TypeOK
  <2>2. IsFiniteSet(Seen')
    BY <1>1, FS_Subset, AggAssumption
  <2>3. QED
    BY <1>1, <2>1, <2>2, ColumnNumeric DEF Numeric
<1>3. Total(Seen') = Value(column[i]) + Total(Seen' \ {i}) /\ Seen' \ {i} = Seen
  BY <1>1, <1>2, TotalAdds
<1>4. QED
  BY <1>1, <1>3, TotalKept

LEMMA SumNext ==
  TypeOK /\ ExtremeRight /\ SumRight /\ [Next]_vars => SumRight'
<1>1. SUFFICES ASSUME TypeOK, ExtremeRight, SumRight, [Next]_vars PROVE SumRight'
  OBVIOUS
<1>2. ASSUME NEW i \in Rows, First(i) PROVE SumRight'
  <2>1. Seen = {} /\ state' = column[i] /\ column[i] # NULL
    BY <1>1, <1>2 DEF First, ExtremeRight
  <2>2. Total(Seen) = 0
    BY <1>1, <2>1, ColumnNumeric, TotalAdds
  <2>3. Total(Seen)' = Value(column[i]) + 0
    BY <1>1, <1>2, <2>2, SeenTotal DEF First
  <2>4. Value(column[i]) \in Int /\ column[i].scale = Scale
    BY <1>1, <2>1, ColumnType, ValueType, ColumnNumeric DEF TypeOK
  <2>5. QED
    BY <2>1, <2>3, <2>4 DEF SumRight
<1>3. ASSUME UNCHANGED <<agg, column, state, Seen>> PROVE SumRight'
  <2>1. Total(Seen)' = Total(Seen)
    BY <1>3, TotalKept DEF Seen
  <2>2. QED
    BY <1>1, <1>3, <2>1 DEF SumRight
<1>4. ASSUME NEW i \in Rows, Advance(i), agg = "sum" PROVE SumRight'
  <2>1. state' \in Add(state, column[i]) /\ state # NULL
    BY <1>4 DEF Advance, Transition
  <2>2. state \in Objects /\ column[i] \in Objects
    BY <1>1, <1>4, ColumnType DEF Advance, TypeOK
  <2>3. Value(state') = Value(state) + Value(column[i]) /\ state'.scale = state.scale
    BY <2>1, <2>2, AddGives
  <2>4. Value(state) = Total(Seen) /\ state.scale = Scale
    BY <1>1, <1>4, <2>1 DEF SumRight
  <2>5. Total(Seen)' = Value(column[i]) + Total(Seen)
    BY <1>1, <1>4, SeenTotal DEF Advance
  <2>6. Value(state) \in Int /\ Value(column[i]) \in Int
    BY <2>2, ValueType
  <2>7. QED
    BY <2>3, <2>4, <2>5, <2>6 DEF SumRight
<1>5. ASSUME NEW i \in Rows, Advance(i), agg # "sum" PROVE SumRight'
  BY <1>5 DEF Advance, SumRight
<1>6. ASSUME NEW i \in Rows, Strict(i) PROVE SumRight'
  <2>1. Seen' = Seen
    BY <1>1, <1>6, SeenGrows DEF Strict
  <2>2. QED
    BY <1>3, <1>6, <2>1 DEF Strict
<1>7. ASSUME NEW i \in Rows, Fail(i) PROVE SumRight'
  BY <1>3, <1>7 DEF Fail, Seen
<1>8. CASE Finish
  BY <1>3, <1>8 DEF Finish, Seen
<1>9. CASE UNCHANGED vars
  BY <1>3, <1>9 DEF vars, Seen
<1>10. QED
  BY <1>1, <1>2, <1>4, <1>5, <1>6, <1>7, <1>8, <1>9 DEF Next

\* A transition that fails is an addition without room: the rows seen and the
\* next one are a set of rows whose sum no __int128_t holds.
LEMMA FailDeserved ==
  ASSUME TypeOK, SumRight, NEW i \in Rows, Fail(i)
  PROVE  /\ agg = "sum"
         /\ Total(Seen \union {i}) \notin Native
<1>1. state # NULL /\ column[i] # NULL /\ i \in left /\ Transition(state, column[i]) = {}
  BY DEF Fail
<1>2. agg = "sum"
  BY <1>1 DEF TypeOK, Transition
<1>3. state \in Objects /\ column[i] \in Objects
  BY <1>1, ColumnType DEF TypeOK
<1>4. Value(state) + Value(column[i]) \notin Native
  BY <1>1, <1>2, <1>3, AddGives DEF Transition
<1>5. Numeric(Seen \union {i})
  <2>1. Seen \union {i} \subseteq { j \in Rows : column[j] # NULL }
    BY <1>1 DEF Seen
  <2>2. QED
    BY <2>1, ColumnNumeric, FS_Subset DEF Numeric
<1>6. Total(Seen \union {i}) = Value(column[i]) + Total(Seen)
  <2>1. (Seen \union {i}) \ {i} = Seen
    BY <1>1 DEF Seen
  <2>2. QED
    BY <1>5, <2>1, TotalAdds
<1>7. Value(state) = Total(Seen) /\ Value(state) \in Int /\ Value(column[i]) \in Int
  BY <1>1, <1>2, <1>3, ValueType DEF SumRight
<1>8. QED
  BY <1>2, <1>4, <1>6, <1>7

LEMMA ErrorNext ==
  TypeOK /\ SumRight /\ ErrorDeserved /\ [Next]_vars => ErrorDeserved'
<1>1. SUFFICES ASSUME TypeOK, SumRight, ErrorDeserved, [Next]_vars, status' = "error"
               PROVE  ErrorDeserved'
  BY DEF ErrorDeserved
<1>2. column' = column /\ agg' = agg
  BY <1>1 DEF Next, First, Strict, Advance, Fail, Finish, vars
<1>3. \A S \in SUBSET Rows : Total(S)' = Total(S)
  BY <1>2 DEF Total, Sum!MapThenSumSet, Sum!MapThenFoldSet
<1>4. \/ status = "error"
      \/ \E i \in Rows : Fail(i)
  BY <1>1 DEF Next, First, Strict, Advance, Finish, vars
<1>5. /\ agg = "sum"
      /\ \E rows \in SUBSET { i \in Rows : column[i] # NULL } : Total(rows) \notin Native
  <2>1. CASE status = "error"
    BY <1>1, <2>1 DEF ErrorDeserved
  <2>2. ASSUME NEW i \in Rows, Fail(i)
        PROVE  /\ agg = "sum"
               /\ \E rows \in SUBSET { j \in Rows : column[j] # NULL } :
                    Total(rows) \notin Native
    <3>1. agg = "sum" /\ Total(Seen \union {i}) \notin Native
      BY <1>1, <2>2, FailDeserved
    <3>2. Seen \union {i} \in SUBSET { j \in Rows : column[j] # NULL }
      BY <2>2 DEF Fail, Seen
    <3>3. QED
      BY <3>1, <3>2
  <2>3. QED
    BY <1>4, <2>1, <2>2
<1>6. PICK rows \in SUBSET { i \in Rows : column[i] # NULL } : Total(rows) \notin Native
  BY <1>5
<1>7. rows \in SUBSET Rows /\ Total(rows)' \notin Native
  BY <1>3, <1>6
<1>8. QED
  BY <1>2, <1>5, <1>6, <1>7 DEF ErrorDeserved

LEMMA AggInvariant ==
  Spec => [](TypeOK /\ ExtremeRight /\ SumRight /\ ErrorDeserved)
<1>1. Init => TypeOK /\ ExtremeRight /\ SumRight /\ ErrorDeserved
  BY TypeInit, ExtremeInit, SumInit
<1>2. TypeOK /\ ExtremeRight /\ SumRight /\ ErrorDeserved /\ [Next]_vars
        => TypeOK' /\ ExtremeRight' /\ SumRight' /\ ErrorDeserved'
  BY TypeNext, ExtremeNext, SumNext, ErrorNext
<1>3. QED
  BY <1>1, <1>2, PTL DEF Spec

\* In every order of the rows, and for every table, the state of a sum is the
\* exact sum of the rows seen.
THEOREM SumsCorrect == Spec => []SumRight
  BY AggInvariant, PTL

\* No order of the rows makes a query fail unless some of the rows have a sum
\* that no __int128_t holds.
THEOREM ErrorsDeserved == Spec => []ErrorDeserved
  BY AggInvariant, PTL

=============================================================================
