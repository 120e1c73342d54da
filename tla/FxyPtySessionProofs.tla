------------------------ MODULE FxyPtySessionProofs ------------------------
(***************************************************************************)
(* Proofs about the values of a statement under the discipline of the      *)
(* tests: for every number of values and cells, every set of modifiers,    *)
(* and every width, no value that is used is freed or is a text, and only  *)
(* a store touches the row.                                                *)
(***************************************************************************)
EXTENDS FxyPtySession, FxyPtyNumbersProofs

Places == Cells \union {RowCell}
TextObjects == { Text(w) : w \in Words }
Objects == {Free} \union TextObjects \union Decimals
Typmods == Scales \union {NoTypmod}
Replies == {<<>>, <<TRUE>>, <<FALSE>>}
Values == {Unset} \union { Ref(c, t, bare) : c \in Places, t \in Typmods, bare \in BOOLEAN }

\* The type invariant in these words, in a state and in the next.
LEMMA TypeParts ==
  TypeOK <=> mem \in [Places -> Objects] /\ reg \in [Regs -> Values] /\ reply \in Replies
BY DEF TypeOK, Places, Objects, TextObjects, Values, Typmods, Replies

LEMMA TypePartsNext ==
  TypeOK' <=> mem' \in [Places -> Objects] /\ reg' \in [Regs -> Values] /\ reply' \in Replies
BY DEF TypeOK, Places, Objects, TextObjects, Values, Typmods, Replies

\* A decimal with the scale of one of the modifiers in use.
InUse(o) == o \in Decimals /\ o.scale \in Scales

LEMMA ObjectType ==
  ASSUME NEW v \in Native, NEW s \in 0..MaxDigits
  PROVE  Object(v, s) \in Decimals /\ Object(v, s).scale = s
<1>1. Unpack128(v) \in [lo : Int64, hi : Int64]
  BY PackUnpack
<1>2. QED
  BY <1>1 DEF Object, Decimals

\* Every operator returns a decimal with the scale of its first operand.
LEMMA ArithmeticType ==
  ASSUME NEW op \in Operators, NEW a, NEW b, InUse(a),
         NEW d \in Arithmetic(op, a, b)
  PROVE  InUse(d)
<1>1. a.scale \in 0..MaxDigits /\ a.scale \in Scales
  BY DEF InUse, Decimals
<1>2. \E v \in Native : d = Object(v, a.scale)
  <2>1. \A x, y, s : LibAdd(x, y) \subseteq Native /\ LibSubtract(x, y) \subseteq Native
                     /\ LibMultiply(x, y, s) \subseteq Native
                     /\ LibDivide(x, y, s) \subseteq Native
    BY DEF LibAdd, LibSubtract, LibMultiply, LibDivide, Quotients
  <2>2. CASE op = "+"
    BY <2>1, <2>2 DEF Arithmetic, Add
  <2>3. CASE op = "-"
    BY <2>1, <2>3 DEF Arithmetic, Subtract
  <2>4. CASE op = "*"
    BY <2>1, <2>4 DEF Arithmetic, Multiply
  <2>5. CASE op = "/"
    BY <2>1, <2>5 DEF Arithmetic, Divide
  <2>6. QED
    BY <2>2, <2>3, <2>4, <2>5 DEF Operators
<1>3. QED
  BY <1>1, <1>2, ObjectType DEF InUse

LEMMA ParsedType ==
  ASSUME NEW o \in TextObjects, NEW t \in Scales, NEW d \in Parsed(o, t)
  PROVE  InUse(d)
<1>1. t \in 0..MaxDigits
  BY SessionAssumption
<1>2. o.kind = "text"
  BY DEF TextObjects, Text
<1>3. \E v \in Native : d = Object(v, t)
  BY <1>2 DEF Parsed, In, LibParse, Quotients
<1>4. QED
  BY <1>1, <1>3, ObjectType DEF InUse

-----------------------------------------------------------------------------
(***************************************************************************)
(* The inductive invariant: a bare literal is a text in a cell that no     *)
(* other value points to, so that the cast that frees it frees nothing     *)
(* else; every other value, and the row, is a decimal of a scale in use.   *)
(***************************************************************************)
BareInv(r) ==
  /\ CellOf(r) \in Cells /\ ObjectOf(r) \in TextObjects
  /\ \A q \in Regs \ {r} : IsSet(q) => CellOf(q) # CellOf(r)

ValueInv(r) == IF Bare(r) THEN BareInv(r) ELSE InUse(ObjectOf(r))

SInv ==
  /\ TypeOK
  /\ mem[RowCell] = Free \/ InUse(mem[RowCell])
  /\ \A r \in Regs : IsSet(r) => ValueInv(r)

\* A step puts the object o in the place r, as a bare literal or not, and
\* leaves the other values and the row alone.
Put(r, bare, o) ==
  /\ \E c \in Places, t \in Typmods :
       reg' = [reg EXCEPT ![r] = Ref(c, t, bare)] /\ mem'[c] = o
  /\ \A q \in Regs \ {r} : IsSet(q) => mem'[CellOf(q)] = mem[CellOf(q)]
  /\ mem'[RowCell] = mem[RowCell]

\* The operand whose pointer a minimum or maximum returns.
Chosen(op, p, q) ==
  IF IF op = "smaller" THEN FirstIsSmaller(ObjectOf(p), ObjectOf(q))
                       ELSE FirstIsLarger(ObjectOf(p), ObjectOf(q))
  THEN p ELSE q

\* The parts of the type of a value.
LEMMA RegType ==
  ASSUME TypeOK, NEW r \in Regs, IsSet(r)
  PROVE  /\ reg[r] = Ref(CellOf(r), TypmodOf(r), Bare(r))
         /\ CellOf(r) \in Places /\ TypmodOf(r) \in Typmods /\ Bare(r) \in BOOLEAN
         /\ ObjectOf(r) \in Objects
<1>1. PICK c \in Places, t \in Typmods, b \in BOOLEAN : reg[r] = Ref(c, t, b)
  <2>1. reg[r] \in Values
    BY TypeParts
  <2>2. QED
    BY <2>1 DEF IsSet, Values
<1>2. CellOf(r) = c /\ TypmodOf(r) = t /\ Bare(r) = b
  BY <1>1 DEF CellOf, TypmodOf, Bare, Ref
<1>3. mem[c] \in Objects
  <2>1. mem \in [Places -> Objects]
    BY TypeParts
  <2>2. QED
    BY <1>1, <2>1
<1>4. QED
  BY <1>1, <1>2, <1>3 DEF ObjectOf

\* No value is free.
LEMMA NotFree ==
  ASSUME SInv, NEW r \in Regs, IsSet(r)
  PROVE  ObjectOf(r) # Free
BY DEF SInv, ValueInv, BareInv, InUse, TextObjects, Text, Free, Decimals

\* A place gets a value: the others keep their objects, none of them shares a
\* cell with a bare literal, and the new value is as it should be.
LEMMA GetsValue ==
  ASSUME SInv, NEW r \in Regs, NEW c \in Places, NEW t \in Typmods, NEW b \in BOOLEAN,
         reg' = [reg EXCEPT ![r] = Ref(c, t, b)],
         mem' \in [Places -> Objects], reply' \in Replies,
         \A q \in Regs \ {r} : IsSet(q) => mem'[CellOf(q)] = mem[CellOf(q)],
         mem'[RowCell] = mem[RowCell],
         \A q \in Regs \ {r} : IsSet(q) /\ (b \/ Bare(q)) => CellOf(q) # c,
         IF b THEN c \in Cells /\ mem'[c] \in TextObjects ELSE InUse(mem'[c])
  PROVE  SInv'
<1>1. reg \in [Regs -> Values]
  BY TypeParts DEF SInv
<1>2. TypeOK'
  <2>1. Ref(c, t, b) \in Values
    BY DEF Values
  <2>2. reg' \in [Regs -> Values]
    BY <1>1, <2>1
  <2>3. QED
    BY <2>2, TypePartsNext
<1>3. reg'[r] = Ref(c, t, b) /\ \A q \in Regs \ {r} : reg'[q] = reg[q]
  BY <1>1
<1>4. IsSet(r)' /\ CellOf(r)' = c /\ Bare(r)' = b /\ ObjectOf(r)' = mem'[c]
  BY <1>3 DEF IsSet, CellOf, Bare, ObjectOf, Ref, Unset
<1>5. ASSUME NEW q \in Regs \ {r}
      PROVE  /\ IsSet(q)' <=> IsSet(q)
             /\ IsSet(q) => CellOf(q)' = CellOf(q) /\ (Bare(q)' <=> Bare(q))
                            /\ ObjectOf(q)' = ObjectOf(q)
  BY <1>3 DEF IsSet, CellOf, Bare, ObjectOf
<1>6. ValueInv(r)'
  <2>1. CASE b
    <3>1. \A q \in Regs \ {r} : IsSet(q)' => CellOf(q)' # CellOf(r)'
      BY <1>4, <1>5, <2>1
    <3>2. CellOf(r)' \in Cells /\ ObjectOf(r)' \in TextObjects
      BY <1>4, <2>1
    <3>3. BareInv(r)'
      BY <3>1, <3>2 DEF BareInv, TextObjects, Words
    <3>4. QED
      BY <1>4, <2>1, <3>3 DEF ValueInv
  <2>2. CASE ~b
    BY <1>4, <2>2 DEF ValueInv, InUse
  <2>3. QED
    BY <2>1, <2>2
<1>7. ASSUME NEW q \in Regs \ {r}, IsSet(q)' PROVE ValueInv(q)'
  <2>1. IsSet(q) /\ ValueInv(q)
    BY <1>5, <1>7 DEF SInv
  <2>2. CASE Bare(q)
    <3>1. BareInv(q)
      BY <2>1, <2>2 DEF ValueInv
    <3>2. CellOf(q)' \in Cells /\ ObjectOf(q)' \in TextObjects
      BY <1>5, <2>1, <3>1 DEF BareInv
    <3>3. ASSUME NEW p \in Regs \ {q}, IsSet(p)' PROVE CellOf(p)' # CellOf(q)'
      <4>1. CASE p = r
        BY <1>4, <1>5, <2>1, <2>2, <4>1
      <4>2. CASE p # r
        BY <1>5, <2>1, <3>1, <3>3, <4>2 DEF BareInv
      <4>3. QED
        BY <4>1, <4>2
    <3>4. BareInv(q)'
      BY <3>2, <3>3 DEF BareInv, TextObjects, Words
    <3>5. QED
      BY <1>5, <2>1, <2>2, <3>4 DEF ValueInv
  <2>3. CASE ~Bare(q)
    BY <1>5, <2>1, <2>3 DEF ValueInv, InUse
  <2>4. QED
    BY <2>2, <2>3
<1>8. mem'[RowCell] = Free \/ InUse(mem'[RowCell])
  BY DEF SInv
<1>9. QED
  BY <1>2, <1>6, <1>7, <1>8 DEF SInv, InUse

\* The end of a statement leaves a good row and nothing else.
LEMMA Ends ==
  ASSUME SInv, NEW o, o = Free \/ InUse(o), EndWith(o)
  PROVE  SInv' /\ mem'[RowCell] = o
<1>1. mem' = [c \in Places |-> IF c = RowCell THEN o ELSE Free]
  BY DEF EndWith, Places
<1>2. mem' \in [Places -> Objects] /\ mem'[RowCell] = o
  <2>1. o \in Objects /\ Free \in Objects
    BY DEF Objects, InUse
  <2>2. RowCell \in Places
    BY DEF Places
  <2>3. QED
    BY <1>1, <2>1, <2>2
<1>3. \A r \in Regs : reg'[r] = Unset
  BY DEF EndWith
<1>4. reg' \in [Regs -> Values] /\ reply' \in Replies
  BY DEF EndWith, Values, Replies
<1>5. TypeOK'
  BY <1>2, <1>4, TypePartsNext
<1>6. QED
  BY <1>2, <1>3, <1>5 DEF SInv, IsSet, InUse


-----------------------------------------------------------------------------
(***************************************************************************)
(* The steps: each keeps the invariant, and only a store changes the row.  *)
(***************************************************************************)
\* A free cell: no value points to it.
LEMMA Fresh ==
  ASSUME SInv, NEW c \in FreeCells
  PROVE  /\ c \in Cells /\ c \in Places /\ c # RowCell
         /\ \A q \in Regs : IsSet(q) => CellOf(q) # c
<1>1. c \in Cells /\ mem[c] = Free
  BY DEF FreeCells
<1>2. ASSUME NEW q \in Regs, IsSet(q) PROVE CellOf(q) # c
  <2>1. mem[CellOf(q)] # Free
    BY <1>2, NotFree DEF ObjectOf
  <2>2. QED
    BY <1>1, <2>1
<1>3. QED
  BY <1>1, <1>2, SessionAssumption DEF Places

\* Forgetting what no value points to.
LEMMA ReachedKeeps ==
  ASSUME NEW objects \in [Places -> Objects], NEW values
  PROVE  /\ Reached(objects, values) \in [Places -> Objects]
         /\ Reached(objects, values)[RowCell] = objects[RowCell]
         /\ \A r \in Regs : values[r] # Unset /\ values[r][1].cell \in Places
              => Reached(objects, values)[values[r][1].cell] = objects[values[r][1].cell]
<1>1. Free \in Objects /\ RowCell \in Places
  BY DEF Objects, Places
<1>2. Reached(objects, values) =
        [c \in Places |->
           IF c = RowCell \/ \E r \in Regs : values[r] # Unset /\ values[r][1].cell = c
           THEN objects[c] ELSE Free]
  BY DEF Reached
<1>3. QED
  BY <1>1, <1>2

\* A value that is no bare literal is read as the decimal it is.
LEMMA ReadsDecimal ==
  ASSUME SInv, NEW r \in Regs, IsSet(r), ~Bare(r)
  PROVE  InUse(ObjectOf(r)) /\ Read(r) = {ObjectOf(r)}
<1>1. InUse(ObjectOf(r))
  BY DEF SInv, ValueInv
<1>2. QED
  BY <1>1 DEF InUse, Decimals, Read

LEMMA LiteralStep ==
  ASSUME SInv, NEW r \in Regs, NEW x \in Literals, Literal(r, x)
  PROVE  SInv' /\ Put(r, TRUE, Text(Head(x)))
<1>1. PICK c \in FreeCells :
        /\ mem' = [mem EXCEPT ![c] = Text(Head(x))]
        /\ reg' = [reg EXCEPT ![r] = Ref(c, NoTypmod, TRUE)]
  BY DEF Literal
<1>2. mem \in [Places -> Objects]
  BY TypeParts DEF SInv
<1>3. Text(Head(x)) \in TextObjects
  BY DEF Literal, TextObjects, Words
<1>4. Text(Head(x)) \in Objects
  BY <1>3 DEF Objects
<1>5. c \in Places /\ c \in Cells /\ c # RowCell
  BY Fresh
<1>6. \A q \in Regs : IsSet(q) => CellOf(q) # c
  BY Fresh
<1>7. mem' \in [Places -> Objects] /\ mem'[c] = Text(Head(x))
      /\ \A k \in Places \ {c} : mem'[k] = mem[k]
  BY <1>1, <1>2, <1>4, <1>5
<1>8. mem'[RowCell] = mem[RowCell]
  BY <1>5, <1>7 DEF Places
<1>9. \A q \in Regs : IsSet(q) => mem'[CellOf(q)] = mem[CellOf(q)]
  BY <1>6, <1>7, RegType DEF SInv
<1>10. reply' \in Replies
  BY DEF Literal, Replies
<1>11. NoTypmod \in Typmods /\ TRUE \in BOOLEAN
  BY DEF Typmods
<1>12. SInv'
  BY <1>1, <1>3, <1>5, <1>6, <1>7, <1>8, <1>9, <1>10, <1>11, GetsValue
<1>13. QED
  BY <1>1, <1>5, <1>7, <1>8, <1>9, <1>11, <1>12 DEF Put

LEMMA CastStep ==
  ASSUME SInv, NEW r \in Regs, NEW t \in Scales, Bare(r), Cast(r, t)
  PROVE  SInv' /\ \E d \in Parsed(ObjectOf(r), t) : Put(r, FALSE, d)
<1>0. IsSet(r)
  BY DEF Cast
<1>1. PICK c \in FreeCells, d \in Parsed(ObjectOf(r), t) :
        /\ mem' = [mem EXCEPT ![c] = d, ![CellOf(r)] = Free]
        /\ reg' = [reg EXCEPT ![r] = Ref(c, t, FALSE)]
  BY DEF Cast
<1>2. mem \in [Places -> Objects]
  BY TypeParts DEF SInv
<1>3. BareInv(r)
  BY <1>0 DEF SInv, ValueInv
<1>4. InUse(d)
  BY <1>3, ParsedType DEF BareInv
<1>5. d \in Objects /\ Free \in Objects
  BY <1>4 DEF InUse, Objects
<1>6. c \in Places /\ c \in Cells /\ c # RowCell
  BY Fresh
<1>7. \A q \in Regs : IsSet(q) => CellOf(q) # c
  BY Fresh
<1>8. CellOf(r) \in Places /\ CellOf(r) # RowCell /\ CellOf(r) # c
  BY <1>0, <1>3, <1>7, SessionAssumption DEF BareInv, Places
<1>9. mem' \in [Places -> Objects] /\ mem'[c] = d
      /\ \A k \in Places \ {c, CellOf(r)} : mem'[k] = mem[k]
  BY <1>1, <1>2, <1>5, <1>6, <1>8
<1>10. mem'[RowCell] = mem[RowCell]
  BY <1>6, <1>8, <1>9 DEF Places
<1>11. ASSUME NEW q \in Regs \ {r}, IsSet(q) PROVE mem'[CellOf(q)] = mem[CellOf(q)]
  <2>1. CellOf(q) # c /\ CellOf(q) # CellOf(r)
    BY <1>3, <1>7, <1>11 DEF BareInv
  <2>2. CellOf(q) \in Places
    BY <1>11, RegType DEF SInv
  <2>3. QED
    BY <1>9, <2>1, <2>2
<1>12. reply' \in Replies
  BY DEF Cast, Replies
<1>13. t \in Typmods /\ FALSE \in BOOLEAN
  BY DEF Typmods
<1>14. SInv'
  <2>1. mem' \in [Places -> Objects] /\ InUse(mem'[c])
    BY <1>4, <1>9
  <2>2. \A q \in Regs \ {r} : IsSet(q) => mem'[CellOf(q)] = mem[CellOf(q)] /\ CellOf(q) # c
    BY <1>7, <1>11
  <2>3. reg' = [reg EXCEPT ![r] = Ref(c, t, FALSE)]
    BY <1>1
  <2>4. QED
    BY <1>6, <1>10, <1>12, <1>13, <2>1, <2>2, <2>3, GetsValue
<1>15. Put(r, FALSE, d)
  BY <1>1, <1>6, <1>9, <1>10, <1>11, <1>13 DEF Put
<1>16. QED
  BY <1>14, <1>15

LEMMA OperateStep ==
  ASSUME SInv, NEW op \in Operators, NEW p \in Regs, NEW q \in Regs, NEW r \in Regs,
         ~Bare(p), ~Bare(q), Operate(op, p, q, r)
  PROVE  SInv' /\ \E d \in Arithmetic(op, ObjectOf(p), ObjectOf(q)) : Put(r, FALSE, d)
<1>0. IsSet(p) /\ IsSet(q)
  BY DEF Operate, Result
<1>1. PICK c \in FreeCells :
        /\ reg' = [reg EXCEPT ![r] = Ref(c, NoTypmod, FALSE)]
        /\ \E a \in Read(p), b \in Read(q) : \E d \in Results(op, a, b) :
             mem' = Reached([mem EXCEPT ![c] = d], reg')
  BY DEF Operate
<1>2. PICK d \in Arithmetic(op, ObjectOf(p), ObjectOf(q)) :
        mem' = Reached([mem EXCEPT ![c] = d], reg')
  <2>1. Results(op, ObjectOf(p), ObjectOf(q)) = Arithmetic(op, ObjectOf(p), ObjectOf(q))
    <3>1. ObjectOf(p).scale \in 0..MaxDigits
      BY <1>0, ReadsDecimal DEF InUse, Decimals
    <3>2. ObjectOf(p).scale # UncastScale
      BY <3>1, NumbersAssumption DEF UncastScale
    <3>3. QED
      BY <3>2 DEF Results, Unscaled
  <2>2. QED
    BY <1>0, <1>1, <2>1, ReadsDecimal
<1>3. InUse(ObjectOf(p)) /\ InUse(ObjectOf(q))
  BY <1>0, ReadsDecimal
<1>4. InUse(d)
  BY <1>3, ArithmeticType
<1>5. c \in Places /\ c \in Cells /\ c # RowCell
  BY Fresh
<1>6. \A k \in Regs : IsSet(k) => CellOf(k) # c
  BY Fresh
<1>7. mem \in [Places -> Objects] /\ reg \in [Regs -> Values]
  BY TypeParts DEF SInv
<1> DEFINE objects == [mem EXCEPT ![c] = d]
<1>8. objects \in [Places -> Objects] /\ objects[c] = d
      /\ \A k \in Places \ {c} : objects[k] = mem[k]
  BY <1>4, <1>5, <1>7 DEF InUse, Objects
<1> HIDE DEF objects
<1>9. mem' = Reached(objects, reg')
  BY <1>2 DEF objects
<1>10. mem' \in [Places -> Objects] /\ mem'[RowCell] = mem[RowCell]
  <2>1. objects[RowCell] = mem[RowCell]
    BY <1>5, <1>8 DEF Places
  <2>2. QED
    BY <1>8, <1>9, <2>1, ReachedKeeps
<1>11. mem'[c] = d
  <2>1. reg'[r] # Unset /\ reg'[r][1].cell = c
    BY <1>1, <1>7 DEF Unset, Ref
  <2>2. QED
    BY <1>5, <1>8, <1>9, <2>1, ReachedKeeps
<1>12. ASSUME NEW k \in Regs \ {r}, IsSet(k) PROVE mem'[CellOf(k)] = mem[CellOf(k)]
  <2>1. reg'[k] = reg[k]
    BY <1>1, <1>7
  <2>2. reg'[k] # Unset /\ reg'[k][1].cell = CellOf(k)
    BY <1>12, <2>1 DEF IsSet, CellOf
  <2>3. CellOf(k) \in Places
    BY <1>12, RegType DEF SInv
  <2>4. mem'[CellOf(k)] = objects[CellOf(k)]
    BY <1>8, <1>9, <2>2, <2>3, ReachedKeeps
  <2>5. QED
    BY <1>6, <1>8, <1>12, <2>3, <2>4
<1>13. reply' \in Replies
  BY DEF Operate, Replies
<1>14. NoTypmod \in Typmods /\ FALSE \in BOOLEAN
  BY DEF Typmods
<1>15. SInv'
  BY <1>1, <1>4, <1>5, <1>6, <1>10, <1>11, <1>12, <1>13, <1>14, GetsValue
<1>16. Put(r, FALSE, d)
  BY <1>1, <1>5, <1>10, <1>11, <1>12, <1>14 DEF Put
<1>17. QED
  BY <1>15, <1>16

LEMMA ChooseStep ==
  ASSUME SInv, NEW op, NEW p \in Regs, NEW q \in Regs, NEW r \in Regs,
         ~Bare(p), ~Bare(q), Choose(op, p, q, r)
  PROVE  SInv' /\ Put(r, FALSE, ObjectOf(Chosen(op, p, q)))
<1>0. IsSet(p) /\ IsSet(q)
  BY DEF Choose, Result
<1> DEFINE s == Chosen(op, p, q)
<1>1. reg' = [reg EXCEPT ![r] = Ref(CellOf(s), NoTypmod, FALSE)]
  <2>1. Read(p) = {ObjectOf(p)} /\ Read(q) = {ObjectOf(q)}
    BY <1>0, ReadsDecimal
  <2>2. QED
    BY <2>1 DEF Choose, Chosen
<1>2. s \in Regs /\ IsSet(s) /\ ~Bare(s)
  BY <1>0 DEF Chosen
<1> HIDE DEF s
<1>3. InUse(ObjectOf(s)) /\ CellOf(s) \in Places
  BY <1>2, ReadsDecimal, RegType DEF SInv
<1>4. mem \in [Places -> Objects] /\ reg \in [Regs -> Values]
  BY TypeParts DEF SInv
<1>5. mem' = Reached(mem, reg')
  BY DEF Choose
<1>6. mem' \in [Places -> Objects] /\ mem'[RowCell] = mem[RowCell]
  BY <1>4, <1>5, ReachedKeeps
<1>7. mem'[CellOf(s)] = ObjectOf(s)
  <2>1. reg'[r] # Unset /\ reg'[r][1].cell = CellOf(s)
    BY <1>1, <1>4 DEF Unset, Ref
  <2>2. QED
    BY <1>3, <1>4, <1>5, <2>1, ReachedKeeps DEF ObjectOf
<1>8. ASSUME NEW k \in Regs \ {r}, IsSet(k) PROVE mem'[CellOf(k)] = mem[CellOf(k)]
  <2>1. reg'[k] = reg[k]
    BY <1>1, <1>4
  <2>2. reg'[k] # Unset /\ reg'[k][1].cell = CellOf(k)
    BY <1>8, <2>1 DEF IsSet, CellOf
  <2>3. CellOf(k) \in Places
    BY <1>8, RegType DEF SInv
  <2>4. QED
    BY <1>4, <1>5, <2>2, <2>3, ReachedKeeps
<1>9. \A k \in Regs : IsSet(k) /\ Bare(k) => CellOf(k) # CellOf(s)
  BY <1>2 DEF SInv, ValueInv, BareInv
<1>10. reply' \in Replies
  BY DEF Choose, Replies
<1>11. NoTypmod \in Typmods /\ FALSE \in BOOLEAN
  BY DEF Typmods
<1>12. SInv'
  <2>1. InUse(mem'[CellOf(s)])
    BY <1>3, <1>7
  <2>2. QED
    BY <1>1, <1>3, <1>6, <1>8, <1>9, <1>10, <1>11, <2>1, GetsValue
<1>13. Put(r, FALSE, ObjectOf(s))
  BY <1>1, <1>3, <1>6, <1>7, <1>8, <1>11 DEF Put
<1>14. QED
  BY <1>12, <1>13 DEF s

LEMMA FetchStep ==
  ASSUME SInv, NEW r \in Regs, Fetch(r)
  PROVE  SInv' /\ Put(r, FALSE, mem[RowCell])
<1>1. mem' = mem /\ reg' = [reg EXCEPT ![r] = Ref(RowCell, ColumnScale, FALSE)]
  BY DEF Fetch
<1>2. mem' \in [Places -> Objects]
  BY <1>1, TypeParts DEF SInv
<1>3. InUse(mem'[RowCell])
  BY <1>1 DEF SInv, Fetch
<1>4. \A k \in Regs : IsSet(k) /\ Bare(k) => CellOf(k) # RowCell
  BY SessionAssumption DEF SInv, ValueInv, BareInv
<1>5. reply' \in Replies /\ RowCell \in Places /\ ColumnScale \in Typmods /\ FALSE \in BOOLEAN
  BY SessionAssumption DEF Fetch, Replies, Places, Typmods
<1>6. SInv'
  BY <1>1, <1>2, <1>3, <1>4, <1>5, GetsValue
<1>7. QED
  BY <1>1, <1>5, <1>6 DEF Put

LEMMA SameValues ==
  ASSUME SInv, UNCHANGED <<mem, reg>>, reply' \in Replies
  PROVE  SInv' /\ mem'[RowCell] = mem[RowCell]
<1>1. TypeOK'
  BY TypeParts, TypePartsNext DEF SInv
<1>2. ASSUME NEW r \in Regs, IsSet(r)' PROVE ValueInv(r)'
  <2>1. IsSet(r) /\ ValueInv(r)
    BY <1>2 DEF SInv, IsSet
  <2>2. CASE Bare(r)
    <3>1. BareInv(r)
      BY <2>1, <2>2 DEF ValueInv
    <3>2. BareInv(r)'
      BY <3>1 DEF BareInv, IsSet, CellOf, ObjectOf, TextObjects, Words
    <3>3. QED
      BY <2>2, <3>2 DEF ValueInv, Bare
  <2>3. CASE ~Bare(r)
    BY <2>1, <2>3 DEF ValueInv, Bare, InUse, ObjectOf, CellOf
  <2>4. QED
    BY <2>2, <2>3
<1>3. QED
  BY <1>1, <1>2 DEF SInv, InUse

LEMMA HoldsType ==
  ASSUME NEW op \in Comparisons, NEW a, NEW b
  PROVE  Holds(op, a, b) \in BOOLEAN
<1>1. CASE op \in {"=", "<>"}
  <2>1. CASE op = "="
    BY <2>1 DEF Holds
  <2>2. CASE op = "<>"
    BY <2>2 DEF Holds
  <2>3. QED
    BY <1>1, <2>1, <2>2
<1>2. CASE op \in {"<", ">"}
  <2>1. CASE op = "<"
    BY <2>1 DEF Holds
  <2>2. CASE op = ">"
    BY <2>2 DEF Holds
  <2>3. QED
    BY <1>2, <2>1, <2>2
<1>3. CASE op \in {"<=", ">="}
  <2>1. CASE op = "<="
    BY <2>1 DEF Holds
  <2>2. CASE op = ">="
    BY <2>2 DEF Holds
  <2>3. QED
    BY <1>3, <2>1, <2>2
<1>4. QED
  BY <1>1, <1>2, <1>3 DEF Comparisons

LEMMA AskStep ==
  ASSUME SInv, NEW op \in Comparisons, NEW p, NEW q, Ask(op, p, q)
  PROVE  SInv' /\ mem'[RowCell] = mem[RowCell]
<1>1. Commutator[op] \in Comparisons
  BY DEF Commutator, Comparisons
<1>2. ASSUME NEW a, NEW b, NEW yes \in Answers(op, a, b) PROVE yes \in BOOLEAN
  <2>1. Holds(op, a, b) \in BOOLEAN /\ Holds(Commutator[op], b, a) \in BOOLEAN
    BY <1>1, HoldsType
  <2>2. \/ yes = Holds(op, a, b) \/ yes = Holds(Commutator[op], b, a)
        \/ yes = ~Holds(Negator[op], a, b) \/ yes = ~Holds(Negator[Commutator[op]], b, a)
    BY DEF Answers
  <2>3. QED
    BY <2>1, <2>2, Zenon
<1>3. \E yes \in BOOLEAN : reply' = <<yes>>
  BY <1>2 DEF Ask
<1>4. reply' \in Replies
  BY <1>3 DEF Replies
<1>5. QED
  BY <1>4, SameValues DEF Ask

LEMMA EndStep ==
  ASSUME SInv, End
  PROVE  SInv' /\ mem'[RowCell] = mem[RowCell]
<1>1. mem[RowCell] = Free \/ InUse(mem[RowCell])
  BY DEF SInv
<1>2. QED
  BY <1>1, Ends DEF End

LEMMA StoreStep ==
  ASSUME SInv, NEW r \in Regs, ~Bare(r), Store(r)
  PROVE  SInv'
<1>1. InUse(ObjectOf(r))
  BY ReadsDecimal DEF Store
<1>2. QED
  BY <1>1, Ends DEF Store

\* The invariant is inductive, and a step that changes the row is a store.
LEMMA DisciplinedStep ==
  ASSUME SInv, Disciplined
  PROVE  SInv' /\ (mem'[RowCell] # mem[RowCell] => \E r \in Regs : Store(r))
<1>1. CASE \E r \in Regs, x \in Literals : Literal(r, x)
  BY <1>1, LiteralStep DEF Put
<1>2. CASE End
  BY <1>2, EndStep
<1>3. CASE \E x \in Literals : LiteralError(x)
  BY <1>2, <1>3 DEF LiteralError
<1>4. CASE \E r \in Regs, t \in Scales : IsSet(r) /\ Bare(r) /\ Cast(r, t)
  BY <1>4, CastStep DEF Put
<1>5. CASE \E r \in Regs, t \in Scales : IsSet(r) /\ Bare(r) /\ CastError(r, t)
  BY <1>2, <1>5 DEF CastError
<1>6. ASSUME NEW p \in { r \in Regs : IsSet(r) /\ ~Bare(r) },
             NEW q \in { r \in Regs : IsSet(r) /\ ~Bare(r) },
             \/ \E op \in Operators, r \in Regs : Operate(op, p, q, r)
             \/ \E op \in Operators : OperateError(op, p, q)
             \/ \E op \in {"smaller", "larger"}, r \in Regs : Choose(op, p, q, r)
             \/ \E op \in Comparisons : Ask(op, p, q)
             \/ Store(p)
      PROVE  SInv' /\ (mem'[RowCell] # mem[RowCell] => \E r \in Regs : Store(r))
  <2>0. p \in Regs /\ ~Bare(p) /\ q \in Regs /\ ~Bare(q)
    OBVIOUS
  <2>1. CASE \E op \in Operators, r \in Regs : Operate(op, p, q, r)
    BY <2>0, <2>1, OperateStep DEF Put
  <2>2. CASE \E op \in Operators : OperateError(op, p, q)
    BY <1>2, <2>2 DEF OperateError
  <2>3. CASE \E op \in {"smaller", "larger"}, r \in Regs : Choose(op, p, q, r)
    BY <2>0, <2>3, ChooseStep DEF Put
  <2>4. CASE \E op \in Comparisons : Ask(op, p, q)
    BY <2>4, AskStep
  <2>5. CASE Store(p)
    BY <2>0, <2>5, StoreStep
  <2>6. QED
    BY <1>6, <2>1, <2>2, <2>3, <2>4, <2>5
<1>7. CASE \E r \in Regs : Fetch(r)
  BY <1>7, FetchStep DEF Put
<1>8. QED
  BY <1>1, <1>2, <1>3, <1>4, <1>5, <1>6, <1>7 DEF Disciplined

LEMMA SInvInit == Init => SInv
<1> SUFFICES ASSUME Init PROVE SInv
  OBVIOUS
<1>1. Free \in Objects /\ Unset \in Values /\ <<>> \in Replies /\ RowCell \in Places
  BY DEF Objects, Values, Replies, Places
<1>2. mem = [c \in Places |-> Free] /\ reg = [r \in Regs |-> Unset] /\ reply = <<>>
  BY DEF Init, Places
<1>3. mem \in [Places -> Objects] /\ reg \in [Regs -> Values] /\ reply \in Replies
  BY <1>1, <1>2
<1>4. TypeOK
  BY <1>3, TypeParts
<1>5. mem[RowCell] = Free /\ \A r \in Regs : ~IsSet(r)
  BY <1>1, <1>2 DEF IsSet
<1>6. QED
  BY <1>4, <1>5 DEF SInv

LEMMA SInvNext ==
  SInv /\ [Disciplined]_vars
    => SInv' /\ (mem'[RowCell] # mem[RowCell] => \E r \in Regs : Store(r))
<1>1. ASSUME SInv, UNCHANGED vars
      PROVE  SInv' /\ mem'[RowCell] = mem[RowCell]
  <2>1. reply' \in Replies
    BY <1>1, TypeParts DEF SInv, vars
  <2>2. QED
    BY <1>1, <2>1, SameValues DEF vars
<1>2. QED
  BY <1>1, DisciplinedStep

LEMMA SessionInvariant == CastFirstSpec => []SInv
<1>1. QED
  BY SInvInit, SInvNext, PTL DEF CastFirstSpec

-----------------------------------------------------------------------------
\* fxypty_in, fxypty_in_casted and the operators leave only texts and decimals
\* of the widths declared in memory, for any number of values and cells.
THEOREM TypeCorrect == CastFirstSpec => []TypeOK
<1>1. SInv => TypeOK
  BY DEF SInv
<1>2. QED
  BY <1>1, SessionInvariant, PTL

\* Under the discipline of the tests no value is freed while it is in use, by
\* the pfree of fxypty_in_casted, and none is a text that fxypty_in has left.
THEOREM ValuesLive == CastFirstSpec => []LiveDecimals
<1>1. SInv => LiveDecimals
  BY DEF SInv, ValueInv, InUse, LiveDecimals, Decimals
<1>2. QED
  BY <1>1, SessionInvariant, PTL

\* The pfree of fxypty_in_casted never meets the row: only a store changes it.
THEOREM OnlyStoresChangeRow == CastFirstSpec => RowKept
<1>1. SInv /\ [Disciplined]_vars
        => [mem'[RowCell] # mem[RowCell] => \E r \in Regs : Store(r)]_vars
  BY SInvNext
<1>2. QED
  BY <1>1, SessionInvariant, PTL DEF CastFirstSpec, RowKept

=============================================================================
