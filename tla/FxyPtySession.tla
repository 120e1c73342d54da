--------------------------- MODULE FxyPtySession ---------------------------
(***************************************************************************)
(* The values of a statement: the literals, casts, operators and           *)
(* comparisons a statement is made of, each a call of a function of        *)
(* fxypty.c, and the row of a table whose column has a type modifier.      *)
(*                                                                         *)
(* A value is a pointer to an object in memory.  A literal is a sequence   *)
(* of words, each a number [num, frac] that stands for num / Base^frac.    *)
(* fxypty_in makes an object that holds the first word; the cast to a type *)
(* modifier turns it into a decimal and frees it.  Operators read their    *)
(* arguments as decimals and casts read theirs as text, whatever they are; *)
(* an object that is read as what it is not gives an arbitrary result.     *)
(*                                                                         *)
(* A type modifier stands for the scale that fxypty_in_casted reads from   *)
(* it (see FxyPtyTypmod).  The rows of PostgreSQL, the memory of a         *)
(* statement and the planner's choice of when to call the cast are         *)
(* external.                                                               *)
(***************************************************************************)
EXTENDS FxyPtyPlanner, Sequences

CONSTANTS
  Regs,         \* the places for the values of a statement
  Cells,        \* the memory for the objects a statement makes
  Scales,       \* the scales of the type modifiers in use
  ColumnScale,  \* the scale of the column's modifier
  Literals      \* the texts written: sequences of words

RowCell == "row"
NoTypmod == -1

ASSUME SessionAssumption ==
  /\ Scales \subseteq 0..MaxDigits /\ ColumnScale \in Scales
  /\ Literals \subseteq Seq([num : Int, frac : 0..MaxDigits])
  /\ RowCell \notin Cells

VARIABLES
  mem,   \* the objects: by cell, and in the row of the table
  reg,   \* the statement's values: cell and type modifier, as the planner sees
  reply  \* the answer of the last comparison

vars == <<mem, reg, reply>>

Free == [kind |-> "free"]
Text(x) == [kind |-> "text", num |-> x.num, frac |-> x.frac]
Unset == <<>>

\* The words that are read.
Words == { Head(x) : x \in Literals \ {<<>>} }

\* A value: where its object is, its modifier, and whether it was written as
\* a bare literal.
Ref(c, t, bare) == <<[cell |-> c, typmod |-> t, bare |-> bare]>>

IsSet(r) == reg[r] # Unset
CellOf(r) == reg[r][1].cell
TypmodOf(r) == reg[r][1].typmod
Bare(r) == reg[r][1].bare
ObjectOf(r) == mem[CellOf(r)]

FreeCells == { c \in Cells : mem[c] = Free }

Init ==
  /\ mem = [c \in Cells \union {RowCell} |-> Free]
  /\ reg = [r \in Regs |-> Unset]
  /\ reply = <<>>

\* A statement ends with the given row in the table, and its memory is freed.
EndWith(row) ==
  /\ mem' = [c \in Cells \union {RowCell} |-> IF c = RowCell THEN row ELSE Free]
  /\ reg' = [r \in Regs |-> Unset]
  /\ reply' = <<>>

\* It may end at any time; an error is one way to end it.
End == EndWith(mem[RowCell])

\* The scale of a decimal is not checked when it is read.  One number stands
\* for all the scales that no cast gives.
UncastScale == MaxDigits + 1

\* What the bytes of an object that is no decimal can be taken for: four of
\* them, which nothing may have written, for the scale.
Garbage == { Object(v, s) : v \in Native, s \in 0..UncastScale }

\* The decimals an operator can find behind a pointer.
Read(r) == IF ObjectOf(r).kind = "decimal" THEN {ObjectOf(r)} ELSE Garbage

-----------------------------------------------------------------------------
\* fxypty_in: "Only store string", which sscanf ends at the first blank.
Literal(r, x) ==
  /\ ~IsSet(r)
  /\ x # <<>>
  /\ \E c \in FreeCells :
       /\ mem' = [mem EXCEPT ![c] = Text(Head(x))]
       /\ reg' = [reg EXCEPT ![r] = Ref(c, NoTypmod, TRUE)]
  /\ reply' = <<>>

\* sscanf finds no word.
LiteralError(x) == x = <<>> /\ End

\* What fxypty_in_casted makes of the object it reads as a text.
Parsed(object, t) ==
  IF object.kind = "text" THEN In(object.num, object.frac, t)
  ELSE { Object(v, t) : v \in Native }

\* fxypty with the modifier t, by way of fxypty_out_casted, which hands the
\* argument on, and fxypty_in_casted, which frees it after a success.  The
\* planner calls it where the value has another modifier.
Cast(r, t) ==
  /\ IsSet(r) /\ TypmodOf(r) # t
  /\ \E c \in FreeCells, d \in Parsed(ObjectOf(r), t) :
       /\ mem' = [mem EXCEPT ![c] = d, ![CellOf(r)] = Free]
       /\ reg' = [reg EXCEPT ![r] = Ref(c, t, FALSE)]
  /\ reply' = <<>>

\* The text is rejected or its number has no room.
CastError(r, t) ==
  /\ IsSet(r) /\ TypmodOf(r) # t
  /\ Parsed(ObjectOf(r), t) = {} \/ ObjectOf(r).kind # "text"
  /\ End

Arithmetic(op, a, b) ==
  CASE op = "+" -> Add(a, b)
    [] op = "-" -> Subtract(a, b)
    [] op = "*" -> Multiply(a, b)
    [] op = "/" -> Divide(a, b)

Operators == {"+", "-", "*", "/"}

\* The first operand's scale becomes that of the result; products and
\* quotients are taken at it, which makes them arbitrary when no cast gives it.
Unscaled(op, a) == op \in {"*", "/"} /\ a.scale = UncastScale

Results(op, a, b) ==
  IF Unscaled(op, a) THEN { Object(v, a.scale) : v \in Native }
                     ELSE Arithmetic(op, a, b)

\* The result of an operator takes an empty place or that of an operand.
Result(p, q, r) == IsSet(p) /\ IsSet(q) /\ (IsSet(r) => r \in {p, q})

\* An object that no value points to any more is never read: it is forgotten.
Reached(objects, values) ==
  [c \in DOMAIN objects |->
     IF c = RowCell \/ \E r \in Regs : values[r] # Unset /\ values[r][1].cell = c
     THEN objects[c] ELSE Free]

\* Variants with a mistake in them, used to see that a property notices the
\* mistake: one frees its first argument, as casts do, and one makes its result
\* of that argument, as an aggregate might.
OperateFrees(op, p, q, r) ==
  /\ Result(p, q, r)
  /\ \E c \in FreeCells :
       /\ reg' = [reg EXCEPT ![r] = Ref(c, NoTypmod, FALSE)]
       /\ \E a \in Read(p), b \in Read(q) : \E d \in Results(op, a, b) :
            mem' = Reached([mem EXCEPT ![c] = d, ![CellOf(p)] = Free], reg')
  /\ reply' = <<>>

OperateInPlace(op, p, q, r) ==
  /\ Result(p, q, r)
  /\ reg' = [reg EXCEPT ![r] = Ref(CellOf(p), NoTypmod, FALSE)]
  /\ \E a \in Read(p), b \in Read(q) : \E d \in Results(op, a, b) :
       mem' = Reached([mem EXCEPT ![CellOf(p)] = d], reg')
  /\ reply' = <<>>

\* fxypty_add, fxypty_subtract, fxypty_multiply, fxypty_divide.
Operate(op, p, q, r) ==
  /\ Result(p, q, r)
  /\ \E c \in FreeCells :
       /\ reg' = [reg EXCEPT ![r] = Ref(c, NoTypmod, FALSE)]
       /\ \E a \in Read(p), b \in Read(q) : \E d \in Results(op, a, b) :
            mem' = Reached([mem EXCEPT ![c] = d], reg')
  /\ reply' = <<>>

\* A NULL result is an error of the statement.
OperateError(op, p, q) ==
  /\ IsSet(p) /\ IsSet(q)
  /\ \E a \in Read(p), b \in Read(q) : Unscaled(op, a) \/ Arithmetic(op, a, b) = {}
  /\ End

\* fxypty_smaller and fxypty_larger return one of the two pointers.
Choose(op, p, q, r) ==
  /\ Result(p, q, r)
  /\ \E a \in Read(p), b \in Read(q) :
       LET first == IF op = "smaller" THEN FirstIsSmaller(a, b)
                                      ELSE FirstIsLarger(a, b)
       IN  reg' = [reg EXCEPT ![r] =
                     Ref(CellOf(IF first THEN p ELSE q), NoTypmod, FALSE)]
  /\ mem' = Reached(mem, reg')
  /\ reply' = <<>>

\* fxypty_eq to fxypty_gte, in any form that the planner gives the question.
Ask(op, p, q) ==
  /\ IsSet(p) /\ IsSet(q)
  /\ UNCHANGED <<mem, reg>>
  /\ \E a \in Read(p), b \in Read(q) : \E yes \in Answers(op, a, b) : reply' = <<yes>>

\* An INSERT or UPDATE stores a value under the column's modifier, as the
\* bytes of its object, and is then done.
Store(r) ==
  /\ IsSet(r) /\ TypmodOf(r) = ColumnScale
  /\ EndWith(ObjectOf(r))

\* A value that is read points into the row.
Fetch(r) ==
  /\ ~IsSet(r) /\ mem[RowCell] # Free
  /\ reg' = [reg EXCEPT ![r] = Ref(RowCell, ColumnScale, FALSE)]
  /\ reply' = <<>>
  /\ UNCHANGED mem

Next ==
  \/ \E r \in Regs, x \in Literals : Literal(r, x)
  \/ \E x \in Literals : LiteralError(x)
  \/ \E r \in Regs, t \in Scales : Cast(r, t) \/ CastError(r, t)
  \/ \E op \in Operators, p, q, r \in Regs : Operate(op, p, q, r)
  \/ \E op \in Operators, p, q \in Regs : OperateError(op, p, q)
  \/ \E op \in {"smaller", "larger"}, p, q, r \in Regs : Choose(op, p, q, r)
  \/ \E op \in Comparisons, p, q \in Regs : Ask(op, p, q)
  \/ \E r \in Regs : Store(r) \/ Fetch(r)
  \/ End

Spec == Init /\ [][Next]_vars

\* The discipline of the tests: a bare literal is cast, once, before anything
\* else is done with it, and no other value is ever cast.
Disciplined ==
  \/ \E r \in Regs, x \in Literals : Literal(r, x)
  \/ \E x \in Literals : LiteralError(x)
  \/ \E r \in Regs, t \in Scales :
       IsSet(r) /\ Bare(r) /\ (Cast(r, t) \/ CastError(r, t))
  \/ \E p, q \in { r \in Regs : IsSet(r) /\ ~Bare(r) } :
       \/ \E op \in Operators, r \in Regs : Operate(op, p, q, r)
       \/ \E op \in Operators : OperateError(op, p, q)
       \/ \E op \in {"smaller", "larger"}, r \in Regs : Choose(op, p, q, r)
       \/ \E op \in Comparisons : Ask(op, p, q)
       \/ Store(p)
  \/ \E r \in Regs : Fetch(r)
  \/ End

CastFirstSpec == Init /\ [][Disciplined]_vars

-----------------------------------------------------------------------------
Decimals == [kind : {"decimal"}, bytes : [lo : Int64, hi : Int64], scale : 0..MaxDigits]

TypeOK ==
  /\ mem \in [Cells \union {RowCell} ->
                {Free} \union { Text(w) : w \in Words } \union Decimals]
  /\ reg \in [Regs -> {Unset} \union
                { Ref(c, t, bare) : c \in Cells \union {RowCell},
                                    t \in Scales \union {NoTypmod},
                                    bare \in BOOLEAN }]
  /\ reply \in {<<>>, <<TRUE>>, <<FALSE>>}

\* A value that is no bare literal is a decimal, with the scale of one of the
\* modifiers in use: none is freed under it, and no text is taken for one.
LiveDecimals ==
  \A r \in Regs : IsSet(r) /\ ~Bare(r) =>
    ObjectOf(r).kind = "decimal" /\ ObjectOf(r).scale \in Scales

\* The number an object stands for, in units of Base^-MaxDigits.
Number(object) ==
  CASE object.kind = "decimal" -> Value(object) * Pow[MaxDigits - object.scale]
    [] object.kind = "text" -> object.num * Pow[MaxDigits - object.frac]
    [] object.kind = "free" -> 0

Number1(object) == IF object.kind = "free" THEN <<>> ELSE <<Number(object)>>

Exact == INSTANCE FxyPtyExact WITH
  Literals <- { Number(Text(w)) : w \in Words },
  One <- Pow[MaxDigits],
  Grain <- Pow[MaxDigits - ColumnScale],
  val <- [r \in Regs |-> IF IsSet(r) /\ ~Bare(r) THEN Number1(ObjectOf(r)) ELSE <<>>],
  row <- Number1(mem[RowCell])

\* The statements compute with exact decimal numbers.
ImplementsExact == Exact!Spec

-----------------------------------------------------------------------------
(***************************************************************************)
(* What the comments of the source say of the single functions.            *)
(***************************************************************************)
\* The values that are decimals, with a scale that a cast gives, and the number
\* that a step puts in a place.
Given ==
  { r \in Regs : IsSet(r) /\ ObjectOf(r).kind = "decimal" /\ ObjectOf(r).scale <= MaxDigits }

NewNumber(r) == Number(mem'[reg'[r][1].cell])

\* Each operator gives the number its comment promises: the exact sum and
\* difference, the product and the quotient to the grain, and the smaller and
\* the larger of the two numbers.
OperatorsExact ==
  [][ \A p, q \in Given, r \in Regs :
        /\ \A op \in Operators :
             Operate(op, p, q, r) =>
               Exact!Gives(op, Number(ObjectOf(p)), Number(ObjectOf(q)), NewNumber(r))
        /\ \A op \in {"smaller", "larger"} :
             Choose(op, p, q, r) =>
               Exact!Gives(op, Number(ObjectOf(p)), Number(ObjectOf(q)), NewNumber(r)) ]_vars

\* fxypty_add returns the sum of both the objects.
AddIsSum ==
  [][ \A p, q \in Given, r \in Regs :
        Operate("+", p, q, r) =>
          NewNumber(r) = Number(ObjectOf(p)) + Number(ObjectOf(q)) ]_vars

\* fxypty_eq to fxypty_gte compare the values of both the objects, whichever
\* commutator or negator the planner puts in their place.
Compares(p, q) ==
  \A op \in Comparisons :
    Ask(op, p, q) =>
      reply' = <<Exact!True(op, Number(ObjectOf(p)), Number(ObjectOf(q)))>>

ComparesValues == [][ \A p, q \in Given : Compares(p, q) ]_vars

\* fxypty casts a fxypty object into another fxypty object.
CastKeepsNumber ==
  [][ \A r \in Given, t \in Scales :
        Cast(r, t) =>
          Exact!Within(NewNumber(r) - Number(ObjectOf(r)), Pow[MaxDigits - t]) ]_vars

\* What fxypty_in_casted frees is its input string: only an INSERT or UPDATE
\* touches the row of the table.
RowKept ==
  [][ mem'[RowCell] # mem[RowCell] => \E r \in Regs : Store(r) ]_vars

=============================================================================
