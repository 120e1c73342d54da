---------------------------- MODULE FxyPtyExact ----------------------------
(***************************************************************************)
(* What a user of the type is promised: the values of a statement are      *)
(* exact decimal numbers.  A number is counted in units of the smallest    *)
(* fraction, One units making 1; values are multiples of Grain units.  A   *)
(* literal is rounded to the grain, a sum or a difference is exact, a      *)
(* product or a quotient is off by less than a grain, comparisons, minimum *)
(* and maximum are those of the numbers.  An operation may fail instead,   *)
(* which ends the statement.  Only storing changes the row of the table.   *)
(***************************************************************************)
EXTENDS Integers, Sequences

CONSTANTS
  Regs,      \* the places for the values of a statement
  Literals,  \* the numbers written in the statements, in units
  One,       \* units of the number 1
  Grain      \* units of the last digit of the column's scale

VARIABLES
  val,   \* the numbers the statement has computed: <<>> or <<n>> by place
  row,   \* the number in the row of the table: <<>> or <<n>>
  reply  \* the answer of the last comparison: <<>> or <<TRUE>> or <<FALSE>>

vars == <<val, row, reply>>

Nothing == [r \in Regs |-> <<>>]

Init == val = Nothing /\ row = <<>> /\ reply = <<>>

Within(x, bound) == -bound < x /\ x < bound

\* The numbers z that an operation on x and y may give.
Gives(op, x, y, z) ==
  CASE op = "+" -> z = x + y
    [] op = "-" -> z = x - y
    [] op = "*" -> Within((z * One) - (x * y), Grain * One)
    [] op = "/" -> y # 0 /\ Within((z * y) - (x * One), IF y > 0 THEN Grain * y
                                                        ELSE Grain * (-y))
    [] op = "smaller" -> z = IF x < y THEN x ELSE y
    [] op = "larger" -> z = IF x > y THEN x ELSE y

True(op, x, y) ==
  CASE op = "=" -> x = y
    [] op = "<>" -> x # y
    [] op = "<" -> x < y
    [] op = ">" -> x > y
    [] op = "<=" -> x <= y
    [] op = ">=" -> x >= y

\* The place r gets a number; the others keep theirs.
Fill(r) ==
  /\ Len(val'[r]) = 1
  /\ \A q \in Regs \ {r} : val'[q] = val[q]
  /\ reply' = <<>> /\ UNCHANGED row

\* A literal, which is the number of its text to the grain.
Rounded(z) == z % Grain = 0 /\ \E x \in Literals : Within(z - x, Grain)

Operators == {"+", "-", "*", "/", "smaller", "larger"}

\* The result of an operator on two values of the statement.
Computed(z) ==
  \E a, b \in { q \in Regs : val[q] # <<>> } :
    \E op \in Operators : Gives(op, val[a][1], val[b][1], z)

\* A new value: a literal, the number of the row, or an operator's result.
Evaluate(r) ==
  /\ Fill(r)
  /\ \/ val'[r] = row
     \/ Rounded(val'[r][1])
     \/ Computed(val'[r][1])

\* A statement that stores a number ends by it.
Store(r) ==
  /\ val[r] # <<>>
  /\ row' = val[r] /\ val' = Nothing /\ reply' = <<>>

Ask(op, a, b) ==
  /\ val[a] # <<>> /\ val[b] # <<>>
  /\ reply' = <<True(op, val[a][1], val[b][1])>>
  /\ UNCHANGED <<val, row>>

\* Something happens that gives no number yet.
Write == reply' = <<>> /\ UNCHANGED <<val, row>>

\* The statement ends, with or without an error.
Finish == val' = Nothing /\ reply' = <<>> /\ UNCHANGED row

Next ==
  \/ Write \/ Finish
  \/ \E r \in Regs : Store(r) \/ Evaluate(r)
  \/ \E a, b \in Regs : \E op \in {"=", "<>", "<", ">", "<=", ">="} : Ask(op, a, b)

Spec == Init /\ [][Next]_vars

=============================================================================
