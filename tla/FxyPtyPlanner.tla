--------------------------- MODULE FxyPtyPlanner ---------------------------
(***************************************************************************)
(* What the SQL script tells the planner of the comparisons: the operator  *)
(* that gives the same answer with its operands exchanged, and the one     *)
(* that gives the opposite answer.  The planner trusts both: it may run a  *)
(* comparison in any form that follows from them.                          *)
(***************************************************************************)
EXTENDS FxyPtyDecimal

Comparisons == {"=", "<>", "<", ">", "<=", ">="}

Commutator ==
  [op \in Comparisons |->
     CASE op = "<" -> ">"
       [] op = ">" -> "<"
       [] op = "<=" -> ">="
       [] op = ">=" -> "<="
       [] OTHER -> op]

\* A variant with a mistake in it, used to see that a property notices the
\* mistake: the opposite of an order taken for its mirror image.
NegatorMirrored ==
  [op \in Comparisons |->
     CASE op = "=" -> "<>"
       [] op = "<>" -> "="
       [] OTHER -> Commutator[op]]

Negator ==
  [op \in Comparisons |->
     CASE op = "=" -> "<>"
       [] op = "<>" -> "="
       [] op = "<" -> ">="
       [] op = ">" -> "<="
       [] op = "<=" -> ">"
       [] op = ">=" -> "<"]

\* The answers to "a op b": asked as it stands, with the operands exchanged,
\* and both of these as the negation of the opposite comparison.
Answers(op, a, b) ==
  { Holds(op, a, b), Holds(Commutator[op], b, a),
    ~Holds(Negator[op], a, b), ~Holds(Negator[Commutator[op]], b, a) }

=============================================================================
