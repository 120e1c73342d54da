----------------------------- MODULE FxyPtyAgg -----------------------------
(***************************************************************************)
(* The aggregates sum, min and max over a column: the executor hands the   *)
(* rows of the table, in any order, to the transition function, which is   *)
(* fxypty_add, fxypty_smaller or fxypty_larger.  There is no initial       *)
(* state and the functions are strict: a NULL is passed over and the first *)
(* other value becomes the state.  The executor keeps a copy of the state  *)
(* (external); a copy is the object, all of whose bytes it holds.          *)
(***************************************************************************)
EXTENDS FxyPtyDecimal, FiniteSets

CONSTANTS
  Rows,    \* the rows of the table
  Scale,   \* the scale of the column
  Values   \* the values the column may hold

NULL == [kind |-> "null"]

ASSUME AggAssumption ==
  /\ IsFiniteSet(Rows)
  /\ Scale \in 0..MaxDigits
  /\ Values \subseteq Native

Sum == INSTANCE FiniteSetsExt

Column == { Object(v, Scale) : v \in Values } \union {NULL}

VARIABLES
  agg,     \* the aggregate: "sum", "min" or "max"
  column,  \* the column, by row
  left,    \* the rows that are still to come
  state,   \* the transition state: NULL or an object
  status   \* "scan", "done" or "error"

vars == <<agg, column, left, state, status>>

Init ==
  /\ agg \in {"sum", "min", "max"}
  /\ column \in [Rows -> Column]
  /\ left = Rows
  /\ state = NULL
  /\ status = "scan"

\* A variant with a mistake in it, used to see that a property notices the
\* mistake: a minimum that compares the wrong way round.
TransitionSwapped(a, b) ==
  CASE agg = "sum" -> Add(a, b)
    [] agg = "min" -> { IF FirstIsLarger(a, b) THEN a ELSE b }
    [] agg = "max" -> { IF FirstIsLarger(a, b) THEN a ELSE b }

\* The states that the transition function returns; none when it fails.
Transition(a, b) ==
  CASE agg = "sum" -> Add(a, b)
    [] agg = "min" -> { IF FirstIsSmaller(a, b) THEN a ELSE b }
    [] agg = "max" -> { IF FirstIsLarger(a, b) THEN a ELSE b }

First(i) ==
  /\ status = "scan" /\ i \in left
  /\ state = NULL /\ column[i] # NULL
  /\ state' = column[i]
  /\ left' = left \ {i}
  /\ UNCHANGED <<agg, column, status>>

Strict(i) ==
  /\ status = "scan" /\ i \in left
  /\ column[i] = NULL
  /\ left' = left \ {i}
  /\ UNCHANGED <<agg, column, state, status>>

Advance(i) ==
  /\ status = "scan" /\ i \in left
  /\ state # NULL /\ column[i] # NULL
  /\ state' \in Transition(state, column[i])
  /\ left' = left \ {i}
  /\ UNCHANGED <<agg, column, status>>

\* The sum has no room: the query ends with an error.
Fail(i) ==
  /\ status = "scan" /\ i \in left
  /\ state # NULL /\ column[i] # NULL
  /\ Transition(state, column[i]) = {}
  /\ status' = "error"
  /\ UNCHANGED <<agg, column, left, state>>

Finish ==
  /\ status = "scan" /\ left = {}
  /\ status' = "done"
  /\ UNCHANGED <<agg, column, left, state>>

Next ==
  \/ \E i \in Rows : First(i) \/ Strict(i) \/ Advance(i) \/ Fail(i)
  \/ Finish

Spec == Init /\ [][Next]_vars

-----------------------------------------------------------------------------
Objects == [kind : {"decimal"}, bytes : [lo : Int64, hi : Int64], scale : 0..MaxDigits]

TypeOK ==
  /\ agg \in {"sum", "min", "max"}
  /\ column \in [Rows -> Column]
  /\ left \subseteq Rows
  /\ state \in Objects \union {NULL}
  /\ status \in {"scan", "done", "error"}

\* The rows the state accounts for.
Seen == { i \in Rows \ left : column[i] # NULL }

Total(rows) == Sum!MapThenSumSet(LAMBDA i : Value(column[i]), rows)

\* Whatever the order of the rows, the state is NULL as long as nothing else
\* was seen, and minimum and maximum are a value that was seen and a bound of
\* all of them.
ExtremeRight ==
  /\ state = NULL <=> Seen = {}
  /\ agg # "sum" /\ state # NULL =>
       /\ \E i \in Seen : state = column[i]
       /\ \A i \in Seen : IF agg = "min" THEN Value(state) <= Value(column[i])
                                         ELSE Value(state) >= Value(column[i])

\* The sum is the exact sum of the rows seen, at the scale of the column.
SumRight ==
  agg = "sum" /\ state # NULL => /\ Value(state) = Total(Seen)
                                 /\ state.scale = Scale

\* A query fails only as a sum, and only when some of its rows have a sum that
\* no __int128_t holds: no order of the rows fails where all such sums fit.
ErrorDeserved ==
  status = "error" =>
    /\ agg = "sum"
    /\ \E rows \in SUBSET { i \in Rows : column[i] # NULL } : Total(rows) \notin Native

=============================================================================
