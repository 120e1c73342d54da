--------------------------- MODULE FxyPtyDecimal ---------------------------
(***************************************************************************)
(* The fxypty object and the functions of fxypty_impl.cpp on it: the 16    *)
(* bytes of a 128-bit integer and a scale.                                 *)
(*                                                                         *)
(* Each function is the set of objects it may return; it is empty when the *)
(* function returns NULL, which the functions of fxypty.c turn into an     *)
(* error of the statement.                                                 *)
(***************************************************************************)
EXTENDS FxyPtyNumbers

(***************************************************************************)
(* libfixeypointy::Decimal, an external library, as the extension uses it: *)
(* a result that is no __int128_t makes the library throw.  A result that  *)
(* the scale cannot hold exactly is one of the two neighbours.             *)
(***************************************************************************)
Quotients(a, b) == {a \div b, -((-a) \div b)} \intersect Native

LibAdd(x, y) == {x + y} \intersect Native

LibSubtract(x, y) == {x - y} \intersect Native

LibMultiply(x, y, s) == Quotients(x * y, Pow[s])

LibDivide(x, y, s) ==
  IF y = 0 THEN {}
  ELSE IF y > 0 THEN Quotients(x * Pow[s], y)
  ELSE Quotients(-x * Pow[s], -y)

\* The text of the number n / Base^d, read at scale s.
LibParse(n, d, s) == Quotients(n * Pow[s], Pow[d])

LibCompare(x, y) == IF x < y THEN -1 ELSE IF x > y THEN 1 ELSE 0

-----------------------------------------------------------------------------
Object(v, s) == [kind |-> "decimal", bytes |-> Unpack128(v), scale |-> s]

Value(a) == Pack128(a.bytes)

\* _fxypty_in: the text keeps the scale of the type modifier.
In(n, d, s) == { Object(v, s) : v \in LibParse(n, d, s) }

\* _fxypty_add, _fxypty_subtract, _fxypty_multiply and _fxypty_divide: the
\* result has the scale of the first operand; that of the second is not read.
\* Variants with a mistake in them, here and below, are used to see that a
\* property notices the mistake: this one reads the low words as signed.
AddUnmasked(a, b) ==
  { Object(v, a.scale) : v \in LibAdd(Pack128Unmasked(a.bytes), Pack128Unmasked(b.bytes)) }

Add(a, b) == { Object(v, a.scale) : v \in LibAdd(Value(a), Value(b)) }

Subtract(a, b) == { Object(v, a.scale) : v \in LibSubtract(Value(a), Value(b)) }

Multiply(a, b) ==
  { Object(v, a.scale) : v \in LibMultiply(Value(a), Value(b), a.scale) }

\* A variant that does not scale the quotient.
DivideUnscaled(a, b) == { Object(v, a.scale) : v \in LibDivide(Value(a), Value(b), 0) }

Divide(a, b) ==
  { Object(v, a.scale) : v \in LibDivide(Value(a), Value(b), a.scale) }

\* A variant that compares the low words.
CompareLow(a, b) == LibCompare(a.bytes.lo, b.bytes.lo)

\* _fxypty_compare compares the integers, whatever the scales.
Compare(a, b) == LibCompare(Value(a), Value(b))

\* fxypty_eq to fxypty_gte.
Holds(op, a, b) ==
  CASE op = "=" -> Compare(a, b) = 0
    [] op = "<>" -> Compare(a, b) # 0
    [] op = "<" -> Compare(a, b) < 0
    [] op = ">" -> Compare(a, b) > 0
    [] op = "<=" -> Compare(a, b) <= 0
    [] op = ">=" -> Compare(a, b) >= 0

\* Whether fxypty_smaller and fxypty_larger return their first argument.
FirstIsSmaller(a, b) == Compare(a, b) < 0

FirstIsLarger(a, b) == Compare(a, b) >= 0

=============================================================================
