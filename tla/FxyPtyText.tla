----------------------------- MODULE FxyPtyText -----------------------------
(***************************************************************************)
(* What fxypty_out promises its caller: the call returns, with the sign,   *)
(* the integer part and the fractional part of the decimal number          *)
(* value / Base^scale.  Nothing is said of words, chunks or loops; the     *)
(* digit loops of FxyPtyOut implement this specification.  For a value     *)
(* that is not Printable, and for a scale that no cast gives, the outcome  *)
(* of the call is arbitrary, but it does not run forever.                  *)
(***************************************************************************)
EXTENDS Integers

CONSTANTS
  MaxDigits,  \* the largest scale that a cast gives
  Scales,     \* the scales of the objects that are printed
  Pow,        \* the table of the powers of the base
  Inputs,     \* the values that are printed
  Printable   \* the values the text spells

VARIABLES
  value,    \* the argument's 128-bit integer
  scale,    \* the argument's scale
  printed   \* <<>>, or the text returned

Absolute(v) == IF v < 0 THEN -v ELSE v

\* A variant with a mistake in it, used to see that a property notices the
\* mistake: the sign taken from the integer part.
DecimalSignOfInt(v, s) ==
  [neg |-> v <= -Pow[s], int |-> Absolute(v) \div Pow[s],
   frac |-> Absolute(v) % Pow[s], digits |-> s]

Decimal(v, s) ==
  [neg |-> v < 0, int |-> Absolute(v) \div Pow[s],
   frac |-> Absolute(v) % Pow[s], digits |-> s]

Init ==
  /\ value \in Inputs
  /\ scale \in Scales
  /\ printed = <<>>

Deliver ==
  /\ printed = <<>>
  /\ printed' # <<>>
  /\ (value \in Printable /\ scale <= MaxDigits)
       => printed' = <<Decimal(value, scale)>>
  /\ UNCHANGED <<value, scale>>

vars == <<value, scale, printed>>

Spec == Init /\ [][Deliver]_vars

\* The call does not run forever.
ReturningSpec == Spec /\ <>(printed # <<>>)

=============================================================================
