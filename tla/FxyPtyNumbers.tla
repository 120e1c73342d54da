--------------------------- MODULE FxyPtyNumbers ---------------------------
(***************************************************************************)
(* The numbers of the extension: the C integers its code computes with,    *)
(* the 16 bytes in which a fxypty value keeps its 128-bit integer, and the *)
(* table of powers of ten.                                                 *)
(*                                                                         *)
(* The widths are parameters.  In the code Base = 10, Word = 2^64 (the     *)
(* number of values of an int64_t), so that a native value is an           *)
(* __int128_t, and MaxDigits = 38.  Pow tabulates the powers of the base.  *)
(***************************************************************************)
EXTENDS Integers

CONSTANTS
  Base,       \* the radix of the printed digits
  Word,       \* how many values an int64_t has
  MaxDigits,  \* MAXIMUM_DIGIT, the precision a type modifier may ask for
  MaxPow,     \* the largest exponent of the table
  Pow         \* the table POWER_OF_TEN

\* The table starts with 1, and each entry is Base times the one before it.
\* The last exponent lies beyond every native value.
ASSUME NumbersAssumption ==
  /\ Base \in Nat /\ Base > 1
  /\ Word \in Nat /\ Word > 1 /\ Word % 2 = 0
  /\ MaxDigits \in Nat /\ MaxPow \in Nat
  /\ 0 < MaxDigits /\ MaxDigits < MaxPow

ASSUME PowAssumption ==
  /\ Pow \in [0..MaxPow -> Int]
  /\ Pow[0] = 1
  /\ \A i \in 0..(MaxPow - 1) : Pow[i + 1] = Base * Pow[i]

HalfWord == Word \div 2

Int64 == -HalfWord .. HalfWord - 1

NativeLimit == Word * HalfWord

\* The values of libfixeypointy::Decimal::value_, an __int128_t.
Native == -NativeLimit .. NativeLimit - 1

ASSUME NativeAssumption ==
  /\ Pow[MaxDigits] <= NativeLimit
  /\ NativeLimit < Pow[MaxPow]

(***************************************************************************)
(* C arithmetic.  A conversion to int64_t keeps the value modulo 2^64; the *)
(* quotient of a division is truncated toward zero and the remainder has   *)
(* the sign of the dividend.                                               *)
(***************************************************************************)
ToInt64(v) == ((v + HalfWord) % Word) - HalfWord

CDiv(a, b) == IF a >= 0 THEN a \div b ELSE -((-a) \div b)

CMod(a, b) == IF a >= 0 THEN a % b ELSE -((-a) % b)

(***************************************************************************)
(* The stored form of a native value, int64_t bytes[2], and its reading.   *)
(* A value is written by copying the 16 bytes of the __int128_t (low word  *)
(* first), and read back by masking the low word and shifting the high     *)
(* one.                                                                    *)
(***************************************************************************)
\* Variants with a mistake in them, used to see that a property notices the
\* mistake: a low word kept unsigned, and one read without the mask.
Unpack128Unsigned(v) == [lo |-> v % Word, hi |-> v \div Word]

Unpack128(v) == [lo |-> ToInt64(v), hi |-> v \div Word]

Pack128Unmasked(d) == d.lo + (d.hi * Word)

Pack128(d) == (d.lo % Word) + (d.hi * Word)

=============================================================================
