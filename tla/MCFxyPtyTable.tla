---------------------------- MODULE MCFxyPtyTable ----------------------------
(***************************************************************************)
(* A small instance of FxyPtyTable: binary digits, native values of two    *)
(* three-bit words, at most 4 digits, 6 bytes for a value.  As in the code *)
(* some values are not printable, and the longest texts do not fit.        *)
(***************************************************************************)
EXTENDS FxyPtyTable

MCPow == [i \in 0..6 |-> 2^i]

\* Both ends of every bound of the modifier's check.
MCRequests ==
  { <<d, f>> : d \in -2..6, f \in -8..5 } \union { <<d>> : d \in 0..4 }
    \union { <<3, 1, f>> : f \in 0..1 }

\* Two digits in the low word: 4 * 4 of each sign.
MCPrintable == -15..15

\* 1.1, -0.01, 0.0011, 101.1, -10.001, -11111.1 and 100000.0: the fifth is cut
\* in its fraction, the sixth before its dot, and the last has no room.
MCTexts ==
  { [neg |-> FALSE, int |-> 1, frac |-> 1, digits |-> 1],
    [neg |-> TRUE, int |-> 0, frac |-> 1, digits |-> 2],
    [neg |-> FALSE, int |-> 0, frac |-> 3, digits |-> 4],
    [neg |-> FALSE, int |-> 5, frac |-> 1, digits |-> 1],
    [neg |-> TRUE, int |-> 2, frac |-> 1, digits |-> 3],
    [neg |-> TRUE, int |-> 31, frac |-> 1, digits |-> 1],
    [neg |-> FALSE, int |-> 32, frac |-> 0, digits |-> 1] }

=============================================================================
