--------------------------- MODULE MCFxyPtySession ---------------------------
(***************************************************************************)
(* Small instances of FxyPtySession: binary digits, an int64_t of 4 values *)
(* and so 16 native values, at most 3 digits.                              *)
(***************************************************************************)
EXTENDS FxyPtySession, TLC

MCPow == [i \in 0..4 |-> 2^i]

\* No word, two words, both signs, a number that rounds at scale 1, and one
\* that has no room.
MCLiterals ==
  { <<>>,
    <<[num |-> 5, frac |-> 1], [num |-> -3, frac |-> 0]>>,
    <<[num |-> -3, frac |-> 2]>>, <<[num |-> -3, frac |-> 0]>>,
    <<[num |-> 9, frac |-> 0]>> }

MCOneLiteral == { <<[num |-> 5, frac |-> 1]>> }

\* The properties are of states and of steps, and name no cell and no place.
MCSymmetry == Permutations(Cells) \union Permutations(Regs)

=============================================================================
