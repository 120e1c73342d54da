---------------------------- MODULE MCFxyPtyAgg ----------------------------
(***************************************************************************)
(* Small instances of FxyPtyAgg: native values of two two-bit words, and   *)
(* tables of four rows.                                                    *)
(***************************************************************************)
EXTENDS FxyPtyAgg

MCPow == [i \in 0..4 |-> 2^i]

\* The two ends of the range, and values of both signs whose words compare
\* another way round than the values do.
MCValues == {-8, -1, 2, 3, 7}

=============================================================================
