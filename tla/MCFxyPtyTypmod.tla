--------------------------- MODULE MCFxyPtyTypmod ---------------------------
(***************************************************************************)
(* A small instance of FxyPtyTypmod: halves of 4 bits, at most 6 digits,   *)
(* lists of one to three numbers with both ends of every range.            *)
(***************************************************************************)
EXTENDS FxyPtyTypmod

MCRequests ==
  { <<d, f>> : d \in -2..9, f \in -16..15 } \union { <<d>> : d \in 0..3 }
    \union { <<3, 1, f>> : f \in 0..2 }

=============================================================================
