---------------------------- MODULE MCFxyPtyOut ----------------------------
(***************************************************************************)
(* Small instances of FxyPtyOut.  Digits to the base 3, an int64_t of 128  *)
(* values, a low word of 3 digits and chunks of 2 keep the proportions of  *)
(* the code: LoDigits is no multiple of ChunkDigits, a low word is less    *)
(* than half the range of an int64_t and the high word is short of two     *)
(* more digits than the low one.                                           *)
(*                                                                         *)
(* The scales are all that a cast gives, 0 to 8, and beyond them the first *)
(* one, two about the size of the buffer, one beyond the largest int, for  *)
(* which the counter becomes negative, and the largest uint32_t.           *)
(***************************************************************************)
EXTENDS FxyPtyOut

MCPow == [i \in 0..12 |-> 3^i]

MCAllInputs == -8192 .. 8191

MCScales == 0..9 \union {11, 12, 17, 31}

=============================================================================
