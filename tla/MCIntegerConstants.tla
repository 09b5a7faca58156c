------------------------- MODULE MCIntegerConstants -------------------------
(* Widths of 2, 3, 4, 5 and 6 bits in place of 8, 16, 32, 64 and 128.      *)
EXTENDS IntegerConstants, TLC

MCBits == (1 :> 1) @@ (8 :> 2) @@ (16 :> 3) @@ (32 :> 4) @@ (64 :> 5) @@ (128 :> 6)
MCLiterals == {0, 1, 2, 3, 7, 8, 15, 16, 31}
=============================================================================
