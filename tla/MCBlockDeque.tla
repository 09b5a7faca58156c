---------------------------- MODULE MCBlockDeque ----------------------------
(* Instances of BlockDeque for TLC *)
EXTENDS BlockDeque, TLC

CONSTANTS b1, b2, b3, b4

FourBlocks == {b1, b2, b3, b4}
Letters == {"x", "y"}

Symmetric == Permutations(Block)
=============================================================================
