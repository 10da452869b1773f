----------------------------- MODULE MCStrings -----------------------------
(* Blocks are told apart only by being equal or not.                       *)
EXTENDS Strings, TLC

Symmetry == Permutations(Block)
=============================================================================
