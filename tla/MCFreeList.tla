----------------------------- MODULE MCFreeList -----------------------------
(* Three scales and four blocks: two splits in one call, two merges in one  *)
(* call, and lists with a block in the middle.                              *)
EXTENDS FreeList, TLC

BlockSymmetry == Permutations(Blocks)
=============================================================================
