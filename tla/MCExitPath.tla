----------------------------- MODULE MCExitPath -----------------------------
(* Three slots, five PIDs and four stacks: enough for a slot and a stack to *)
(* be used again, by a process created while the former owner exits.        *)
EXTENDS ExitPath, TLC

StackSymmetry == Permutations(Stacks)
=============================================================================
