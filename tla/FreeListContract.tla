-------------------------- MODULE FreeListContract --------------------------
(***************************************************************************)
(* What the rest of memory/heap.c takes the free lists to be: for each     *)
(* scale a sequence of blocks, to which a block is added at the head and   *)
(* from which a block is removed wherever it is, each in one step.  Module *)
(* Heap is written on these two operations.                                *)
(***************************************************************************)
EXTENDS Integers, Sequences, SequencesExt

CONSTANTS Blocks, MinScale, MaxScale

VARIABLE lists   \* lists[s]: the free blocks of scale s, head first

Scales == MinScale..MaxScale

IsListed(b) == \E s \in Scales : b \in ToSet(lists[s])

AddToFreeList(b, s) ==
    /\ ~IsListed(b)
    /\ lists' = [lists EXCEPT ![s] = Cons(b, @)]

RemoveFromFreeList(b, s) ==
    \E i \in DOMAIN lists[s] :
        /\ lists[s][i] = b
        /\ lists' = [lists EXCEPT ![s] = RemoveAt(@, i)]

Init ==
    \E b \in Blocks :
        lists = [s \in Scales |-> IF s = MaxScale THEN <<b>> ELSE <<>>]

Next == \E b \in Blocks, s \in Scales :
    AddToFreeList(b, s) \/ RemoveFromFreeList(b, s)

Spec == Init /\ [][Next]_lists
=============================================================================
