------------------------------ MODULE FreeList ------------------------------
(***************************************************************************)
(* The free lists of memory/heap.c at the level of their pointers, one     *)
(* step per store, with allocate and free around them and the keyboard     *)
(* interrupt, whose commands allocate and free too, between any two steps. *)
(*                                                                         *)
(* A node is the head of a list, named by its scale, or a block.  Which    *)
(* block is the buddy of which, and which is the last of the heap, is      *)
(* module Heap's matter: here any block that passes the code's tests may   *)
(* be the one.                                                             *)
(*                                                                         *)
(* An operator whose comment begins with "Mutant" is not the code: it is   *)
(* the definition after it with a bug in it, which some property refutes.  *)
(***************************************************************************)
EXTENDS Integers, Sequences, FiniteSets, SequencesExt

CONSTANTS
    Blocks,      \* the addresses where a block_header may be
    MinScale, MaxScale,
    Interrupts   \* whether the keyboard interrupt may arrive during a call

ASSUME FreeListAssumption ==
    /\ MinScale \in Nat /\ MaxScale \in Nat /\ MinScale <= MaxScale
    /\ IsFiniteSet(Blocks) /\ Blocks # {} /\ Blocks \cap Nat = {} /\ "no block" \notin Blocks
    /\ Interrupts \in BOOLEAN

VARIABLES
    next, prev,       \* the links of every node
    is_free, scale,   \* the other fields of a block_header
    headers,          \* the blocks that have a header now
    grants,           \* ghost: how many callers hold each block
    pc, op,           \* by thread: the statement it is at, the call it makes
    held,             \* by thread: the local variable block of that call
    blk, list,        \* by thread: the arguments of the list operation
    request           \* by thread: request_scale

memory == <<next, prev, is_free, scale, headers, grants>>
locals == <<op, held, blk, list, request>>
vars == <<memory, pc, locals>>

Scales == MinScale..MaxScale
Nodes == Scales \cup Blocks
NoBlock == "no block"
\* The keyboard interrupt, and what it interrupts: kernel_main until the boot
\* is over, then processes, which call free when they exit.
Threads == {"process", "keyboard"}

is_end_of_list(n) == next[n] = n

-----------------------------------------------------------------------------
(* Control.  The keyboard handler runs to its end before what it has       *)
(* interrupted goes on.                                                    *)

At(t, point) ==
    /\ pc[t] = point
    /\ t = "keyboard" \/ pc["keyboard"] = "ready"

GoTo(t, point) == pc' = [pc EXCEPT ![t] = point]
Set(f, x, v) == [f EXCEPT ![x] = v]

\* A thread between calls makes one.  That the keyboard interrupt arrives when
\* nobody is in the heap is no other case than the process's own call.
MayCall(t) == At(t, "ready") /\ (t = "keyboard" => Interrupts)

\* `return` from a public function: the locals die.
Return(t) ==
    /\ GoTo(t, "ready")
    /\ op' = Set(op, t, "none")
    /\ held' = Set(held, t, NoBlock) /\ blk' = Set(blk, t, NoBlock)
    /\ list' = Set(list, t, MinScale) /\ request' = Set(request, t, MinScale)

\* A call of one of the two list operations, with its arguments.
CallRemove(t, b) == blk' = Set(blk, t, b) /\ GoTo(t, "unlink")

CallAdd(t, b, s) ==
    blk' = Set(blk, t, b) /\ list' = Set(list, t, s) /\ GoTo(t, "push")

-----------------------------------------------------------------------------
(* The stores of the two list operations; control goes on at `point`.      *)

StoreNext(t, n, m, point) ==
    /\ next' = Set(next, n, m) /\ GoTo(t, point)
    /\ UNCHANGED <<prev, is_free, scale, headers, grants, locals>>

StorePrev(t, n, m, point) ==
    /\ prev' = Set(prev, n, m) /\ GoTo(t, point)
    /\ UNCHANGED <<next, is_free, scale, headers, grants, locals>>

StoreFree(t, f, point) ==
    /\ is_free' = Set(is_free, blk[t], f) /\ GoTo(t, point)
    /\ UNCHANGED <<next, prev, scale, headers, grants, locals>>

\* __blkmngr_add_to_free_list(blk), list being the head for its scale.  The
\* new block points to what comes after it, or to itself at the end.
Push(t) ==
    /\ At(t, "push")
    /\ \/ is_end_of_list(list[t]) /\ StoreNext(t, blk[t], blk[t], "link")
       \/ ~is_end_of_list(list[t]) /\ StoreNext(t, blk[t], next[list[t]], "backlink")

Backlink(t) == At(t, "backlink") /\ StorePrev(t, next[list[t]], blk[t], "link")
Link(t) == At(t, "link") /\ StoreNext(t, list[t], blk[t], "prev")
PrevIsHead(t) == At(t, "prev") /\ StorePrev(t, blk[t], list[t], "mark")
MarkFree(t) == At(t, "mark") /\ StoreFree(t, TRUE, "added")

AddToFreeList(t) ==
    Push(t) \/ Backlink(t) \/ Link(t) \/ PrevIsHead(t) \/ MarkFree(t)

\* Mutant: the last block of a list is taken for one in the middle.
UnlinkAsInMiddle(t) ==
    At(t, "unlink") /\ StoreNext(t, prev[blk[t]], next[blk[t]], "relink")

\* __blkmngr_remove_from_free_list(blk).  The block before it becomes the
\* last, or points past it.
Unlink(t) ==
    LET before == prev[blk[t]]
    IN  /\ At(t, "unlink")
        /\ \/ is_end_of_list(blk[t]) /\ StoreNext(t, before, before, "self prev")
           \/ ~is_end_of_list(blk[t]) /\ StoreNext(t, before, next[blk[t]], "relink")

Relink(t) == At(t, "relink") /\ StorePrev(t, next[blk[t]], prev[blk[t]], "self prev")

\* Mutant: the prev link of the removed block is left as it was.
PrevLeft(t) == At(t, "self prev") /\ StorePrev(t, blk[t], prev[blk[t]], "self next")

SelfPrev(t) == At(t, "self prev") /\ StorePrev(t, blk[t], blk[t], "self next")
SelfNext(t) == At(t, "self next") /\ StoreNext(t, blk[t], blk[t], "unmark")
Unmark(t) == At(t, "unmark") /\ StoreFree(t, FALSE, "removed")

RemoveFromFreeList(t) ==
    Unlink(t) \/ Relink(t) \/ SelfPrev(t) \/ SelfNext(t) \/ Unmark(t)

-----------------------------------------------------------------------------
(* allocate.                                                               *)

\* A call for a block of scale s.
Allocate(t, s) ==
    /\ MayCall(t)
    /\ op' = Set(op, t, "allocate") /\ request' = Set(request, t, s)
    /\ list' = Set(list, t, s)
    /\ GoTo(t, "search")
    /\ UNCHANGED <<memory, held, blk>>

\* find_fit: the first list with a block in it ...
SearchUp(t) ==
    /\ At(t, "search") /\ is_end_of_list(list[t]) /\ list[t] < MaxScale
    /\ list' = Set(list, t, list[t] + 1)
    /\ UNCHANGED <<memory, pc, op, held, blk, request>>

\* ... gives the block at its head, read here, removed in the steps to come.
Found(t) ==
    LET b == next[list[t]]
    IN  /\ At(t, "search") /\ ~is_end_of_list(list[t])
        /\ held' = Set(held, t, b)
        /\ CallRemove(t, b)
        /\ UNCHANGED <<memory, op, list, request>>

\* What was in memory where a header is put now is arbitrary.
NewHeader(b) ==
    /\ headers' = headers \cup {b}
    /\ \E n \in Nodes, f \in BOOLEAN :
         /\ next' = Set(next, b, n) /\ prev' = Set(prev, b, n)
         /\ is_free' = Set(is_free, b, f)

\* Nothing fits: brk adds a block to the list of the largest scale, after
\* which find_fit is called again.
Grow(t) ==
    /\ At(t, "search") /\ op[t] = "allocate"
    /\ is_end_of_list(list[t]) /\ list[t] = MaxScale
    /\ op' = Set(op, t, "retry")
    /\ \E b \in Blocks \ headers :
         /\ NewHeader(b) /\ scale' = Set(scale, b, MaxScale)
         /\ CallAdd(t, b, MaxScale)
    /\ UNCHANGED <<grants, held, request>>

SearchAgain(t) ==
    /\ At(t, "added") /\ op[t] = "retry"
    /\ list' = Set(list, t, request[t])
    /\ GoTo(t, "search")
    /\ UNCHANGED <<memory, op, held, blk, request>>

\* There is no block to be had.  The code has no such case on the first
\* search: it is the bound on the memory that brk finds.  On the second it
\* would return the address after NULL; only an interrupt can lead there.
GiveUp(t) ==
    /\ At(t, "search") /\ is_end_of_list(list[t]) /\ list[t] = MaxScale
    /\ op[t] = "retry" \/ headers = Blocks
    /\ Return(t)
    /\ UNCHANGED memory

\* __blkmngr_split_block(block): the upper half, which has just got a header,
\* goes to the list of its scale.
Split(t) ==
    LET s == scale[held[t]] - 1
    IN  /\ At(t, "removed") /\ op[t] = "allocate" /\ scale[held[t]] > request[t]
        /\ \E b \in Blocks \ headers :
             /\ NewHeader(b) /\ scale' = [scale EXCEPT ![b] = s, ![held[t]] = s]
             /\ CallAdd(t, b, s)
        /\ UNCHANGED <<grants, op, held, request>>

SplitDone(t) ==
    /\ At(t, "added") /\ op[t] = "allocate"
    /\ GoTo(t, "removed")
    /\ UNCHANGED <<memory, locals>>

\* allocate returns its block: after a retry unsplit.
Grant(t) ==
    /\ At(t, "removed")
    /\ \/ op[t] = "retry"
       \/ op[t] = "allocate" /\ (scale[held[t]] <= request[t] \/ headers = Blocks)
    /\ grants' = Set(grants, held[t], grants[held[t]] + 1)
    /\ Return(t)
    /\ UNCHANGED <<next, prev, is_free, scale, headers>>

-----------------------------------------------------------------------------
(* free.                                                                   *)

\* The test at the top of free: the links of b point to b.
LooksGranted(b) == next[b] = b /\ prev[b] = b

\* A caller frees a block that it holds, or one that is free already.
Free(t, b) ==
    /\ MayCall(t)
    /\ b \in headers /\ (grants[b] > 0 \/ is_free[b])
    /\ LooksGranted(b)
    /\ grants' = Set(grants, b, grants[b] - 1)
    /\ op' = Set(op, t, "free") /\ held' = Set(held, t, b)
    /\ GoTo(t, "merge")
    /\ UNCHANGED <<next, prev, is_free, scale, headers, blk, list, request>>

\* One iteration of __blkmngr_coalesce_block: a buddy of the same scale, and
\* free, leaves its list ...
FreeBuddy(t, buddy) ==
    /\ At(t, "merge")
    /\ buddy \in headers \ {held[t]} /\ is_free[buddy]
    /\ scale[buddy] = scale[held[t]] /\ scale[held[t]] < MaxScale
    /\ CallRemove(t, buddy)
    /\ UNCHANGED <<memory, op, held, list, request>>

\* ... and the lower of the two is the header of both.
Merge(t) ==
    /\ At(t, "removed") /\ op[t] = "free"
    /\ \E lower \in {held[t], blk[t]} :
         /\ held' = Set(held, t, lower)
         /\ headers' = headers \ ({held[t], blk[t]} \ {lower})
         /\ scale' = Set(scale, lower, scale[lower] + 1)
    /\ GoTo(t, "merge")
    /\ UNCHANGED <<next, prev, is_free, grants, op, blk, list, request>>

\* No buddy is free.
AddFreed(t) ==
    /\ At(t, "merge")
    /\ CallAdd(t, held[t], scale[held[t]])
    /\ UNCHANGED <<memory, op, held, request>>

\* sbrk(-1): a block of the largest scale at the end of the heap leaves it.
Shrink(t) ==
    /\ At(t, "added") /\ op[t] = "free" /\ scale[held[t]] = MaxScale
    /\ is_free[held[t]]
    /\ op' = Set(op, t, "shrink")
    /\ CallRemove(t, held[t])
    /\ UNCHANGED <<memory, held, list, request>>

Freed(t) ==
    \/ /\ At(t, "added") /\ op[t] = "free"
       /\ Return(t) /\ UNCHANGED memory
    \/ /\ At(t, "removed") /\ op[t] = "shrink"
       /\ headers' = headers \ {held[t]}
       /\ Return(t) /\ UNCHANGED <<next, prev, is_free, scale, grants>>

-----------------------------------------------------------------------------
\* After init_heap: one block of the largest scale, in its list.
Init ==
    \E b \in Blocks :
        /\ next = [n \in Nodes |-> IF n = MaxScale THEN b ELSE n]
        /\ prev = [n \in Nodes |-> IF n = b THEN MaxScale ELSE n]
        /\ is_free = [x \in Blocks |-> x = b]
        /\ scale = [x \in Blocks |-> MaxScale]
        /\ headers = {b} /\ grants = [x \in Blocks |-> 0]
        /\ pc = [t \in Threads |-> "ready"] /\ op = [t \in Threads |-> "none"]
        /\ held = [t \in Threads |-> NoBlock] /\ blk = [t \in Threads |-> NoBlock]
        /\ list = [t \in Threads |-> MinScale]
        /\ request = [t \in Threads |-> MinScale]

Next ==
    \E t \in Threads :
        \/ AddToFreeList(t) \/ RemoveFromFreeList(t)
        \/ \E s \in Scales : Allocate(t, s)
        \/ SearchUp(t) \/ Found(t) \/ Grow(t) \/ SearchAgain(t) \/ GiveUp(t)
        \/ Split(t) \/ SplitDone(t) \/ Grant(t)
        \/ \E b \in Blocks : Free(t, b) \/ FreeBuddy(t, b)
        \/ Merge(t) \/ AddFreed(t) \/ Shrink(t) \/ Freed(t)

Spec == Init /\ [][Next]_vars

-----------------------------------------------------------------------------
(* Properties                                                              *)

\* The blocks met from the head of the list of scale s, at most n of them.
Walk(s) ==
    LET first[n \in 0..Cardinality(Blocks)] ==
          IF n = 0 THEN <<>>
          ELSE LET met == first[n - 1]
                   last == IF met = <<>> THEN s ELSE met[Len(met)]
               IN  IF is_end_of_list(last) THEN met ELSE Append(met, next[last])
    IN  first[Cardinality(Blocks)]

lists == [s \in Scales |-> Walk(s)]

Listed == UNION {ToSet(Walk(s)) : s \in Scales}

\* heap.c:46 and heap.c:81: whatever the order of the calls, each add and each
\* remove changes the lists at one store, the one it is there for; between its
\* other stores a walk from any head meets what it met before.
Contract == INSTANCE FreeListContract
ImplementsLists == Contract!Spec

\* Between calls every list can be walked both ways and holds the blocks of
\* its scale; the blocks with a header are free ones, which are in a list and
\* which free refuses, and granted ones, which free accepts, held by one
\* caller each.
WellLinked ==
    (\A t \in Threads : pc[t] = "ready") =>
        /\ \A n \in Scales \cup Listed : ~is_end_of_list(n) => prev[next[n]] = n
        /\ \A s \in Scales : \A b \in ToSet(Walk(s)) : scale[b] = s
        /\ Listed \subseteq headers
        /\ \A b \in headers :
             /\ is_free[b] <=> b \in Listed
             /\ LooksGranted(b) <=> b \notin Listed
             /\ grants[b] = IF b \in Listed THEN 0 ELSE 1

\* heap.c:7: the lists are those of the free memory blocks.  What find_fit
\* takes out of one is held by nobody.
GrantedOnce == \A b \in Blocks : grants[b] <= 1
=============================================================================
