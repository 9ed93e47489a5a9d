-------------------------------- MODULE Heap --------------------------------
(***************************************************************************)
(* The kernel heap of ShompOS: the buddy allocator of memory/heap.c.       *)
(*                                                                         *)
(* An address is an offset from HEAP_LOWER_BOUND, in bytes.  A block is    *)
(* named by the address of its block_header, as in the code, and `header`  *)
(* maps the address of every header now in use to its fields.  The link    *)
(* fields of the headers are not kept: free_list[s] is the sequence of     *)
(* blocks met when the list of scale s is walked from its head, and a      *)
(* block outside every list is one whose links point to itself.            *)
(*                                                                         *)
(* Each call runs one loop iteration per step, so that the blocks an       *)
(* operation holds between two iterations are visible to the invariants.   *)
(*                                                                         *)
(* An operator whose comment begins with "Mutant" is not the code: it is   *)
(* the definition after it with a bug in it, which some property refutes.  *)
(***************************************************************************)
EXTENDS Integers, Sequences, SequencesExt

CONSTANTS
    MinScale,    \* MIN_BLOCK_SCALE
    MaxScale,    \* MAX_BLOCK_SCALE
    BlockSize,   \* BlockSize[s] is 1 << s
    HeaderSize,  \* sizeof(block_header)
    HeapLimit,   \* bound: callers grow the heap only below this address
    Requests,    \* the sizes callers ask for, invalid ones included
    Increments   \* the arguments callers give sbrk

Scales == MinScale..MaxScale

ASSUME ScaleAssumption == MinScale \in Nat /\ MaxScale \in Nat /\ MinScale <= MaxScale
ASSUME BlockSizeAssumption ==
    /\ BlockSize \in [Scales -> Nat \ {0}]
    /\ \A s \in Scales : s + 1 \in Scales => BlockSize[s + 1] = 2 * BlockSize[s]
ASSUME HeaderAssumption ==
    HeaderSize \in Nat \ {0} /\ HeaderSize < BlockSize[MinScale]
ASSUME InputAssumption ==
    /\ HeapLimit \in Nat /\ BlockSize[MaxScale] <= HeapLimit
    /\ Requests \subseteq Nat /\ Increments \subseteq Int

VARIABLES
    current_brk,  \* first byte after the heap
    header,       \* live block headers
    free_list,    \* free_list[s]: the free blocks of scale s, head first
    pc,           \* the loop under way, "ready" between calls
    caller,       \* the operation that loop works for
    block,        \* its local variable of that name
    request,      \* the size asked for, while allocate runs
    addr,         \* the argument of brk, while brk runs
    granted,      \* ghost: the blocks callers own, with the size they asked for
    ret           \* what the last call returned

vars == <<current_brk, header, free_list, pc, caller, block, request, addr,
          granted, ret>>

MaxSize == BlockSize[MaxScale]
Header == [is_free : BOOLEAN, scale : Scales]
blocks == DOMAIN header
SizeOf(b) == BlockSize[header[b].scale]
\* The pointer callers hold: the first byte after the header.
DataOf(b) == b + HeaderSize

\* `return x` from a public function: the locals die.
Return(x) ==
    /\ pc' = "ready" /\ caller' = "none"
    /\ block' = 0 /\ request' = 0 /\ addr' = 0
    /\ ret' = x

-----------------------------------------------------------------------------
(* The helpers.                                                            *)

\* Mutant: the header is not counted.
FitsWithoutHeader(size) == {s \in Scales : size <= BlockSize[s]}

Fits(size) == {s \in Scales : size + HeaderSize <= BlockSize[s]}

\* The smallest scale whose block holds the header and `size` bytes.
size_to_scale(size) ==
    CHOOSE s \in Fits(size) : \A t \in Fits(size) : s <= t

\* Mutant: the pointer is moved back over the header once more.
AddHeaderBefore(b, s) ==
    free_list' = [free_list EXCEPT ![s] = Cons(b - HeaderSize, @)]

\* Push at the head, where find_fit takes from.
AddToFreeList(b, s) == free_list' = [free_list EXCEPT ![s] = Cons(b, @)]

RemoveFromFreeList(b, s) ==
    \E i \in DOMAIN free_list[s] :
        /\ free_list[s][i] = b
        /\ free_list' = [free_list EXCEPT ![s] = RemoveAt(@, i)]

\* Mutant: the search starts from the smallest list, whatever the request.
BestScalesOfAll(size) ==
    {s \in Scales : /\ free_list[s] # <<>>
                    /\ \A t \in Scales : t < s => free_list[t] = <<>>}

\* The scale of the first non-empty list that find_fit meets going up.
BestScales(size) ==
    {s \in Scales : /\ size_to_scale(size) <= s
                    /\ free_list[s] # <<>>
                    /\ \A t \in Scales :
                         size_to_scale(size) <= t /\ t < s => free_list[t] = <<>>}

\* Mutant: the block taken is still marked free.
FindFitStillFree(size, b) ==
    \E s \in BestScales(size) :
        b = Head(free_list[s]) /\ RemoveFromFreeList(b, s) /\ UNCHANGED header

\* Take the block at the head of the best list out of it.
FindFit(size, b) ==
    \E s \in BestScales(size) :
        /\ b = Head(free_list[s])
        /\ RemoveFromFreeList(b, s)
        /\ header' = [header EXCEPT ![b].is_free = FALSE]

\* Mutant: the address is computed before block->scale--.
UpperHalfEarly(b, s) == b + BlockSize[s + 1]

\* Where the upper half of a block starts, s being the scale of the halves.
UpperHalf(b, s) == b + BlockSize[s]

\* Mutant: curr_block stays the block that was freed.
LowerHalfIsBlock(b, buddy) == b

\* Which of two buddies the merged block starts with.
LowerHalf(b, buddy) == IF buddy < b THEN buddy ELSE b

\* Mutant: the remainder of the address is not looked at.
BuddyAfter(b) == b + SizeOf(b)

\* The only other block that can merge with b: the half of the same parent.
\* The code computes it for a whole block too, which has no parent.
BuddyOf(b) ==
    IF b % (2 * SizeOf(b)) # 0 THEN b - SizeOf(b) ELSE b + SizeOf(b)

\* What a read of a header at address a yields: anything where there is none.
HeadersAt(a) == IF a \in blocks THEN {header[a]} ELSE Header

-----------------------------------------------------------------------------
(* allocate                                                                *)

ValidSize(size) == size # 0 /\ size <= MaxSize - HeaderSize

AllocateInvalid(size) ==
    /\ pc = "ready" /\ ~ValidSize(size)
    /\ Return([op |-> "allocate", size |-> size, val |-> 0])
    /\ UNCHANGED <<current_brk, header, free_list, granted>>

AllocateFound(size) ==
    /\ pc = "ready" /\ ValidSize(size)
    /\ \E b \in blocks : FindFit(size, b) /\ block' = b
    /\ pc' = "split" /\ caller' = "allocate" /\ request' = size
    /\ UNCHANGED <<current_brk, addr, granted, ret>>

\* Nothing fits: sbrk(1).
AllocateGrow(size) ==
    /\ pc = "ready" /\ ValidSize(size)
    /\ BestScales(size) = {}
    /\ current_brk + MaxSize <= HeapLimit
    /\ pc' = "grow" /\ caller' = "allocate" /\ request' = size
    /\ addr' = current_brk + MaxSize
    /\ UNCHANGED <<current_brk, header, free_list, block, granted, ret>>

\* One iteration of the split loop: the upper half becomes a free block.
Split ==
    /\ pc = "split" /\ header[block].scale > size_to_scale(request)
    /\ LET s == header[block].scale - 1
           new_block == UpperHalf(block, s)
       IN  /\ header' = [b \in blocks \cup {new_block} |->
                           IF b = new_block THEN [is_free |-> TRUE, scale |-> s]
                           ELSE IF b = block THEN [header[b] EXCEPT !.scale = s]
                           ELSE header[b]]
           /\ AddToFreeList(new_block, s)
    /\ UNCHANGED <<current_brk, pc, caller, block, request, addr, granted, ret>>

Grant(b) ==
    /\ granted' = [g \in DOMAIN granted \cup {b} |->
                     IF g = b THEN request ELSE granted[g]]
    /\ Return([op |-> "allocate", size |-> request, val |-> DataOf(b)])

AllocateReturn ==
    /\ pc = "split" /\ header[block].scale <= size_to_scale(request)
    /\ Grant(block)
    /\ UNCHANGED <<current_brk, header, free_list>>

\* After sbrk(1) the search is repeated, and what it finds is not split.
AllocateRetry ==
    /\ pc = "grow" /\ caller = "allocate" /\ addr <= current_brk
    /\ \E b \in blocks : FindFit(request, b) /\ Grant(b)
    /\ UNCHANGED current_brk

-----------------------------------------------------------------------------
(* brk and sbrk                                                            *)

\* One iteration of brk's growing loop.
Grow ==
    /\ pc = "grow" /\ addr > current_brk
    /\ header' = [b \in blocks \cup {current_brk} |->
                    IF b = current_brk THEN [is_free |-> TRUE, scale |-> MaxScale]
                    ELSE header[b]]
    /\ AddToFreeList(current_brk, MaxScale)
    /\ current_brk' = current_brk + MaxSize
    /\ UNCHANGED <<pc, caller, block, request, addr, granted, ret>>

LastBlock == current_brk - MaxSize

\* One iteration of brk's shrinking loop.
Shrink ==
    /\ pc = "shrink" /\ addr < current_brk
    /\ \E h \in HeadersAt(LastBlock) : h.scale = MaxScale /\ h.is_free
    /\ RemoveFromFreeList(LastBlock, MaxScale)
    /\ header' = [b \in blocks \ {LastBlock} |-> header[b]]
    /\ current_brk' = LastBlock
    /\ UNCHANGED <<pc, caller, block, request, addr, granted, ret>>

\* free ignores what sbrk(-1) returns.
BrkReturn(x) ==
    /\ IF caller = "free" THEN Return([op |-> "free", val |-> 0])
                          ELSE Return([op |-> "sbrk", val |-> x])
    /\ UNCHANGED <<current_brk, header, free_list, granted>>

GrowReturn == pc = "grow" /\ caller = "sbrk" /\ addr <= current_brk /\ BrkReturn(0)

ShrinkReturn == pc = "shrink" /\ addr >= current_brk /\ BrkReturn(0)

\* Mutant: the loop goes on instead of returning -1.
ShrinkRetry ==
    /\ pc = "shrink" /\ addr < current_brk
    /\ \E h \in HeadersAt(LastBlock) : ~(h.scale = MaxScale /\ h.is_free)
    /\ UNCHANGED vars

\* The last block is in use or split: what was released so far stays released.
ShrinkFail ==
    /\ pc = "shrink" /\ addr < current_brk
    /\ \E h \in HeadersAt(LastBlock) : ~(h.scale = MaxScale /\ h.is_free)
    /\ BrkReturn(-1)

\* A caller of sbrk stays between the base of the heap and the bound.
Sbrk(inc) ==
    /\ pc = "ready"
    /\ IF inc = 0
       THEN /\ Return([op |-> "sbrk", val |-> -1])
            /\ UNCHANGED <<current_brk, header, free_list, granted>>
       ELSE LET target == current_brk + inc * MaxSize
            IN  /\ target >= 0 /\ target <= HeapLimit
                /\ pc' = (IF target > current_brk THEN "grow" ELSE "shrink")
                /\ caller' = "sbrk" /\ addr' = target
                /\ UNCHANGED <<current_brk, header, free_list, block, request,
                               granted, ret>>

-----------------------------------------------------------------------------
(* free                                                                    *)

FreeNull ==
    /\ pc = "ready"
    /\ Return([op |-> "free", val |-> 1])
    /\ UNCHANGED <<current_brk, header, free_list, granted>>

\* A block that is already in a free list does not point to itself.
FreeListed(b) ==
    /\ pc = "ready"
    /\ \E s \in Scales : b \in ToSet(free_list[s])
    /\ Return([op |-> "free", val |-> 1])
    /\ UNCHANGED <<current_brk, header, free_list, granted>>

Free(b) ==
    /\ pc = "ready" /\ b \in DOMAIN granted
    /\ \A s \in Scales : b \notin ToSet(free_list[s])
    /\ granted' = [g \in DOMAIN granted \ {b} |-> granted[g]]
    /\ pc' = "coalesce" /\ caller' = "free" /\ block' = b
    /\ UNCHANGED <<current_brk, header, free_list, request, addr, ret>>

\* Mutant: merging stops one scale too early.
CanMergeBelow(h, s) == h.is_free /\ h.scale = s /\ s + 1 < MaxScale

\* The test of the merging loop: the fields of the buddy's header are read
\* first, the scale of the block is looked at last.
CanMerge(h, s) == h.is_free /\ h.scale = s /\ s < MaxScale

\* One iteration of the merging loop.
Coalesce ==
    /\ pc = "coalesce"
    /\ LET s == header[block].scale
           buddy == BuddyOf(block)
           curr == LowerHalf(block, buddy)
           gone == IF curr = block THEN buddy ELSE block
       IN  /\ \E h \in HeadersAt(buddy) : CanMerge(h, s)
           /\ RemoveFromFreeList(buddy, s)
           /\ header' = [b \in (blocks \cup {curr}) \ {gone} |->
                           IF b = curr THEN [is_free |-> FALSE, scale |-> s + 1]
                           ELSE header[b]]
           /\ block' = curr
    /\ UNCHANGED <<current_brk, pc, caller, request, addr, granted, ret>>

\* The merged block is listed; the last block of the heap is given back.
CoalesceReturn ==
    /\ pc = "coalesce"
    /\ \E h \in HeadersAt(BuddyOf(block)) : ~CanMerge(h, header[block].scale)
    /\ AddToFreeList(block, header[block].scale)
    /\ header' = [header EXCEPT ![block].is_free = TRUE]
    /\ IF header[block].scale = MaxScale /\ block = LastBlock
       THEN /\ pc' = "shrink" /\ block' = 0 /\ addr' = LastBlock
            /\ UNCHANGED <<caller, request, ret>>
       ELSE Return([op |-> "free", val |-> 0])
    /\ UNCHANGED <<current_brk, granted>>

-----------------------------------------------------------------------------
(* init_heap empties the lists, then calls sbrk(1).                        *)

Init ==
    /\ current_brk = 0
    /\ header = [b \in {} |-> {}]
    /\ free_list = [s \in Scales |-> <<>>]
    /\ pc = "grow" /\ caller = "sbrk" /\ addr = MaxSize
    /\ block = 0 /\ request = 0
    /\ granted = [b \in {} |-> 0]
    /\ ret = [op |-> "none", val |-> 0]

Call ==
    \/ \E size \in Requests :
         AllocateInvalid(size) \/ AllocateFound(size) \/ AllocateGrow(size)
    \/ \E inc \in Increments : Sbrk(inc)
    \/ FreeNull
    \/ \E b \in blocks : FreeListed(b) \/ Free(b)

Step ==
    \/ Split \/ AllocateReturn \/ AllocateRetry
    \/ Grow \/ Shrink \/ GrowReturn \/ ShrinkReturn \/ ShrinkFail
    \/ Coalesce \/ CoalesceReturn

Next == Call \/ Step

\* A call runs to its end: the heap code has no wait in it.
Spec == Init /\ [][Next]_vars /\ WF_vars(Step)

-----------------------------------------------------------------------------
(* Properties                                                              *)

\* Every variable has its type.
TypeOK ==
    /\ current_brk \in Nat
    /\ blocks \subseteq Nat /\ header \in [blocks -> Header]
    /\ free_list \in [Scales -> Seq(Nat)]
    /\ pc \in {"ready", "split", "grow", "shrink", "coalesce"}
    /\ caller \in {"none", "allocate", "free", "sbrk"}
    /\ block \in Nat /\ request \in Nat /\ addr \in Int
    /\ DOMAIN granted \subseteq Nat /\ granted \in [DOMAIN granted -> Nat]

\* No two live blocks share a byte and none crosses the brk, at any step of
\* any call: splitting, merging, growing and shrinking never hand one byte
\* to two blocks.
Disjoint ==
    /\ \A b \in blocks : b + SizeOf(b) <= current_brk
    /\ \A b, c \in blocks : b < c => b + SizeOf(b) <= c

\* Every byte below the brk is in a live block: a split or a merge loses none.
Tiled ==
    current_brk > 0 =>
        /\ 0 \in blocks
        /\ \A b \in blocks : \/ b + SizeOf(b) \in blocks
                             \/ b + SizeOf(b) = current_brk

\* Whatever block is being merged, the merging loop never reads a header out
\* of the middle of someone's data: the address it computes for the buddy is
\* that of a live header, or that of the brk when the block is a whole one at
\* the end of the heap.  There the loop does read past the heap, before the
\* test of the scale that makes what it read irrelevant.  The header brk
\* inspects before it shrinks is always a live one.
ReadsAreHeaders ==
    /\ pc = "coalesce" =>
         \/ BuddyOf(block) \in blocks
         \/ header[block].scale = MaxScale /\ BuddyOf(block) = current_brk
    /\ pc = "shrink" /\ addr < current_brk => LastBlock \in blocks

\* The block the running call has taken out of the lists.
Held == IF pc \in {"split", "coalesce"} THEN {block} ELSE {}

\* The blocks callers own, the block the running call holds and the listed
\* blocks are disjoint classes that cover every live block: is_free and scale
\* say where a block is listed, and no block is listed twice.
ListsExact ==
    /\ DOMAIN granted \cap Held = {}
    /\ DOMAIN granted \cup Held = {b \in blocks : ~header[b].is_free}
    /\ \A s \in Scales :
         /\ ToSet(free_list[s]) =
              {b \in blocks : header[b].is_free /\ header[b].scale = s}
         /\ IsInjective(free_list[s])

\* A granted block holds its header and all the bytes the caller asked for.
Capacity == \A b \in DOMAIN granted : HeaderSize + granted[b] <= SizeOf(b)

\* Between calls no two free blocks are buddies: free merged everything that
\* could merge, and when callers own nothing only whole blocks remain.
FullyMerged ==
    pc = "ready" =>
        /\ \A b, c \in blocks :
             ~(/\ header[b].is_free /\ header[c].is_free
               /\ header[b].scale = header[c].scale /\ header[b].scale < MaxScale
               /\ c = BuddyOf(b))
        /\ DOMAIN granted = {} => \A b \in blocks : header[b].scale = MaxScale

\* Every call returns: the split, merge, grow and shrink loops terminate.
Terminates == pc # "ready" ~> pc = "ready"

\* What callers may rely on (HeapContract): the memory they own, by the
\* pointers they hold.
Contract == INSTANCE HeapContract WITH
    regions <- [p \in {DataOf(b) : b \in DOMAIN granted} |-> granted[p - HeaderSize]],
    freeing <- pc \in {"coalesce", "shrink"} /\ caller = "free",
    MaxRequest <- MaxSize - HeaderSize,
    Pointers <- 1..HeapLimit

\* The allocator implements HeapContract: allocate fails only on a size no
\* block can hold, what it returns overlaps no memory in use, free returns 0
\* once for each owned block and 1 for anything else it recognises.
ImplementsContract == Contract!Spec
=============================================================================
