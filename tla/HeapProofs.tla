------------------------------ MODULE HeapProofs ------------------------------
(* The safety of the buddy allocator, for every number of scales, every size *)
(* of header and any sequence of calls.                                      *)
EXTENDS HeapLemmas

\* Every byte of the heap is in a block.
Cover == \A a \in 0..(current_brk - 1) :
           \E b \in blocks : b <= a /\ a < b + SizeOf(b)

\* A block starts at a multiple of its size, so that the remainder the merge
\* computes finds its buddy; the heap is a number of whole blocks.
Aligned ==
    /\ \A b \in blocks : Multiple(b, SizeOf(b))
    /\ Multiple(current_brk, MaxSize)

Layout == Disjoint /\ Cover /\ Aligned

\* What the running call relies on.
CallInv ==
    /\ pc = "split" => /\ ValidSize(request)
                       /\ size_to_scale(request) <= header[block].scale
    /\ pc = "grow" /\ caller = "allocate" => ValidSize(request)
    /\ pc \in {"grow", "shrink"} => addr \in Nat /\ Multiple(addr, MaxSize)

IInv == TypeOK /\ Layout /\ ListsExact /\ Capacity /\ CallInv

-----------------------------------------------------------------------------
(* Facts of one state                                                      *)

LEMMA Basics ==
  ASSUME IInv
  PROVE  /\ MaxScale \in Scales /\ MaxSize = BlockSize[MaxScale] /\ MaxSize \in Nat \ {0}
         /\ \A b \in blocks : /\ b \in Nat /\ header[b].scale \in Scales
                              /\ header[b].is_free \in BOOLEAN
                              /\ header[b] = [is_free |-> header[b].is_free,
                                              scale |-> header[b].scale]
                              /\ SizeOf(b) = BlockSize[header[b].scale]
                              /\ SizeOf(b) \in Nat \ {0}
         /\ \A s \in Scales : ToSet(free_list[s]) \subseteq blocks
         /\ Held \subseteq {b \in blocks : ~header[b].is_free}
<1>1. MaxScale \in Scales /\ MaxSize = BlockSize[MaxScale] /\ MaxSize \in Nat \ {0}
  BY ScaleAssumption, SizeType DEF Scales, MaxSize
<1>2. ASSUME NEW b \in blocks
      PROVE  /\ b \in Nat /\ header[b].scale \in Scales
             /\ header[b].is_free \in BOOLEAN
             /\ header[b] = [is_free |-> header[b].is_free, scale |-> header[b].scale]
             /\ SizeOf(b) = BlockSize[header[b].scale]
             /\ SizeOf(b) \in Nat \ {0}
  <2>1. b \in Nat /\ header[b] \in Header
    BY DEF IInv, TypeOK
  <2>2. header[b].scale \in Scales /\ header[b].is_free \in BOOLEAN
        /\ header[b] = [is_free |-> header[b].is_free, scale |-> header[b].scale]
    BY <2>1 DEF Header
  <2> QED
    BY <2>1, <2>2, SizeType DEF SizeOf
<1>3. \A s \in Scales : ToSet(free_list[s]) \subseteq blocks
  BY DEF IInv, ListsExact
<1>4. Held \subseteq {b \in blocks : ~header[b].is_free}
  BY DEF IInv, ListsExact
<1> QED
  BY <1>1, <1>2, <1>3, <1>4

\* Blocks that keep their place and size keep the layout.
LEMMA SameLayout ==
  ASSUME IInv, UNCHANGED current_brk, blocks' = blocks,
         \A b \in blocks : header'[b].scale = header[b].scale
  PROVE  Layout'
<1>1. \A b \in blocks : SizeOf(b)' = SizeOf(b)
  BY DEF SizeOf
<1>2. Disjoint'
  BY <1>1 DEF IInv, Layout, Disjoint
<1>3. Cover'
  BY <1>1 DEF IInv, Layout, Cover
<1>4. Aligned'
  BY <1>1 DEF IInv, Layout, Aligned, MaxSize
<1> QED
  BY <1>2, <1>3, <1>4 DEF Layout

\* What find_fit does to the header and the lists.
LEMMA FindFitFacts ==
  ASSUME IInv, NEW size \in Nat, ValidSize(size), NEW b \in blocks, FindFit(size, b)
  PROVE  /\ header[b].is_free /\ size_to_scale(size) <= header[b].scale
         /\ header' \in [blocks -> Header] /\ blocks' = blocks
         /\ header'[b] = [is_free |-> FALSE, scale |-> header[b].scale]
         /\ \A c \in blocks \ {b} : header'[c] = header[c]
         /\ free_list' \in [Scales -> Seq(Nat)]
         /\ \A s \in Scales :
              /\ IsInjective(free_list'[s])
              /\ ToSet(free_list'[s]) =
                   {c \in blocks' : header'[c].is_free /\ header'[c].scale = s}
<1>1. PICK s \in Scales : /\ size_to_scale(size) <= s
                          /\ RemoveFromFreeList(b, s)
                          /\ header' = [header EXCEPT ![b].is_free = FALSE]
  BY DEF FindFit, BestScales
<1>2. /\ b \in ToSet(free_list[s])
      /\ free_list' \in [Scales -> Seq(Nat)]
      /\ \A t \in Scales :
           /\ IsInjective(free_list'[t])
           /\ ToSet(free_list'[t]) = IF t = s THEN ToSet(free_list[t]) \ {b}
                                     ELSE ToSet(free_list[t])
  BY <1>1, RemoveFacts DEF IInv, TypeOK, ListsExact
<1>3. header[b].is_free /\ header[b].scale = s
  BY <1>2 DEF IInv, ListsExact
<1>4. /\ header' \in [blocks -> Header] /\ blocks' = blocks
      /\ header'[b] = [is_free |-> FALSE, scale |-> header[b].scale]
      /\ \A c \in blocks \ {b} : header'[c] = header[c]
  BY <1>1, Basics DEF IInv, TypeOK, Header, blocks
<1>5. \A t \in Scales :
        ToSet(free_list[t]) = {c \in blocks : header[c].is_free /\ header[c].scale = t}
  BY DEF IInv, ListsExact
<1>6. ASSUME NEW t \in Scales
      PROVE  ToSet(free_list'[t]) =
               {c \in blocks' : header'[c].is_free /\ header'[c].scale = t}
  <2>1. header[b] = [is_free |-> header[b].is_free, scale |-> header[b].scale]
    BY Basics
  <2>2. ASSUME NEW c \in blocks
        PROVE  header'[c].is_free /\ header'[c].scale = t
                 <=> c # b /\ header[c].is_free /\ header[c].scale = t
    <3>1. CASE c = b
      BY <1>4, <3>1
    <3>2. CASE c # b
      BY <1>4, <3>2
    <3> QED
      BY <3>1, <3>2
  <2>3. ASSUME NEW c
        PROVE  c \in ToSet(free_list'[t])
                 <=> c \in blocks /\ c # b /\ header[c].is_free /\ header[c].scale = t
    <3>1. CASE t = s
      BY <1>2, <1>5, <3>1
    <3>2. CASE t # s
      BY <1>2, <1>3, <1>5, <3>2
    <3> QED
      BY <3>1, <3>2
  <2> QED
    BY <2>2, <2>3, <1>4
<1> QED
  BY <1>1, <1>2, <1>3, <1>4, <1>6

-----------------------------------------------------------------------------
(* Steps that leave the blocks and the lists alone                         *)

LEMMA QuietStep ==
  ASSUME IInv, UNCHANGED <<current_brk, header, free_list, granted>>,
         Held = {}, Held' = {}, pc' # "split", pc' # "coalesce",
         pc' \in {"ready", "grow", "shrink"},
         caller' \in {"none", "allocate", "free", "sbrk"},
         block' \in Nat, request' \in Nat, addr' \in Int, CallInv'
  PROVE  IInv'
<1>1. TypeOK'
  BY DEF IInv, TypeOK, blocks
<1>2. Layout'
  BY SameLayout DEF blocks
<1>3. ListsExact'
  BY DEF IInv, ListsExact, blocks
<1>4. Capacity'
  BY DEF IInv, Capacity, SizeOf
<1> QED
  BY <1>1, <1>2, <1>3, <1>4 DEF IInv

\* A return that leaves the blocks and the lists alone.
LEMMA QuietReturn ==
  ASSUME IInv, pc \in {"ready", "grow", "shrink"}, NEW x, Return(x),
         UNCHANGED <<current_brk, header, free_list, granted>>
  PROVE  IInv'
<1>1. /\ Held = {} /\ Held' = {} /\ pc' = "ready" /\ caller' = "none"
      /\ block' = 0 /\ request' = 0 /\ addr' = 0
  BY DEF Return, Held
<1>2. CallInv'
  BY <1>1 DEF CallInv
<1> QED
  BY <1>1, <1>2, QuietStep

LEMMA SbrkStep ==
  ASSUME IInv, NEW inc \in Increments, Sbrk(inc)
  PROVE  IInv'
<1>1. CASE inc = 0
  BY <1>1, QuietReturn DEF Sbrk
<1>2. CASE inc # 0
  <2> DEFINE target == current_brk + inc * MaxSize
  <2>1. /\ target >= 0 /\ pc' = (IF target > current_brk THEN "grow" ELSE "shrink")
        /\ pc = "ready" /\ caller' = "sbrk" /\ addr' = target
        /\ UNCHANGED <<current_brk, header, free_list, block, request, granted>>
    BY <1>2 DEF Sbrk
  <2>2. inc \in Int /\ current_brk \in Int /\ MaxSize \in Int /\ target \in Int
    BY InputAssumption, Basics DEF IInv, TypeOK
  <2>3. Multiple(inc * MaxSize, MaxSize) /\ inc * MaxSize \in Int
    BY <2>2 DEF Multiple
  <2>4. Multiple(target, MaxSize)
    BY <2>2, <2>3, MultipleSum DEF IInv, Layout, Aligned
  <2>5. CallInv'
    BY <2>1, <2>2, <2>4 DEF CallInv, MaxSize
  <2>6. Held = {} /\ Held' = {}
    BY <2>1 DEF Held
  <2> HIDE DEF target
  <2> QED
    BY <2>1, <2>2, <2>5, <2>6, QuietStep DEF IInv, TypeOK
<1> QED
  BY <1>1, <1>2

LEMMA AllocateGrowStep ==
  ASSUME IInv, NEW size \in Requests, AllocateGrow(size)
  PROVE  IInv'
<1>1. /\ pc = "ready" /\ ValidSize(size)
      /\ pc' = "grow" /\ caller' = "allocate" /\ request' = size
      /\ addr' = current_brk + MaxSize
      /\ UNCHANGED <<current_brk, header, free_list, block, granted>>
  BY DEF AllocateGrow
<1>2. size \in Nat /\ current_brk \in Nat /\ MaxSize \in Nat
  BY InputAssumption, Basics DEF IInv, TypeOK
<1>3. Multiple(current_brk + MaxSize, MaxSize)
  BY <1>2, MultipleSum, MultipleSelf DEF IInv, Layout, Aligned
<1>4. CallInv'
  BY <1>1, <1>2, <1>3 DEF CallInv, ValidSize, MaxSize
<1>5. Held = {} /\ Held' = {}
  BY <1>1 DEF Held
<1> QED
  BY <1>1, <1>2, <1>4, <1>5, QuietStep DEF IInv, TypeOK

-----------------------------------------------------------------------------
(* allocate                                                                *)

LEMMA AllocateFoundStep ==
  ASSUME IInv, NEW size \in Requests, AllocateFound(size)
  PROVE  IInv'
<1>1. PICK b \in blocks : FindFit(size, b) /\ block' = b
  BY DEF AllocateFound
<1>2. /\ pc = "ready" /\ ValidSize(size) /\ pc' = "split" /\ caller' = "allocate"
      /\ request' = size /\ UNCHANGED <<current_brk, addr, granted>> /\ size \in Nat
  BY InputAssumption DEF AllocateFound
<1>3. /\ header[b].is_free /\ size_to_scale(size) <= header[b].scale
      /\ header' \in [blocks -> Header] /\ blocks' = blocks
      /\ header'[b] = [is_free |-> FALSE, scale |-> header[b].scale]
      /\ \A c \in blocks \ {b} : header'[c] = header[c]
      /\ free_list' \in [Scales -> Seq(Nat)]
      /\ \A s \in Scales :
           /\ IsInjective(free_list'[s])
           /\ ToSet(free_list'[s]) =
                {c \in blocks' : header'[c].is_free /\ header'[c].scale = s}
  BY <1>1, <1>2, FindFitFacts
<1>4. TypeOK'
  BY <1>1, <1>2, <1>3, Basics DEF IInv, TypeOK
<1>5. Layout'
  BY <1>2, <1>3, SameLayout
<1>6. DOMAIN granted = {c \in blocks : ~header[c].is_free}
  BY <1>2 DEF IInv, ListsExact, Held
<1>7. ListsExact'
  <2>1. Held' = {b}
    BY <1>1, <1>2 DEF Held
  <2>2. b \notin DOMAIN granted
    BY <1>3, <1>6
  <2>3. DOMAIN granted \cup {b} = {c \in blocks' : ~header'[c].is_free}
    BY <1>3, <1>6
  <2> QED
    BY <2>1, <2>2, <2>3, <1>2, <1>3 DEF ListsExact
<1>8. Capacity'
  BY <1>2, <1>3, <1>6 DEF IInv, Capacity, SizeOf
<1>9. CallInv'
  BY <1>1, <1>2, <1>3 DEF CallInv, ValidSize, size_to_scale, Fits, MaxSize
<1> QED
  BY <1>4, <1>5, <1>7, <1>8, <1>9 DEF IInv

LEMMA AllocateReturnStep ==
  ASSUME IInv, AllocateReturn
  PROVE  IInv'
<1>1. /\ pc = "split" /\ pc' = "ready" /\ caller' = "none"
      /\ block' = 0 /\ request' = 0 /\ addr' = 0
      /\ granted' = [g \in DOMAIN granted \cup {block} |->
                       IF g = block THEN request ELSE granted[g]]
      /\ UNCHANGED <<current_brk, header, free_list>>
  BY DEF AllocateReturn, Grant, Return
<1>2. Held = {block} /\ Held' = {}
  BY <1>1 DEF Held
<1>3. block \in blocks
  BY <1>2, Basics
<1>4. DOMAIN granted' = DOMAIN granted \cup {block}
  BY <1>1
<1>5. TypeOK'
  <2>1. DOMAIN granted' \subseteq Nat /\ granted' \in [DOMAIN granted' -> Nat]
    BY <1>1, <1>3 DEF IInv, TypeOK
  <2> QED
    BY <2>1, <1>1 DEF IInv, TypeOK, blocks
<1>6. Layout'
  BY <1>1, SameLayout DEF blocks
<1>7. ListsExact'
  BY <1>1, <1>2, <1>4 DEF IInv, ListsExact, blocks
<1>8. Capacity'
  <2>1. HeaderSize + request <= SizeOf(block)
    BY <1>1, <1>3, LargerFits, Basics DEF IInv, TypeOK, CallInv
  <2> QED
    BY <2>1, <1>1 DEF IInv, Capacity, SizeOf
<1>9. CallInv'
  BY <1>1 DEF CallInv
<1> QED
  BY <1>5, <1>6, <1>7, <1>8, <1>9 DEF IInv

LEMMA AllocateRetryStep ==
  ASSUME IInv, AllocateRetry
  PROVE  IInv'
<1>1. PICK b \in blocks : FindFit(request, b) /\ Grant(b)
  BY DEF AllocateRetry
<1>2. /\ pc = "grow" /\ ValidSize(request) /\ request \in Nat
      /\ pc' = "ready" /\ caller' = "none" /\ block' = 0 /\ request' = 0 /\ addr' = 0
      /\ granted' = [g \in DOMAIN granted \cup {b} |->
                       IF g = b THEN request ELSE granted[g]]
      /\ UNCHANGED current_brk
  BY <1>1 DEF AllocateRetry, Grant, Return, IInv, TypeOK, CallInv
<1>3. /\ header[b].is_free /\ size_to_scale(request) <= header[b].scale
      /\ header' \in [blocks -> Header] /\ blocks' = blocks
      /\ header'[b] = [is_free |-> FALSE, scale |-> header[b].scale]
      /\ \A c \in blocks \ {b} : header'[c] = header[c]
      /\ free_list' \in [Scales -> Seq(Nat)]
      /\ \A s \in Scales :
           /\ IsInjective(free_list'[s])
           /\ ToSet(free_list'[s]) =
                {c \in blocks' : header'[c].is_free /\ header'[c].scale = s}
  BY <1>1, <1>2, FindFitFacts
<1>4. DOMAIN granted' = DOMAIN granted \cup {b} /\ b \in Nat
  BY <1>2, Basics
<1>5. TypeOK'
  <2>1. DOMAIN granted' \subseteq Nat /\ granted' \in [DOMAIN granted' -> Nat]
    BY <1>2, <1>4 DEF IInv, TypeOK
  <2> QED
    BY <2>1, <1>2, <1>3 DEF IInv, TypeOK
<1>6. Layout'
  BY <1>2, <1>3, SameLayout
<1>7. Held = {} /\ Held' = {} /\ DOMAIN granted = {c \in blocks : ~header[c].is_free}
  BY <1>2 DEF IInv, ListsExact, Held
<1>8. ListsExact'
  <2>1. DOMAIN granted' = {c \in blocks' : ~header'[c].is_free}
    <3>1. ASSUME NEW c \in blocks
          PROVE  ~header'[c].is_free <=> c = b \/ ~header[c].is_free
      BY <1>3
    <3> QED
      BY <3>1, <1>3, <1>4, <1>7
  <2> QED
    BY <2>1, <1>3, <1>7 DEF ListsExact
<1>9. Capacity'
  <2>1. HeaderSize + request <= SizeOf(b)
    <3>1. header[b].scale \in Scales /\ SizeOf(b) = BlockSize[header[b].scale]
      BY Basics
    <3> QED
      BY <3>1, <1>2, <1>3, LargerFits
  <2>2. \A g \in DOMAIN granted : g # b /\ g \in blocks
    BY <1>3, <1>7
  <2> QED
    BY <2>1, <2>2, <1>2, <1>3 DEF IInv, Capacity, SizeOf
<1>10. CallInv'
  BY <1>2 DEF CallInv
<1> QED
  BY <1>5, <1>6, <1>8, <1>9, <1>10 DEF IInv

LEMMA SplitStep ==
  ASSUME IInv, Split
  PROVE  IInv'
<1>1. PICK p \in blocks : p = block /\ Held = {p}
  BY Basics DEF Split, Held
<1>2. PICK s \in Scales : /\ header[p].scale = s + 1 /\ s + 1 \in Scales
                          /\ s = header[p].scale - 1 /\ size_to_scale(request) <= s
  <2>1. /\ ValidSize(request) /\ request \in Nat
        /\ size_to_scale(request) < header[p].scale /\ header[p].scale \in Scales
    BY <1>1, Basics DEF Split, IInv, CallInv, TypeOK
  <2>2. size_to_scale(request) \in Scales
    BY <2>1, ScaleFits
  <2> QED
    BY <2>1, <2>2, ScaleAssumption DEF Scales
<1>3. /\ BlockSize[s] \in Nat \ {0} /\ BlockSize[s + 1] = 2 * BlockSize[s]
      /\ SizeOf(p) = BlockSize[s + 1] /\ p \in Nat
  BY <1>2, BlockSizeAssumption, Basics
<1>4. PICK n \in Nat : n = p + BlockSize[s]
  BY <1>3
<1>5. /\ header' = [b \in blocks \cup {n} |->
                      IF b = n THEN [is_free |-> TRUE, scale |-> s]
                      ELSE IF b = p THEN [header[b] EXCEPT !.scale = s]
                      ELSE header[b]]
      /\ AddToFreeList(n, s)
      /\ pc = "split" /\ block' = p
      /\ UNCHANGED <<current_brk, pc, caller, block, request, addr, granted>>
  BY <1>1, <1>2, <1>4 DEF Split, UpperHalf
<1>6. /\ \A b \in blocks : /\ b + SizeOf(b) <= current_brk
                           /\ b \in Nat /\ SizeOf(b) \in Nat \ {0}
      /\ \A b, c \in blocks : b < c => b + SizeOf(b) <= c
      /\ current_brk \in Nat
  BY Basics DEF IInv, Layout, Disjoint, TypeOK
<1>7. n \notin blocks /\ n # p
  BY <1>3, <1>4, <1>6
<1>8. /\ blocks' = blocks \cup {n}
      /\ header'[n] = [is_free |-> TRUE, scale |-> s]
      /\ header'[p] = [is_free |-> FALSE, scale |-> s]
      /\ \A b \in blocks \ {p} : header'[b] = header[b]
  <2>1. header[p] = [is_free |-> FALSE, scale |-> header[p].scale]
    BY <1>1, Basics
  <2>2. [header[p] EXCEPT !.scale = s] = [is_free |-> FALSE, scale |-> s]
    <3>1. header[p] \in Header /\ header[p].is_free = FALSE
      BY <2>1 DEF IInv, TypeOK
    <3>2. [header[p] EXCEPT !.scale = s] = [is_free |-> header[p].is_free, scale |-> s]
      BY <3>1 DEF Header
    <3> QED
      BY <3>1, <3>2
  <2>3. DOMAIN header' = blocks \cup {n}
    BY <1>5
  <2>4. header'[n] = [is_free |-> TRUE, scale |-> s]
    BY <1>5
  <2>5. header'[p] = [header[p] EXCEPT !.scale = s]
    BY <1>5, <1>7
  <2>6. \A b \in blocks \ {p} : header'[b] = header[b]
    BY <1>5, <1>7
  <2> QED
    BY <2>2, <2>3, <2>4, <2>5, <2>6 DEF blocks
<1>9. \A b \in blocks' : SizeOf(b)' = IF b \in {p, n} THEN BlockSize[s] ELSE SizeOf(b)
  BY <1>8 DEF SizeOf
<1>17. /\ free_list' \in [Scales -> Seq(Nat)]
       /\ \A t \in Scales :
            /\ IsInjective(free_list'[t])
            /\ ToSet(free_list'[t]) = IF t = s THEN ToSet(free_list[t]) \cup {n}
                                      ELSE ToSet(free_list[t])
  <2>1. n \notin ToSet(free_list[s])
    BY <1>7, Basics
  <2>2. free_list \in [Scales -> Seq(Nat)] /\ \A t \in Scales : IsInjective(free_list[t])
    BY DEF IInv, TypeOK, ListsExact
  <2> QED
    BY <2>1, <2>2, <1>5, AddFacts
<1>10. TypeOK'
  <2>1. header' \in [blocks' -> Header] /\ blocks' \subseteq Nat
    <3>1. ASSUME NEW b \in blocks' PROVE header'[b] \in Header
      <4>1. CASE b \in {p, n}
        <5>1. header'[b] = [is_free |-> TRUE, scale |-> s]
              \/ header'[b] = [is_free |-> FALSE, scale |-> s]
          BY <4>1, <1>8
        <5>2. [is_free |-> TRUE, scale |-> s] \in Header
              /\ [is_free |-> FALSE, scale |-> s] \in Header
          BY DEF Header
        <5> QED
          BY <5>1, <5>2
      <4>2. CASE b \notin {p, n}
        BY <4>2, <1>8 DEF IInv, TypeOK
      <4> QED
        BY <4>1, <4>2
    <3>2. header' = [b \in blocks' |-> header'[b]]
      BY <1>5, <1>8
    <3> QED
      BY <3>1, <3>2, <1>8 DEF IInv, TypeOK
  <2> QED
    BY <2>1, <1>5, <1>17 DEF IInv, TypeOK
<1>11. Disjoint'
  <2>1. ASSUME NEW b \in blocks' PROVE b + SizeOf(b)' <= current_brk'
    <3>1. CASE b \in {p, n}
      <4>1. p + SizeOf(p) <= current_brk
        BY <1>6
      <4> QED
        BY <3>1, <4>1, <1>3, <1>4, <1>5, <1>6, <1>9
    <3>2. CASE b \notin {p, n}
      BY <3>2, <1>5, <1>6, <1>8, <1>9
    <3> QED
      BY <3>1, <3>2
  <2>2. ASSUME NEW b \in blocks', NEW c \in blocks', b < c PROVE b + SizeOf(b)' <= c
    <3>1. p + 2 * BlockSize[s] <= current_brk
      BY <1>3, <1>6
    <3>2. CASE b = p
      <4>1. SizeOf(b)' = BlockSize[s]
        BY <3>2, <1>8, <1>9
      <4>2. CASE c = n
        BY <4>1, <4>2, <3>2, <1>3, <1>4
      <4>3. CASE c # n
        <5>1. c \in blocks /\ c \in Nat /\ p + SizeOf(p) <= c
          BY <4>3, <3>2, <2>2, <1>6, <1>8
        <5> QED
          BY <4>1, <5>1, <3>2, <1>3
      <4> QED
        BY <4>2, <4>3
    <3>3. CASE b = n
      BY <2>2, <3>3, <1>3, <1>4, <1>6, <1>8, <1>9
    <3>4. CASE b \notin {p, n} /\ c # n
      BY <2>2, <3>4, <1>6, <1>8, <1>9
    <3>5. CASE b \notin {p, n} /\ c = n
      <4>1. b \in blocks /\ SizeOf(b)' = SizeOf(b)
        BY <3>5, <1>8, <1>9
      <4>2. ~(p < b)
        BY <4>1, <2>2, <3>5, <1>3, <1>4, <1>6
      <4>3. b + SizeOf(b) <= p
        BY <4>1, <4>2, <3>5, <1>6
      <4> QED
        BY <4>1, <4>3, <3>5, <1>3, <1>4, <1>6
    <3> QED
      BY <3>2, <3>3, <3>4, <3>5
  <2> QED
    BY <2>1, <2>2 DEF Disjoint
<1>12. Cover'
  <2> SUFFICES ASSUME NEW a \in 0..(current_brk - 1)
               PROVE  \E b \in blocks' : b <= a /\ a < b + SizeOf(b)'
    BY <1>5 DEF Cover
  <2>1. PICK b \in blocks : b <= a /\ a < b + SizeOf(b)
    BY DEF IInv, Layout, Cover
  <2>2. CASE b # p
    BY <2>1, <2>2, <1>7, <1>8, <1>9
  <2>3. CASE b = p /\ a < n
    BY <2>1, <2>3, <1>4, <1>8, <1>9
  <2>4. CASE b = p /\ n <= a
    BY <2>1, <2>4, <1>3, <1>4, <1>8, <1>9
  <2> QED
    BY <2>2, <2>3, <2>4, <1>6
<1>13. Aligned'
  <2>1. Multiple(p, BlockSize[s])
    <3>1. Multiple(p, BlockSize[s + 1])
      BY <1>3 DEF IInv, Layout, Aligned
    <3>2. Multiple(BlockSize[s + 1], BlockSize[s])
      BY <1>3 DEF Multiple
    <3> QED
      BY <3>1, <3>2, <1>3, MultipleTrans
  <2>2. Multiple(n, BlockSize[s])
    <3>1. p \in Int /\ BlockSize[s] \in Int
      BY <1>3
    <3> QED
      BY <3>1, <2>1, <1>4, MultipleSum, MultipleSelf
  <2>3. ASSUME NEW b \in blocks' PROVE Multiple(b, SizeOf(b)')
    BY <2>1, <2>2, <1>8, <1>9 DEF IInv, Layout, Aligned
  <2> QED
    BY <2>3, <1>5 DEF Aligned, IInv, Layout, MaxSize
<1>14. ListsExact'
  <2>1. Held' = {p} /\ DOMAIN granted' = DOMAIN granted /\ p \notin DOMAIN granted
        /\ DOMAIN granted \cup {p} = {b \in blocks : ~header[b].is_free}
    BY <1>1, <1>5 DEF Held, IInv, ListsExact
  <2>2. DOMAIN granted \cup {p} = {b \in blocks' : ~header'[b].is_free}
    BY <2>1, <1>7, <1>8
  <2>3. ASSUME NEW t \in Scales
        PROVE  ToSet(free_list'[t]) =
                 {b \in blocks' : header'[b].is_free /\ header'[b].scale = t}
    <3>1. ToSet(free_list[t]) = {b \in blocks : header[b].is_free /\ header[b].scale = t}
      BY DEF IInv, ListsExact
    <3>2. p \notin ToSet(free_list[t])
      BY <3>1, <2>1
    <3>3. ASSUME NEW b
          PROVE  b \in ToSet(free_list'[t])
                   <=> b \in blocks' /\ header'[b].is_free /\ header'[b].scale = t
      <4>1. CASE b = n
        BY <4>1, <1>7, <1>8, <1>17, <3>1
      <4>2. CASE b = p
        <5>1. b \notin ToSet(free_list'[t])
          BY <4>2, <1>7, <1>17, <3>2
        <5>2. ~header'[b].is_free
          BY <4>2, <1>8
        <5> QED
          BY <5>1, <5>2
      <4>3. CASE b \notin {p, n}
        BY <4>3, <1>8, <1>17, <3>1
      <4> QED
        BY <4>1, <4>2, <4>3
    <3> QED
      BY <3>3
  <2> QED
    BY <2>1, <2>2, <2>3, <1>17 DEF ListsExact
<1>15. Capacity'
  <2>1. \A g \in DOMAIN granted : g \in blocks /\ g \notin {p, n}
    BY <1>1, <1>7 DEF IInv, ListsExact
  <2> QED
    BY <2>1, <1>5, <1>8, <1>9 DEF IInv, Capacity
<1>16. CallInv'
  BY <1>2, <1>5, <1>8 DEF IInv, CallInv, ValidSize, size_to_scale, Fits, MaxSize
<1> QED
  BY <1>10, <1>11, <1>12, <1>13, <1>14, <1>15, <1>16 DEF IInv, Layout

-----------------------------------------------------------------------------
(* brk                                                                     *)

\* The facts of a state that the steps of brk and free argue from.
LEMMA Places ==
  ASSUME IInv
  PROVE  /\ current_brk \in Nat
         /\ \A b \in blocks : /\ b \in Nat /\ SizeOf(b) \in Nat \ {0}
                              /\ b + SizeOf(b) <= current_brk
         /\ \A b, c \in blocks : b < c => b + SizeOf(b) <= c
         /\ free_list \in [Scales -> Seq(Nat)]
         /\ \A s \in Scales : IsInjective(free_list[s])
         /\ \A s \in Scales :
              ToSet(free_list[s]) = {b \in blocks : header[b].is_free /\ header[b].scale = s}
BY Basics DEF IInv, Layout, Disjoint, TypeOK, ListsExact

LEMMA MakeHeader ==
  ASSUME NEW s \in Scales
  PROVE  /\ [is_free |-> TRUE, scale |-> s] \in Header
         /\ [is_free |-> FALSE, scale |-> s] \in Header
BY DEF Header

LEMMA MarkFree ==
  ASSUME NEW h \in Header
  PROVE  [h EXCEPT !.is_free = TRUE] = [is_free |-> TRUE, scale |-> h.scale]
<1>1. PICK f \in BOOLEAN : f = TRUE
  OBVIOUS
<1>2. [h EXCEPT !.is_free = f] = [is_free |-> f, scale |-> h.scale]
  BY DEF Header
<1> QED
  BY <1>1, <1>2

LEMMA GrowStep ==
  ASSUME IInv, Grow
  PROVE  IInv'
<1>1. PICK n \in Nat : n = current_brk
  BY Places
<1>2. /\ header' = [b \in blocks \cup {n} |->
                      IF b = n THEN [is_free |-> TRUE, scale |-> MaxScale]
                      ELSE header[b]]
      /\ AddToFreeList(n, MaxScale)
      /\ current_brk' = n + MaxSize
      /\ pc = "grow"
      /\ UNCHANGED <<pc, caller, block, request, addr, granted>>
  BY <1>1 DEF Grow
<1>3. MaxScale \in Scales /\ MaxSize = BlockSize[MaxScale] /\ MaxSize \in Nat \ {0}
  BY Basics
<1>4. n \notin blocks
  BY <1>1, Places
<1>5. /\ blocks' = blocks \cup {n}
      /\ header'[n] = [is_free |-> TRUE, scale |-> MaxScale]
      /\ \A b \in blocks : header'[b] = header[b]
  <2>1. DOMAIN header' = blocks \cup {n}
    BY <1>2
  <2>2. header'[n] = [is_free |-> TRUE, scale |-> MaxScale]
    BY <1>2
  <2>3. \A b \in blocks : header'[b] = header[b]
    BY <1>2, <1>4
  <2> QED
    BY <2>1, <2>2, <2>3 DEF blocks
<1>6. \A b \in blocks' : SizeOf(b)' = IF b = n THEN MaxSize ELSE SizeOf(b)
  BY <1>3, <1>5 DEF SizeOf
<1>7. /\ free_list' \in [Scales -> Seq(Nat)]
      /\ \A t \in Scales :
           /\ IsInjective(free_list'[t])
           /\ ToSet(free_list'[t]) = IF t = MaxScale THEN ToSet(free_list[t]) \cup {n}
                                     ELSE ToSet(free_list[t])
  <2>1. n \notin ToSet(free_list[MaxScale])
    BY <1>3, <1>4, Basics
  <2>2. free_list \in [Scales -> Seq(Nat)] /\ \A t \in Scales : IsInjective(free_list[t])
    BY Places
  <2> QED
    BY <2>1, <2>2, <1>2, <1>3, AddFacts
<1>8. TypeOK'
  <2>1. ASSUME NEW b \in blocks' PROVE header'[b] \in Header
    <3>1. CASE b = n
      BY <3>1, <1>3, <1>5, MakeHeader
    <3>2. CASE b # n
      BY <3>2, <1>5 DEF IInv, TypeOK
    <3> QED
      BY <3>1, <3>2
  <2>2. header' = [b \in blocks' |-> header'[b]]
    BY <1>2, <1>5
  <2>3. header' \in [blocks' -> Header] /\ blocks' \subseteq Nat
    BY <2>1, <2>2, <1>5 DEF IInv, TypeOK
  <2>4. current_brk' \in Nat
    BY <1>2, <1>3
  <2> QED
    BY <2>3, <2>4, <1>2, <1>7 DEF IInv, TypeOK
<1>9. Disjoint'
  <2>1. ASSUME NEW b \in blocks' PROVE b + SizeOf(b)' <= current_brk'
    BY <1>1, <1>2, <1>3, <1>5, <1>6, Places
  <2>2. ASSUME NEW b \in blocks', NEW c \in blocks', b < c PROVE b + SizeOf(b)' <= c
    BY <2>2, <1>1, <1>5, <1>6, Places
  <2> QED
    BY <2>1, <2>2 DEF Disjoint
<1>10. Cover'
  <2> SUFFICES ASSUME NEW a \in 0..(current_brk' - 1)
               PROVE  \E b \in blocks' : b <= a /\ a < b + SizeOf(b)'
    BY DEF Cover
  <2>0. a \in Nat /\ a < n + MaxSize
    BY <1>2, <1>3
  <2>1. CASE a < n
    <3>1. PICK b \in blocks : b <= a /\ a < b + SizeOf(b)
      BY <2>0, <2>1, <1>1 DEF IInv, Layout, Cover
    <3> QED
      BY <3>1, <1>4, <1>5, <1>6
  <2>2. CASE n <= a
    <3>1. n \in blocks' /\ SizeOf(n)' = MaxSize
      BY <1>5, <1>6
    <3> QED
      BY <3>1, <2>0, <2>2
  <2> QED
    BY <2>0, <2>1, <2>2
<1>11. Aligned'
  <2>1. Multiple(n, MaxSize) /\ Multiple(MaxSize, MaxSize) /\ n \in Int /\ MaxSize \in Int
    BY <1>1, <1>3, MultipleSelf DEF IInv, Layout, Aligned
  <2>2. Multiple(n + MaxSize, MaxSize)
    BY <2>1, MultipleSum
  <2>3. \A b \in blocks' : Multiple(b, SizeOf(b)')
    BY <2>1, <1>5, <1>6 DEF IInv, Layout, Aligned
  <2> QED
    BY <2>2, <2>3, <1>2 DEF Aligned, MaxSize
<1>12. ListsExact'
  <2>1. /\ Held' = {} /\ DOMAIN granted' = DOMAIN granted
        /\ DOMAIN granted = {b \in blocks : ~header[b].is_free}
    BY <1>2 DEF Held, IInv, ListsExact
  <2>2. DOMAIN granted = {b \in blocks' : ~header'[b].is_free}
    BY <2>1, <1>4, <1>5
  <2>3. ASSUME NEW t \in Scales
        PROVE  ToSet(free_list'[t]) =
                 {b \in blocks' : header'[b].is_free /\ header'[b].scale = t}
    <3>1. ToSet(free_list[t]) = {b \in blocks : header[b].is_free /\ header[b].scale = t}
      BY Places
    <3>2. ASSUME NEW b
          PROVE  b \in ToSet(free_list'[t])
                   <=> b \in blocks' /\ header'[b].is_free /\ header'[b].scale = t
      <4>1. CASE b = n
        BY <4>1, <1>3, <1>4, <1>5, <1>7, <3>1
      <4>2. CASE b # n
        BY <4>2, <1>5, <1>7, <3>1
      <4> QED
        BY <4>1, <4>2
    <3> QED
      BY <3>2
  <2> QED
    BY <2>1, <2>2, <2>3, <1>7 DEF ListsExact
<1>13. Capacity'
  <2>1. \A g \in DOMAIN granted : g \in blocks /\ g # n
    BY <1>4 DEF IInv, ListsExact
  <2> QED
    BY <2>1, <1>2, <1>5, <1>6 DEF IInv, Capacity
<1>14. CallInv'
  BY <1>2 DEF IInv, CallInv, ValidSize, MaxSize
<1> QED
  BY <1>8, <1>9, <1>10, <1>11, <1>12, <1>13, <1>14 DEF IInv, Layout

LEMMA ShrinkStep ==
  ASSUME IInv, Shrink
  PROVE  IInv'
<1>1. /\ RemoveFromFreeList(LastBlock, MaxScale)
      /\ header' = [b \in blocks \ {LastBlock} |-> header[b]]
      /\ current_brk' = LastBlock
      /\ pc = "shrink"
      /\ UNCHANGED <<pc, caller, block, request, addr, granted>>
  BY DEF Shrink
<1>2. MaxScale \in Scales /\ MaxSize = BlockSize[MaxScale] /\ MaxSize \in Nat \ {0}
  BY Basics
<1>3. /\ LastBlock \in ToSet(free_list[MaxScale])
      /\ free_list' \in [Scales -> Seq(Nat)]
      /\ \A t \in Scales :
           /\ IsInjective(free_list'[t])
           /\ ToSet(free_list'[t]) = IF t = MaxScale THEN ToSet(free_list[t]) \ {LastBlock}
                                     ELSE ToSet(free_list[t])
  BY <1>1, <1>2, Places, RemoveFacts
<1>4. PICK l \in blocks : /\ l = LastBlock /\ l \in Nat
                          /\ header[l].is_free /\ header[l].scale = MaxScale
                          /\ SizeOf(l) = MaxSize /\ l + MaxSize = current_brk
  <2>1. LastBlock \in blocks /\ header[LastBlock].is_free /\ header[LastBlock].scale = MaxScale
    BY <1>2, <1>3, Places
  <2>2. LastBlock \in Nat /\ LastBlock + MaxSize = current_brk
    BY <2>1, <1>2, Places DEF LastBlock
  <2> QED
    BY <2>1, <2>2, <1>2, Basics
<1>5. /\ blocks' = blocks \ {l} /\ current_brk' = l
      /\ \A b \in blocks' : header'[b] = header[b] /\ SizeOf(b)' = SizeOf(b)
  <2>1. DOMAIN header' = blocks \ {l} /\ \A b \in blocks \ {l} : header'[b] = header[b]
    BY <1>1, <1>4
  <2> QED
    BY <2>1, <1>1, <1>4 DEF blocks, SizeOf
<1>6. TypeOK'
  <2>1. header' = [b \in blocks' |-> header[b]]
    BY <1>1, <1>4, <1>5
  <2>2. header' \in [blocks' -> Header] /\ blocks' \subseteq Nat
    BY <2>1, <1>5 DEF IInv, TypeOK
  <2> QED
    BY <2>2, <1>1, <1>3, <1>4, <1>5 DEF IInv, TypeOK
\* Nothing lies after the block that goes.
<1>7. \A b \in blocks' : b \in blocks /\ b < l /\ b + SizeOf(b) <= l
  <2> SUFFICES ASSUME NEW b \in blocks, b # l PROVE b < l /\ b + SizeOf(b) <= l
    BY <1>5
  <2>1. ~(l < b)
    <3> SUFFICES ASSUME l < b PROVE FALSE
      OBVIOUS
    <3>1. l + MaxSize <= b /\ b + SizeOf(b) <= current_brk
      BY <1>4, Places
    <3> QED
      BY <3>1, <1>4, Places
  <2> QED
    BY <2>1, <1>4, Places
<1>8. Disjoint'
  BY <1>5, <1>7, Places DEF Disjoint
<1>9. Cover'
  <2> SUFFICES ASSUME NEW a \in 0..(current_brk' - 1)
               PROVE  \E b \in blocks' : b <= a /\ a < b + SizeOf(b)'
    BY DEF Cover
  <2>1. a \in Nat /\ a < l /\ a \in 0..(current_brk - 1)
    BY <1>2, <1>4, <1>5
  <2>2. PICK b \in blocks : b <= a /\ a < b + SizeOf(b)
    BY <2>1 DEF IInv, Layout, Cover
  <2>3. b # l
    BY <2>1, <2>2, <1>4
  <2> QED
    BY <2>2, <2>3, <1>5
<1>10. Aligned'
  <2>1. Multiple(l, MaxSize)
    BY <1>4 DEF IInv, Layout, Aligned
  <2> QED
    BY <2>1, <1>5 DEF IInv, Layout, Aligned, MaxSize
<1>11. Held' = {} /\ DOMAIN granted' = DOMAIN granted
       /\ DOMAIN granted = {b \in blocks : ~header[b].is_free}
  BY <1>1 DEF Held, IInv, ListsExact
<1>12. ListsExact'
  <2>1. DOMAIN granted = {b \in blocks' : ~header'[b].is_free}
    BY <1>4, <1>5, <1>11
  <2>2. ASSUME NEW t \in Scales
        PROVE  ToSet(free_list'[t]) =
                 {b \in blocks' : header'[b].is_free /\ header'[b].scale = t}
    <3>1. ToSet(free_list[t]) = {b \in blocks : header[b].is_free /\ header[b].scale = t}
      BY Places
    <3>2. ToSet(free_list'[t]) = ToSet(free_list[t]) \ {l}
      BY <1>2, <1>3, <1>4, <3>1
    <3> QED
      BY <3>1, <3>2, <1>5
  <2> QED
    BY <2>1, <2>2, <1>3, <1>11 DEF ListsExact
<1>13. Capacity'
  <2>1. \A g \in DOMAIN granted : g \in blocks'
    BY <1>4, <1>5, <1>11
  <2> QED
    BY <2>1, <1>1, <1>5 DEF IInv, Capacity
<1>14. CallInv'
  BY <1>1 DEF IInv, CallInv, MaxSize
<1> QED
  BY <1>6, <1>8, <1>9, <1>10, <1>12, <1>13, <1>14 DEF IInv, Layout

-----------------------------------------------------------------------------
(* free                                                                    *)

LEMMA FreeStep ==
  ASSUME IInv, NEW b \in blocks, Free(b)
  PROVE  IInv'
<1>1. /\ pc = "ready" /\ b \in DOMAIN granted
      /\ granted' = [g \in DOMAIN granted \ {b} |-> granted[g]]
      /\ pc' = "coalesce" /\ caller' = "free" /\ block' = b
      /\ UNCHANGED <<current_brk, header, free_list, request, addr>>
  BY DEF Free
<1>2. /\ blocks' = blocks /\ DOMAIN granted' = DOMAIN granted \ {b}
      /\ Held' = {b} /\ Held = {}
  BY <1>1 DEF blocks, Held
<1>3. TypeOK'
  <2>1. DOMAIN granted' \subseteq Nat /\ granted' \in [DOMAIN granted' -> Nat]
    BY <1>1, <1>2 DEF IInv, TypeOK
  <2> QED
    BY <2>1, <1>1, <1>2, Places DEF IInv, TypeOK
<1>4. Layout'
  BY <1>1, <1>2, SameLayout
<1>5. ListsExact'
  BY <1>1, <1>2 DEF IInv, ListsExact
<1>6. Capacity'
  BY <1>1, <1>2 DEF IInv, Capacity, SizeOf
<1>7. CallInv'
  BY <1>1 DEF CallInv
<1> QED
  BY <1>3, <1>4, <1>5, <1>6, <1>7 DEF IInv

LEMMA CoalesceReturnStep ==
  ASSUME IInv, CoalesceReturn
  PROVE  IInv'
<1>1. PICK p \in blocks : p = block /\ Held = {p}
  BY Basics DEF CoalesceReturn, Held
<1>2. PICK s \in Scales : s = header[p].scale
  BY Basics
<1>3. /\ AddToFreeList(p, s)
      /\ header' = [header EXCEPT ![p].is_free = TRUE]
      /\ UNCHANGED <<current_brk, granted>>
  BY <1>1, <1>2 DEF CoalesceReturn
<1>4. /\ pc' \in {"ready", "shrink"} /\ caller' \in {"none", "allocate", "free", "sbrk"}
      /\ block' = 0 /\ request' \in Nat /\ addr' \in Nat
      /\ pc' = "shrink" => Multiple(addr', MaxSize)
  <2>1. CASE s = MaxScale /\ p = LastBlock
    <3>1. /\ pc' = "shrink" /\ block' = 0 /\ addr' = p
          /\ UNCHANGED <<caller, request>>
      BY <2>1, <1>1, <1>2 DEF CoalesceReturn
    <3>2. p \in Nat /\ Multiple(p, MaxSize)
      BY <2>1, <1>2, Basics DEF IInv, Layout, Aligned
    <3> QED
      BY <3>1, <3>2 DEF IInv, TypeOK
  <2>2. CASE ~(s = MaxScale /\ p = LastBlock)
    <3>1. Return([op |-> "free", val |-> 0])
      BY <2>2, <1>1, <1>2 DEF CoalesceReturn
    <3> QED
      BY <3>1 DEF Return
  <2> QED
    BY <2>1, <2>2
<1>5. /\ header[p].is_free = FALSE /\ p \in Nat
      /\ DOMAIN granted = {b \in blocks : ~header[b].is_free} \ {p}
  BY <1>1, Basics DEF IInv, ListsExact
<1>6. /\ blocks' = blocks
      /\ header'[p] = [is_free |-> TRUE, scale |-> s]
      /\ \A b \in blocks \ {p} : header'[b] = header[b]
      /\ \A b \in blocks : header'[b].scale = header[b].scale
  <2>1. header[p] \in Header
    BY DEF IInv, TypeOK
  <2>2. [header[p] EXCEPT !.is_free = TRUE] = [is_free |-> TRUE, scale |-> s]
    <3>1. [header[p] EXCEPT !.is_free = TRUE] = [is_free |-> TRUE, scale |-> header[p].scale]
      BY <2>1, MarkFree
    <3> QED
      BY <3>1, <1>2
  <2>3. /\ DOMAIN header' = blocks
        /\ header'[p] = [header[p] EXCEPT !.is_free = TRUE]
        /\ \A b \in blocks \ {p} : header'[b] = header[b]
    BY <1>3 DEF IInv, TypeOK, blocks
  <2> QED
    BY <2>2, <2>3, <1>2 DEF blocks
<1>7. /\ free_list' \in [Scales -> Seq(Nat)]
      /\ \A t \in Scales :
           /\ IsInjective(free_list'[t])
           /\ ToSet(free_list'[t]) = IF t = s THEN ToSet(free_list[t]) \cup {p}
                                     ELSE ToSet(free_list[t])
  <2>1. p \notin ToSet(free_list[s])
    BY <1>5, Places
  <2>2. free_list \in [Scales -> Seq(Nat)] /\ \A t \in Scales : IsInjective(free_list[t])
    BY Places
  <2> QED
    BY <2>1, <2>2, <1>3, <1>5, AddFacts
<1>8. TypeOK'
  <2>1. ASSUME NEW b \in blocks' PROVE header'[b] \in Header
    <3>1. CASE b = p
      BY <3>1, <1>6, MakeHeader
    <3>2. CASE b # p
      BY <3>2, <1>6 DEF IInv, TypeOK
    <3> QED
      BY <3>1, <3>2
  <2>2. header' = [b \in blocks' |-> header'[b]]
    BY <1>3, <1>6 DEF IInv, TypeOK
  <2>3. header' \in [blocks' -> Header] /\ blocks' \subseteq Nat
    BY <2>1, <2>2, <1>6 DEF IInv, TypeOK
  <2> QED
    BY <2>3, <1>3, <1>4, <1>7 DEF IInv, TypeOK
<1>9. Layout'
  BY <1>3, <1>6, SameLayout
<1>10. ListsExact'
  <2>1. Held' = {}
    BY <1>4 DEF Held
  <2>2. DOMAIN granted' = {b \in blocks' : ~header'[b].is_free}
    BY <1>3, <1>5, <1>6
  <2>3. ASSUME NEW t \in Scales
        PROVE  ToSet(free_list'[t]) =
                 {b \in blocks' : header'[b].is_free /\ header'[b].scale = t}
    <3>1. ToSet(free_list[t]) = {b \in blocks : header[b].is_free /\ header[b].scale = t}
      BY Places
    <3>2. ASSUME NEW b
          PROVE  b \in ToSet(free_list'[t])
                   <=> b \in blocks' /\ header'[b].is_free /\ header'[b].scale = t
      <4>1. CASE b = p
        BY <4>1, <1>2, <1>5, <1>6, <1>7, <3>1
      <4>2. CASE b # p
        BY <4>2, <1>6, <1>7, <3>1
      <4> QED
        BY <4>1, <4>2
    <3> QED
      BY <3>2
  <2> QED
    BY <2>1, <2>2, <2>3, <1>7 DEF ListsExact
<1>11. Capacity'
  BY <1>3, <1>5, <1>6 DEF IInv, Capacity, SizeOf
<1>12. CallInv'
  BY <1>4 DEF CallInv, MaxSize
<1> QED
  BY <1>8, <1>9, <1>10, <1>11, <1>12 DEF IInv

\* The other half of the parent of a block of scale s at address a.
BuddyAt(a, s) == IF a % BlockSize[s + 1] # 0 THEN a - BlockSize[s] ELSE a + BlockSize[s]

\* Below the largest scale, that is where the code looks for the buddy.
LEMMA BuddyIsHalf ==
  ASSUME NEW b \in blocks, NEW s \in Scales, s + 1 \in Scales, header[b].scale = s
  PROVE  BuddyOf(b) = BuddyAt(b, s)
<1>1. SizeOf(b) = BlockSize[s] /\ BlockSize[s + 1] = 2 * BlockSize[s]
  BY BlockSizeAssumption DEF SizeOf
<1> QED
  BY <1>1 DEF BuddyOf, BuddyAt

LEMMA CoalesceStep ==
  ASSUME IInv, Coalesce
  PROVE  IInv'
<1>1. PICK p \in blocks : p = block /\ Held = {p} /\ header[p].scale < MaxScale
  <2>1. PICK p \in blocks : p = block /\ Held = {p}
    BY Basics DEF Coalesce, Held
  <2>2. header[block].scale < MaxScale
    BY DEF Coalesce, CanMerge
  <2> QED
    BY <2>1, <2>2
<1>2. PICK s \in Scales : s = header[p].scale
  BY Basics
<1>3. /\ s + 1 \in Scales /\ BlockSize[s] \in Nat \ {0} /\ BlockSize[s + 1] \in Nat \ {0}
      /\ BlockSize[s + 1] = 2 * BlockSize[s] /\ SizeOf(p) = BlockSize[s] /\ p \in Nat
  <2>1. s < MaxScale /\ SizeOf(p) = BlockSize[s] /\ p \in Nat
    BY <1>1, <1>2, Basics
  <2>2. s + 1 \in Scales
    BY <2>1, ScaleAssumption DEF Scales
  <2> QED
    BY <2>1, <2>2, BlockSizeAssumption
<1>4. /\ header[p].is_free = FALSE
      /\ DOMAIN granted = {b \in blocks : ~header[b].is_free} \ {p}
  BY <1>1, Basics DEF IInv, ListsExact
<1>5. PICK q : q = BuddyOf(p)
  OBVIOUS
<1>6. RemoveFromFreeList(q, s)
  BY <1>1, <1>2, <1>5 DEF Coalesce
<1>7. /\ q \in ToSet(free_list[s])
      /\ free_list' \in [Scales -> Seq(Nat)]
      /\ \A t \in Scales :
           /\ IsInjective(free_list'[t])
           /\ ToSet(free_list'[t]) = IF t = s THEN ToSet(free_list[t]) \ {q}
                                     ELSE ToSet(free_list[t])
  BY <1>6, Places, RemoveFacts
<1>8. /\ q \in blocks /\ header[q].is_free /\ header[q].scale = s /\ q # p
      /\ SizeOf(q) = BlockSize[s] /\ q \in Nat
  <2>1. q \in blocks /\ header[q].is_free /\ header[q].scale = s
    BY <1>7, Places
  <2> QED
    BY <2>1, <1>4, Basics
\* The lower half stays, the upper half goes.
<1>9. PICK c \in blocks, g \in blocks :
        /\ {c, g} = {p, q} /\ g = c + BlockSize[s]
        /\ c = (IF q < p THEN q ELSE p) /\ g = (IF q < p THEN p ELSE q)
        /\ Multiple(c, BlockSize[s + 1])
  <2>1. Multiple(p, BlockSize[s])
    BY <1>3 DEF IInv, Layout, Aligned
  <2>2. CASE p % BlockSize[s + 1] # 0
    <3>1. q = p - BlockSize[s]
      BY <2>2, <1>2, <1>3, <1>5, BuddyIsHalf DEF BuddyAt
    <3>2. Multiple(q, BlockSize[s + 1])
      BY <2>1, <2>2, <3>1, <1>3, BuddyAddress
    <3>3. q < p /\ p = q + BlockSize[s]
      BY <3>1, <1>3, <1>8
    <3> QED
      BY <3>2, <3>3, <1>8
  <2>3. CASE p % BlockSize[s + 1] = 0
    <3>1. q = p + BlockSize[s]
      BY <2>3, <1>2, <1>3, <1>5, BuddyIsHalf DEF BuddyAt
    <3>2. Multiple(p, BlockSize[s + 1])
      BY <2>1, <2>3, <1>3, BuddyAddress
    <3>3. ~(q < p)
      BY <3>1, <1>3
    <3> QED
      BY <3>1, <3>2, <3>3, <1>8
  <2> QED
    BY <2>2, <2>3
<1>10. /\ c \in Nat /\ g \in Nat /\ c # g /\ c < g
       /\ SizeOf(c) = BlockSize[s] /\ SizeOf(g) = BlockSize[s]
  BY <1>3, <1>8, <1>9
<1>11. /\ header' = [b \in (blocks \cup {c}) \ {g} |->
                       IF b = c THEN [is_free |-> FALSE, scale |-> s + 1] ELSE header[b]]
       /\ block' = c /\ pc = "coalesce"
       /\ UNCHANGED <<current_brk, pc, caller, request, addr, granted>>
  BY <1>1, <1>2, <1>5, <1>8, <1>9 DEF Coalesce, LowerHalf
<1>12. /\ blocks' = blocks \ {g} /\ c \in blocks'
       /\ header'[c] = [is_free |-> FALSE, scale |-> s + 1]
       /\ \A b \in blocks' \ {c} : header'[b] = header[b]
  <2>1. DOMAIN header' = blocks \ {g}
    BY <1>11
  <2>2. header'[c] = [is_free |-> FALSE, scale |-> s + 1]
    BY <1>10, <1>11
  <2>3. \A b \in (blocks \ {g}) \ {c} : header'[b] = header[b]
    BY <1>11
  <2> QED
    BY <2>1, <2>2, <2>3, <1>10 DEF blocks
<1>13. \A b \in blocks' : SizeOf(b)' = IF b = c THEN BlockSize[s + 1] ELSE SizeOf(b)
  BY <1>12 DEF SizeOf
<1>14. TypeOK'
  <2>1. ASSUME NEW b \in blocks' PROVE header'[b] \in Header
    <3>1. CASE b = c
      BY <3>1, <1>3, <1>12, MakeHeader
    <3>2. CASE b # c
      BY <3>2, <1>12 DEF IInv, TypeOK
    <3> QED
      BY <3>1, <3>2
  <2>2. header' = [b \in blocks' |-> header'[b]]
    BY <1>9, <1>10, <1>11, <1>12
  <2>3. header' \in [blocks' -> Header] /\ blocks' \subseteq Nat
    BY <2>1, <2>2, <1>12 DEF IInv, TypeOK
  <2> QED
    BY <2>3, <1>7, <1>10, <1>11 DEF IInv, TypeOK
<1>15. Disjoint'
  <2>1. g + BlockSize[s] <= current_brk /\ c + BlockSize[s + 1] = g + BlockSize[s]
    BY <1>3, <1>9, <1>10, Places
  <2>2. ASSUME NEW b \in blocks' PROVE b + SizeOf(b)' <= current_brk'
    BY <2>1, <1>11, <1>12, <1>13, Places
  <2>3. ASSUME NEW b \in blocks', NEW d \in blocks', b < d PROVE b + SizeOf(b)' <= d
    <3>1. CASE b # c
      BY <2>3, <3>1, <1>12, <1>13, Places
    <3>2. CASE b = c
      <4>1. d \in blocks /\ d # g /\ d \in Nat /\ c + BlockSize[s] <= d
        BY <2>3, <3>2, <1>10, <1>12, Places
      <4>2. g < d
        BY <4>1, <1>9, <1>10
      <4>3. g + BlockSize[s] <= d
        BY <4>1, <4>2, <1>10, Places
      <4> QED
        BY <2>1, <3>2, <4>3, <1>13
    <3> QED
      BY <3>1, <3>2
  <2> QED
    BY <2>2, <2>3 DEF Disjoint
<1>16. Cover'
  <2> SUFFICES ASSUME NEW a \in 0..(current_brk - 1)
               PROVE  \E b \in blocks' : b <= a /\ a < b + SizeOf(b)'
    BY <1>11 DEF Cover
  <2>1. PICK b \in blocks : b <= a /\ a < b + SizeOf(b)
    BY DEF IInv, Layout, Cover
  <2>2. CASE b \notin {c, g}
    BY <2>1, <2>2, <1>12, <1>13
  <2>3. CASE b \in {c, g}
    <3>1. c <= a /\ a < c + BlockSize[s + 1]
      <4>1. a \in Nat /\ c <= b /\ b <= g
        BY <2>3, <1>10, Places
      <4>2. SizeOf(b) = BlockSize[s] /\ b \in Nat
        BY <2>3, <1>10
      <4> QED
        BY <4>1, <4>2, <2>1, <1>3, <1>9, <1>10
    <3>2. c \in blocks' /\ SizeOf(c)' = BlockSize[s + 1]
      BY <1>12, <1>13
    <3> QED
      BY <3>1, <3>2
  <2> QED
    BY <2>2, <2>3
<1>17. Aligned'
  BY <1>9, <1>11, <1>12, <1>13 DEF IInv, Layout, Aligned, MaxSize
<1>18. ListsExact'
  <2>1. /\ Held' = {c} /\ DOMAIN granted' = DOMAIN granted /\ c \notin DOMAIN granted
        /\ g \notin DOMAIN granted
    BY <1>4, <1>8, <1>9, <1>11 DEF Held
  <2>2. DOMAIN granted \cup {c} = {b \in blocks' : ~header'[b].is_free}
    <3>1. \A b \in blocks \ {c, g} :
            b \in DOMAIN granted <=> ~header[b].is_free
      BY <1>4, <1>9
    <3>2. \A b \in blocks' \ {c} : header'[b] = header[b] /\ b \in blocks \ {c, g}
      BY <1>12
    <3>3. ~header'[c].is_free
      BY <1>12
    <3> QED
      BY <3>1, <3>2, <3>3, <2>1, <1>4, <1>12
  <2>3. ASSUME NEW t \in Scales
        PROVE  ToSet(free_list'[t]) =
                 {b \in blocks' : header'[b].is_free /\ header'[b].scale = t}
    <3>1. ToSet(free_list[t]) = {b \in blocks : header[b].is_free /\ header[b].scale = t}
      BY Places
    <3>2. ASSUME NEW b \in {p, q}
          PROVE  b \notin ToSet(free_list'[t])
      BY <3>1, <1>4, <1>7, <1>8
    <3>3. ASSUME NEW b
          PROVE  b \in ToSet(free_list'[t])
                   <=> b \in blocks' /\ header'[b].is_free /\ header'[b].scale = t
      <4>1. CASE b = c
        <5>1. b \notin ToSet(free_list'[t])
          BY <4>1, <3>2, <1>9
        <5>2. ~header'[b].is_free
          BY <4>1, <1>12
        <5> QED
          BY <5>1, <5>2
      <4>2. CASE b = g
        BY <4>2, <3>2, <1>9, <1>12
      <4>3. CASE b \notin {c, g}
        <5>1. b # q
          BY <4>3, <1>9
        <5>2. b \in ToSet(free_list'[t]) <=> b \in ToSet(free_list[t])
          BY <5>1, <1>7
        <5>3. b \in blocks' <=> b \in blocks
          BY <4>3, <1>12
        <5> QED
          BY <4>3, <5>2, <5>3, <3>1, <1>12
      <4> QED
        BY <4>1, <4>2, <4>3
    <3> QED
      BY <3>3
  <2> QED
    BY <2>1, <2>2, <2>3, <1>7 DEF ListsExact
<1>19. Capacity'
  <2>1. \A x \in DOMAIN granted : x \in blocks' /\ x # c
    BY <1>4, <1>8, <1>9, <1>12
  <2> QED
    BY <2>1, <1>11, <1>13 DEF IInv, Capacity
<1>20. CallInv'
  BY <1>11 DEF CallInv
<1> QED
  BY <1>14, <1>15, <1>16, <1>17, <1>18, <1>19, <1>20 DEF IInv, Layout

-----------------------------------------------------------------------------
(* The invariant holds from the call of init_heap on                       *)

LEMMA InitInv == Init => IInv
<1> SUFFICES ASSUME Init PROVE IInv
  OBVIOUS
<1>1. /\ blocks = {} /\ DOMAIN granted = {} /\ Held = {}
      /\ current_brk = 0 /\ pc = "grow" /\ caller = "sbrk" /\ addr = MaxSize
      /\ block = 0 /\ request = 0
  BY DEF Init, blocks, Held
<1>2. MaxSize \in Nat \ {0}
  BY ScaleAssumption, SizeType DEF Scales, MaxSize
<1>3. \A s \in Scales : free_list[s] = <<>> /\ <<>> \in Seq(Nat)
  BY DEF Init
<1>4. TypeOK
  <2>1. header \in [blocks -> Header] /\ granted \in [DOMAIN granted -> Nat]
    BY <1>1 DEF Init, blocks
  <2>2. free_list \in [Scales -> Seq(Nat)]
    BY <1>3 DEF Init
  <2> QED
    BY <2>1, <2>2, <1>1, <1>2 DEF TypeOK
<1>5. Disjoint /\ Cover
  BY <1>1 DEF Disjoint, Cover
<1>6. Aligned
  BY <1>1, <1>2, MultipleSelf DEF Aligned
<1>7. ListsExact
  <2>1. \A s \in Scales : ToSet(free_list[s]) = {} /\ IsInjective(free_list[s])
    BY <1>3 DEF ToSet, IsInjective
  <2> QED
    BY <2>1, <1>1 DEF ListsExact
<1>8. Capacity /\ CallInv
  BY <1>1, <1>2, MultipleSelf DEF Capacity, CallInv
<1> QED
  BY <1>4, <1>5, <1>6, <1>7, <1>8 DEF IInv, Layout

LEMMA NextInv == IInv /\ [Next]_vars => IInv'
<1> SUFFICES ASSUME IInv, [Next]_vars PROVE IInv'
  OBVIOUS
<1>1. ASSUME NEW size \in Requests, AllocateInvalid(size) PROVE IInv'
  BY <1>1, QuietReturn DEF AllocateInvalid
<1>2. ASSUME NEW size \in Requests, AllocateFound(size) PROVE IInv'
  BY <1>2, AllocateFoundStep
<1>3. ASSUME NEW size \in Requests, AllocateGrow(size) PROVE IInv'
  BY <1>3, AllocateGrowStep
<1>4. ASSUME NEW inc \in Increments, Sbrk(inc) PROVE IInv'
  BY <1>4, SbrkStep
<1>5. CASE FreeNull
  BY <1>5, QuietReturn DEF FreeNull
<1>6. ASSUME NEW b \in blocks, FreeListed(b) PROVE IInv'
  BY <1>6, QuietReturn DEF FreeListed
<1>7. ASSUME NEW b \in blocks, Free(b) PROVE IInv'
  BY <1>7, FreeStep
<1>8. CASE Split
  BY <1>8, SplitStep
<1>9. CASE AllocateReturn
  BY <1>9, AllocateReturnStep
<1>10. CASE AllocateRetry
  BY <1>10, AllocateRetryStep
<1>11. CASE Grow
  BY <1>11, GrowStep
<1>12. CASE Shrink
  BY <1>12, ShrinkStep
<1>13. ASSUME NEW x, pc \in {"grow", "shrink"}, BrkReturn(x) PROVE IInv'
  BY <1>13, QuietReturn DEF BrkReturn
<1>14. CASE GrowReturn
  BY <1>13, <1>14 DEF GrowReturn
<1>15. CASE ShrinkReturn
  BY <1>13, <1>15 DEF ShrinkReturn
<1>16. CASE ShrinkFail
  BY <1>13, <1>16 DEF ShrinkFail
<1>17. CASE Coalesce
  BY <1>17, CoalesceStep
<1>18. CASE CoalesceReturn
  BY <1>18, CoalesceReturnStep
<1>19. CASE UNCHANGED vars
  <2>1. /\ UNCHANGED <<current_brk, header, free_list, pc, caller, block, request,
                       addr, granted>>
        /\ blocks' = blocks
    BY <1>19 DEF vars, blocks
  <2>2. Layout'
    BY <2>1, SameLayout
  <2>3. Held' = Held
    BY <2>1 DEF Held
  <2>4. TypeOK' /\ ListsExact'
    BY <2>1, <2>3 DEF IInv, TypeOK, ListsExact
  <2>5. Capacity' /\ CallInv'
    BY <2>1 DEF IInv, Capacity, CallInv, SizeOf, ValidSize, size_to_scale, Fits, MaxSize
  <2> QED
    BY <2>2, <2>4, <2>5 DEF IInv
<1> QED
  BY <1>1, <1>2, <1>3, <1>4, <1>5, <1>6, <1>7, <1>8, <1>9, <1>10, <1>11, <1>12,
     <1>14, <1>15, <1>16, <1>17, <1>18, <1>19 DEF Next, Call, Step

\* The inductive invariant holds in every state of every run of the heap code
\* (memory/heap.c), whatever sizes are asked for, freed, or given to sbrk.
THEOREM Invariance == Spec => []IInv
BY InitInv, NextInv, PTL DEF Spec

-----------------------------------------------------------------------------
(* What follows from it                                                    *)

\* The variables keep their types through every loop of heap.c.
THEOREM TypeCorrect == Spec => []TypeOK
<1>1. IInv => TypeOK
  BY DEF IInv
<1> QED
  BY <1>1, Invariance, PTL

\* split_block, coalesce, brk and sbrk never give one byte to two blocks.
THEOREM BlocksAreDisjoint == Spec => []Disjoint
<1>1. IInv => Disjoint
  BY DEF IInv, Layout
<1> QED
  BY <1>1, Invariance, PTL

\* The blocks of heap.c follow each other without a gap up to the brk.
THEOREM BlocksTileTheHeap == Spec => []Tiled
<1>1. ASSUME IInv PROVE Tiled
  <2> SUFFICES ASSUME current_brk > 0
               PROVE  /\ 0 \in blocks
                      /\ \A b \in blocks : \/ b + SizeOf(b) \in blocks
                                           \/ b + SizeOf(b) = current_brk
    BY DEF Tiled
  <2>1. 0 \in blocks
    <3>1. 0 \in 0..(current_brk - 1)
      BY <1>1, Places
    <3>2. PICK b \in blocks : b <= 0 /\ 0 < b + SizeOf(b)
      BY <1>1, <3>1 DEF IInv, Layout, Cover
    <3> QED
      BY <1>1, <3>2, Places
  <2>2. ASSUME NEW b \in blocks, b + SizeOf(b) # current_brk
        PROVE  b + SizeOf(b) \in blocks
    <3>1. PICK a : a = b + SizeOf(b)
      OBVIOUS
    <3>2. a \in 0..(current_brk - 1) /\ b < a /\ b \in Nat
      BY <1>1, <2>2, <3>1, Places
    <3>3. PICK c \in blocks : c <= a /\ a < c + SizeOf(c)
      BY <1>1, <3>2 DEF IInv, Layout, Cover
    <3>4. c \in Nat /\ SizeOf(c) \in Nat
      BY <1>1, Places
    <3>5. ~(c < b)
      BY <1>1, <3>2, <3>3, <3>4, Places
    <3>6. c # b
      BY <3>1, <3>2, <3>3
    <3>7. a <= c
      BY <1>1, <3>1, <3>2, <3>4, <3>5, <3>6, Places
    <3> QED
      BY <3>1, <3>2, <3>3, <3>4, <3>7
  <2> QED
    BY <2>1, <2>2
<1> QED
  BY <1>1, Invariance, PTL

\* The address that the code computes for the buddy of a block which is not
\* a whole one is that of a block, and that block is no larger.
LEMMA BuddyIsBlock ==
  ASSUME IInv, NEW p \in blocks, header[p].scale < MaxScale
  PROVE  /\ BuddyOf(p) \in blocks /\ BuddyOf(p) # p
         /\ header[BuddyOf(p)].scale <= header[p].scale
<1>2. PICK s \in Scales : s = header[p].scale
  BY Basics
<1>3. /\ s + 1 \in Scales /\ BlockSize[s] \in Nat \ {0} /\ BlockSize[s + 1] \in Nat \ {0}
      /\ BlockSize[s + 1] = 2 * BlockSize[s] /\ SizeOf(p) = BlockSize[s] /\ p \in Nat
  <2>1. s < MaxScale /\ SizeOf(p) = BlockSize[s] /\ p \in Nat
    BY <1>2, Basics
  <2>2. s + 1 \in Scales
    BY <2>1, ScaleAssumption DEF Scales
  <2> QED
    BY <2>1, <2>2, BlockSizeAssumption
<1>4. Multiple(p, BlockSize[s])
  BY <1>3 DEF IInv, Layout, Aligned
<1>5. PICK q \in Nat, c \in Nat :
        /\ q = BuddyOf(p) /\ c \in {p, q} /\ {p, q} = {c, c + BlockSize[s]}
        /\ Multiple(c, BlockSize[s + 1]) /\ Multiple(q, BlockSize[s]) /\ q # p
  <2>1. CASE p % BlockSize[s + 1] # 0
    <3>1. BuddyOf(p) = p - BlockSize[s]
      BY <2>1, <1>2, <1>3, BuddyIsHalf DEF BuddyAt
    <3>2. Multiple(p - BlockSize[s], BlockSize[s + 1]) /\ p - BlockSize[s] \in Nat
      BY <2>1, <1>3, <1>4, BuddyAddress
    <3>3. Multiple(p - BlockSize[s], BlockSize[s])
      <4>1. p \in Int /\ BlockSize[s] \in Int /\ Multiple(BlockSize[s], BlockSize[s])
        BY <1>3, MultipleSelf
      <4> QED
        BY <4>1, <1>3, <1>4, MultipleSum
    <3>4. PICK q \in Nat : q = p - BlockSize[s]
      BY <3>2
    <3>5. p = q + BlockSize[s]
      BY <3>4, <1>3
    <3> QED
      BY <3>1, <3>2, <3>3, <3>4, <3>5, <1>3
  <2>2. CASE p % BlockSize[s + 1] = 0
    <3>1. BuddyOf(p) = p + BlockSize[s]
      BY <2>2, <1>2, <1>3, BuddyIsHalf DEF BuddyAt
    <3>2. Multiple(p, BlockSize[s + 1])
      BY <2>2, <1>3, <1>4, BuddyAddress
    <3>3. Multiple(p + BlockSize[s], BlockSize[s]) /\ p + BlockSize[s] \in Nat
      <4>1. p \in Int /\ BlockSize[s] \in Int /\ Multiple(BlockSize[s], BlockSize[s])
        BY <1>3, MultipleSelf
      <4> QED
        <5>1. Multiple(p + BlockSize[s], BlockSize[s])
          BY <4>1, <1>4, MultipleSum
        <5> QED
          BY <5>1, <1>3
    <3> QED
      BY <3>1, <3>2, <3>3, <1>3
  <2> QED
    BY <2>1, <2>2
\* The parent of both lies below the brk, so the buddy's bytes are in blocks.
<1>6. c + BlockSize[s + 1] <= current_brk
  <2>1. Multiple(MaxSize, BlockSize[s + 1]) /\ MaxSize \in Nat
    BY <1>3, Basics, SizeMultiple, SizeType DEF Scales
  <2>2. Multiple(current_brk, BlockSize[s + 1]) /\ current_brk \in Nat
    <3>1. Multiple(current_brk, MaxSize) /\ current_brk \in Nat
      BY Places DEF IInv, Layout, Aligned
    <3>2. current_brk \in Int /\ MaxSize \in Int /\ BlockSize[s + 1] \in Int
      BY <3>1, <2>1, <1>3
    <3> QED
      BY <3>1, <3>2, <2>1, MultipleTrans
  <2>3. p < current_brk
    BY <1>3, Places
  <2>4. c < current_brk
    BY <2>2, <2>3, <1>3, <1>5
  <2> QED
    BY <2>2, <2>4, <1>3, <1>5, MultipleApart
<1>7. q < current_brk
  <2>1. q = c \/ q = c + BlockSize[s]
    BY <1>5
  <2>2. current_brk \in Nat
    BY Places
  <2> QED
    BY <2>1, <2>2, <1>3, <1>5, <1>6
<1>8. PICK d \in blocks : d <= q /\ q < d + SizeOf(d)
  BY <1>5, <1>7, Places DEF IInv, Layout, Cover
<1>9. PICK t \in Scales : /\ t = header[d].scale /\ SizeOf(d) = BlockSize[t]
                          /\ d \in Nat /\ Multiple(d, BlockSize[t])
                          /\ BlockSize[t] \in Nat \ {0}
  <2>1. PICK t \in Scales : t = header[d].scale /\ SizeOf(d) = BlockSize[t] /\ d \in Nat
    BY Basics
  <2>2. Multiple(d, SizeOf(d))
    BY DEF IInv, Layout, Aligned
  <2> QED
    BY <2>1, <2>2, SizeType
\* A larger block that covers the buddy would cover the block itself.
<1>10. CASE s < t
  <2>1. Multiple(BlockSize[t], BlockSize[s + 1]) /\ Multiple(d, BlockSize[s + 1])
    <3>1. s + 1 <= t
      BY <1>10, SizeType
    <3>2. Multiple(BlockSize[t], BlockSize[s + 1])
      BY <3>1, <1>3, SizeMultiple
    <3> QED
      BY <3>2, <1>3, <1>9, MultipleTrans
  <2>2. d + BlockSize[t] \in Int /\ Multiple(d + BlockSize[t], BlockSize[s + 1])
    <3>1. d \in Int /\ BlockSize[t] \in Int /\ BlockSize[s + 1] \in Int
      BY <1>3, <1>9
    <3> QED
      <4>1. Multiple(d + BlockSize[t], BlockSize[s + 1])
        BY <3>1, <2>1, MultipleSum
      <4> QED
        BY <4>1, <3>1
  <2>3. d <= c
    <3> SUFFICES ASSUME c < d PROVE FALSE
      BY <1>5, <1>9
    <3>1. c + BlockSize[s + 1] <= d
      BY <2>1, <1>3, <1>5, <1>9, MultipleApart
    <3> QED
      BY <3>1, <1>3, <1>5, <1>8, <1>9
  <2>4. c + BlockSize[s + 1] <= d + BlockSize[t]
    <3>1. c < d + BlockSize[t]
      BY <1>3, <1>5, <1>8, <1>9
    <3> QED
      BY <3>1, <2>2, <1>3, <1>5, MultipleApart
  <2>5. d <= p /\ p + BlockSize[s] <= d + BlockSize[t]
    BY <2>3, <2>4, <1>3, <1>5, <1>9
  <2>6. d # p
    BY <1>2, <1>9, <1>10, SizeType
  <2>7. d < p
    BY <2>5, <2>6, <1>3, <1>9
  <2>8. d + BlockSize[t] <= p
    BY <2>7, <1>9, Places
  <2> QED
    BY <2>5, <2>8, <1>3, <1>9
\* A block no larger starts at a multiple of its size, and so does the buddy.
<1>11. CASE t <= s
  <2>1. Multiple(q, BlockSize[t])
    BY <1>11, <1>3, <1>5, <1>9, SizeMultiple, MultipleTrans
  <2>2. ~(d < q)
    <3> SUFFICES ASSUME d < q PROVE FALSE
      OBVIOUS
    <3>1. d + BlockSize[t] <= q
      BY <2>1, <1>5, <1>9, MultipleApart
    <3> QED
      BY <3>1, <1>5, <1>8, <1>9
  <2>3. d = q
    BY <2>2, <1>5, <1>8, <1>9
  <2> QED
    BY <2>3, <1>2, <1>5, <1>9, <1>11
<1> QED
  BY <1>10, <1>11, SizeType

\* An address below the brk at which whole blocks start is that of a block.
LEMMA WholeBlockStart ==
  ASSUME IInv, NEW q \in Nat, Multiple(q, MaxSize), q < current_brk
  PROVE  q \in blocks
<1>1. PICK d \in blocks : d <= q /\ q < d + SizeOf(d)
  BY Places DEF IInv, Layout, Cover
<1>2. PICK t \in Scales : /\ t = header[d].scale /\ SizeOf(d) = BlockSize[t]
                          /\ d \in Nat /\ Multiple(d, BlockSize[t])
                          /\ BlockSize[t] \in Nat \ {0}
  <2>1. PICK t \in Scales : t = header[d].scale /\ SizeOf(d) = BlockSize[t] /\ d \in Nat
    BY Basics
  <2>2. Multiple(d, SizeOf(d))
    BY DEF IInv, Layout, Aligned
  <2> QED
    BY <2>1, <2>2, SizeType
<1>3. Multiple(q, BlockSize[t])
  <2>1. MaxScale \in Scales /\ t <= MaxScale /\ MaxSize \in Int
    BY ScaleAssumption, BlockSizeAssumption DEF Scales, MaxSize
  <2>2. Multiple(MaxSize, BlockSize[t])
    BY <2>1, SizeMultiple DEF MaxSize
  <2> QED
    BY <2>1, <2>2, <1>2, MultipleTrans
<1>4. ~(d < q)
  <2> SUFFICES ASSUME d < q PROVE FALSE
    OBVIOUS
  <2>1. d + BlockSize[t] <= q
    BY <1>2, <1>3, MultipleApart
  <2> QED
    BY <2>1, <1>1, <1>2
<1> QED
  BY <1>1, <1>2, <1>4

\* What the code takes for the buddy of a whole block is the whole block
\* before it or after it, or the brk.
LEMMA WholeBuddy ==
  ASSUME IInv, NEW p \in blocks, header[p].scale = MaxScale
  PROVE  BuddyOf(p) \in blocks \/ BuddyOf(p) = current_brk
<1>1. PICK m \in Nat \ {0} : m = MaxSize
  BY ScaleAssumption, BlockSizeAssumption DEF Scales, MaxSize
<1>2. SizeOf(p) = m /\ p \in Nat /\ Multiple(p, m) /\ p + m <= current_brk
  <2>1. SizeOf(p) = m /\ p \in Nat
    BY <1>1, Basics DEF SizeOf, MaxSize
  <2> QED
    BY <2>1, Places DEF IInv, Layout, Aligned
<1>3. Multiple(m, m) /\ Multiple(0, 2 * m) /\ current_brk \in Nat
  BY <1>1, MultipleSelf, Places
<1>4. BuddyOf(p) = IF p % (2 * m) # 0 THEN p - m ELSE p + m
  BY <1>2 DEF BuddyOf
<1>5. CASE p % (2 * m) # 0
  <2>1. p # 0
    <3>1. 2 * m \in Nat \ {0}
      BY <1>1
    <3>2. 0 % (2 * m) = 0
      BY <3>1, <1>3, RemainderTest
    <3> QED
      BY <3>2, <1>5
  <2>2. PICK q \in Nat : q = p - m
    <3>1. Multiple(0, m)
      BY <1>1, MultipleSelf
    <3>2. 0 + m <= p
      BY <2>1, <3>1, <1>1, <1>2, MultipleApart
    <3> QED
      BY <3>2, <1>1, <1>2
  <2>3. Multiple(q, m)
    BY <2>2, <1>1, <1>2, <1>3, MultipleSum
  <2>4. q < current_brk
    BY <2>2, <1>1, <1>2, <1>3
  <2> QED
    BY <2>2, <2>3, <2>4, <1>1, <1>4, <1>5, WholeBlockStart
<1>6. CASE p % (2 * m) = 0
  <2>1. PICK q \in Nat : q = p + m
    BY <1>1, <1>2
  <2>2. Multiple(q, m)
    BY <2>1, <1>1, <1>2, <1>3, MultipleSum
  <2>3. q < current_brk \/ q = current_brk
    BY <2>1, <1>2, <1>3
  <2> QED
    BY <2>1, <2>2, <2>3, <1>1, <1>4, <1>6, WholeBlockStart
<1> QED
  BY <1>5, <1>6

\* While free merges, the header it reads is that of a live block, whatever
\* block it merges, except that for a whole block at the end of the heap it
\* reads at the brk; and the header that brk inspects is a live one.
THEOREM HeadersAreRead == Spec => []ReadsAreHeaders
<1>1. ASSUME IInv, pc = "coalesce"
      PROVE  \/ BuddyOf(block) \in blocks
             \/ header[block].scale = MaxScale /\ BuddyOf(block) = current_brk
  <2>1. PICK p \in blocks : p = block
    BY <1>1, Basics DEF Held
  <2>2. header[p].scale < MaxScale \/ header[p].scale = MaxScale
    <3>1. header[p].scale \in Scales
      BY <1>1, Basics
    <3> QED
      BY <3>1, ScaleAssumption DEF Scales
  <2>3. CASE header[p].scale < MaxScale
    BY <1>1, <2>1, <2>3, BuddyIsBlock
  <2>4. CASE header[p].scale = MaxScale
    BY <1>1, <2>1, <2>4, WholeBuddy
  <2> QED
    BY <2>2, <2>3, <2>4
<1>2. ASSUME IInv, pc = "shrink", addr < current_brk PROVE LastBlock \in blocks
  <2>1. /\ addr \in Nat /\ Multiple(addr, MaxSize) /\ Multiple(current_brk, MaxSize)
        /\ current_brk \in Nat /\ MaxSize \in Nat \ {0} /\ MaxScale \in Scales
        /\ MaxSize = BlockSize[MaxScale]
    BY <1>2, Basics, Places DEF IInv, CallInv, Layout, Aligned
  <2>2. addr + MaxSize <= current_brk
    BY <1>2, <2>1, MultipleApart
  <2>3. PICK l \in Nat : l = LastBlock /\ l + MaxSize = current_brk /\ Multiple(l, MaxSize)
    <3>1. Multiple(current_brk - MaxSize, MaxSize)
      <4>1. current_brk \in Int /\ MaxSize \in Int /\ Multiple(MaxSize, MaxSize)
        BY <2>1, MultipleSelf
      <4> QED
        BY <4>1, <2>1, MultipleSum
    <3> QED
      BY <3>1, <2>1, <2>2 DEF LastBlock
  <2>4. PICK d \in blocks : d <= l /\ l < d + SizeOf(d)
    <3>1. l \in 0..(current_brk - 1)
      BY <2>1, <2>3
    <3> QED
      BY <1>2, <3>1 DEF IInv, Layout, Cover
  <2>5. PICK t \in Scales : /\ SizeOf(d) = BlockSize[t] /\ d \in Nat
                            /\ Multiple(d, BlockSize[t]) /\ BlockSize[t] \in Nat \ {0}
    <3>1. PICK t \in Scales : t = header[d].scale /\ SizeOf(d) = BlockSize[t] /\ d \in Nat
      BY <1>2, Basics
    <3>2. Multiple(d, SizeOf(d))
      BY <1>2 DEF IInv, Layout, Aligned
    <3> QED
      BY <3>1, <3>2, SizeType
  <2>6. Multiple(MaxSize, BlockSize[t])
    BY <2>1, SizeMultiple, SizeType DEF Scales
  <2>7. Multiple(l, BlockSize[t])
    BY <2>1, <2>3, <2>5, <2>6, MultipleTrans
  <2>8. ~(d < l)
    <3> SUFFICES ASSUME d < l PROVE FALSE
      OBVIOUS
    <3>1. d + BlockSize[t] <= l
      BY <2>3, <2>5, <2>7, MultipleApart
    <3> QED
      BY <3>1, <2>3, <2>4, <2>5
  <2>9. d = l
    BY <2>3, <2>4, <2>5, <2>8
  <2> QED
    BY <2>3, <2>9
<1>3. IInv => ReadsAreHeaders
  BY <1>1, <1>2 DEF ReadsAreHeaders
<1> QED
  BY <1>3, Invariance, PTL

\* is_free, scale and the free lists of heap.c always agree, through every
\* push, unlink, split and merge.
THEOREM ListsAreExact == Spec => []ListsExact
<1>1. IInv => ListsExact
  BY DEF IInv
<1> QED
  BY <1>1, Invariance, PTL

\* allocate never returns a block smaller than header and request together.
THEOREM GrantsHaveRoom == Spec => []Capacity
<1>1. IInv => Capacity
  BY DEF IInv
<1> QED
  BY <1>1, Invariance, PTL

-----------------------------------------------------------------------------
(* free merges everything that can be merged                               *)

\* Buddies are each other's buddies.
LEMMA BuddyBack ==
  ASSUME NEW a \in Nat, NEW s \in Scales, s + 1 \in Scales, Multiple(a, BlockSize[s])
  PROVE  BuddyAt(BuddyAt(a, s), s) = a
<1>1. /\ BlockSize[s] \in Nat \ {0} /\ BlockSize[s + 1] \in Nat \ {0}
      /\ BlockSize[s + 1] = 2 * BlockSize[s]
  BY BlockSizeAssumption
<1>2. CASE a % BlockSize[s + 1] # 0
  <2>1. Multiple(a - BlockSize[s], BlockSize[s + 1]) /\ a - BlockSize[s] \in Nat
    BY <1>2, BuddyAddress
  <2>2. (a - BlockSize[s]) % BlockSize[s + 1] = 0
    BY <2>1, <1>1, RemainderTest
  <2>3. (a - BlockSize[s]) + BlockSize[s] = a
    BY <1>1
  <2> QED
    BY <1>2, <2>2, <2>3 DEF BuddyAt
<1>3. CASE a % BlockSize[s + 1] = 0
  <2>1. Multiple(a, BlockSize[s + 1])
    BY <1>3, BuddyAddress
  <2>2. (a + BlockSize[s]) % BlockSize[s + 1] # 0
    <3> SUFFICES ASSUME (a + BlockSize[s]) % BlockSize[s + 1] = 0 PROVE FALSE
      OBVIOUS
    <3>1. a + BlockSize[s] \in Nat /\ a < a + BlockSize[s]
      BY <1>1
    <3>2. Multiple(a + BlockSize[s], BlockSize[s + 1])
      BY <3>1, <1>1, RemainderTest
    <3>3. a + BlockSize[s + 1] <= a + BlockSize[s]
      BY <2>1, <3>1, <3>2, <1>1, MultipleApart
    <3> QED
      BY <3>3, <1>1
  <2>3. (a + BlockSize[s]) - BlockSize[s] = a
    BY <1>1
  <2> QED
    BY <1>3, <2>2, <2>3 DEF BuddyAt
<1> QED
  BY <1>2, <1>3

\* No two free blocks are buddies.  Unlike FullyMerged, this holds in the
\* middle of calls too: the block that is split or merged is not free.
NoFreeBuddies ==
    \A b, c \in blocks :
        (/\ header[b].is_free /\ header[c].is_free
         /\ header[b].scale = header[c].scale /\ header[b].scale < MaxScale)
        => c # BuddyOf(b)

\* What buddies of a block below the largest scale have in common.
LEMMA BuddyFacts ==
  ASSUME IInv, NEW b \in blocks, header[b].scale < MaxScale
  PROVE  /\ header[b].scale \in Scales /\ header[b].scale + 1 \in Scales
         /\ BuddyOf(b) = BuddyAt(b, header[b].scale)
         /\ b \in Nat /\ Multiple(b, BlockSize[header[b].scale])
         /\ BuddyAt(BuddyAt(b, header[b].scale), header[b].scale) = b
<1>1. b \in Nat /\ header[b].scale \in Scales /\ SizeOf(b) = BlockSize[header[b].scale]
  BY Basics
<1>2. header[b].scale + 1 \in Scales
  BY <1>1, ScaleAssumption DEF Scales
<1>3. Multiple(b, BlockSize[header[b].scale])
  BY <1>1 DEF IInv, Layout, Aligned
<1>4. BuddyOf(b) = BuddyAt(b, header[b].scale)
  BY <1>1, <1>2, BuddyIsHalf
<1> QED
  BY <1>1, <1>2, <1>3, <1>4, BuddyBack

\* A step after which no more blocks are free keeps them apart.
LEMMA FewerFree ==
  ASSUME NoFreeBuddies,
         \A b \in blocks' : header'[b].is_free /\ header'[b].scale < MaxScale =>
             b \in blocks /\ header[b].is_free /\ header[b].scale = header'[b].scale
  PROVE  NoFreeBuddies'
<1> SUFFICES ASSUME NEW b \in blocks', NEW c \in blocks',
                    header'[b].is_free, header'[c].is_free,
                    header'[b].scale = header'[c].scale, header'[b].scale < MaxScale,
                    c = BuddyOf(b)'
             PROVE  FALSE
  BY DEF NoFreeBuddies
<1>1. /\ b \in blocks /\ header[b].is_free /\ header[b].scale = header'[b].scale
      /\ c \in blocks /\ header[c].is_free /\ header[c].scale = header'[c].scale
  OBVIOUS
<1>2. BuddyOf(b)' = BuddyOf(b)
  BY <1>1 DEF BuddyOf, SizeOf
<1> QED
  BY <1>1, <1>2 DEF NoFreeBuddies

\* The upper half that a split lists has the lower half, which the call
\* holds, as its buddy.
LEMMA SplitKeepsApart ==
  ASSUME IInv, IInv', NoFreeBuddies, Split
  PROVE  NoFreeBuddies'
<1>1. PICK p \in blocks : p = block /\ ~header[p].is_free
  BY Basics DEF Split, Held
<1>2. PICK s : s = header[p].scale - 1
  OBVIOUS
<1>3. PICK n : n = p + BlockSize[s]
  OBVIOUS
<1>4. /\ header' = [b \in blocks \cup {n} |->
                      IF b = n THEN [is_free |-> TRUE, scale |-> s]
                      ELSE IF b = p THEN [header[b] EXCEPT !.scale = s]
                      ELSE header[b]]
      /\ block' = p /\ pc' = "split"
  BY <1>1, <1>2, <1>3 DEF Split, UpperHalf
<1>5. blocks' = blocks \cup {n}
  BY <1>4 DEF blocks
<1>6. ~header'[p].is_free /\ p \in blocks'
  BY <1>1, <1>4, <1>5, Basics DEF IInv, Held, ListsExact
<1>7. n # p /\ header'[n] = [is_free |-> TRUE, scale |-> s]
  BY <1>4, <1>6
<1>8. \A b \in blocks' \ {p, n} : b \in blocks /\ header'[b] = header[b]
  BY <1>4, <1>5
<1>9. header[p] \in Header
  BY DEF IInv, TypeOK
<1>10. header'[p].scale = s
  BY <1>4, <1>5, <1>6, <1>7, <1>9 DEF Header
\* The lower half starts where the whole did.
<1>11. s + 1 \in Scales /\ s \in Scales /\ BuddyAt(p, s) = n /\ BuddyAt(n, s) = p
  <2>1. header[p].scale \in Scales /\ SizeOf(p) = BlockSize[header[p].scale] /\ p \in Nat
    BY Basics
  <2>2. s + 1 \in Scales /\ s + 1 = header[p].scale
    BY <1>2, <2>1, SizeType
  <2>3. s \in Scales
    <3>1. header'[p].scale \in Scales
      BY <1>5, Basics DEF IInv, TypeOK, Header
    <3> QED
      BY <3>1, <1>10
  <2>4. Multiple(p, BlockSize[s + 1]) /\ Multiple(p, BlockSize[s])
    <3>1. Multiple(p, BlockSize[s + 1])
      BY <2>1, <2>2 DEF IInv, Layout, Aligned
    <3>2. Multiple(BlockSize[s + 1], BlockSize[s])
      BY <2>2, <2>3, SizeMultiple, SizeType
    <3> QED
      BY <3>1, <3>2, <2>1, <2>2, <2>3, SizeType, MultipleTrans
  <2>5. p % BlockSize[s + 1] = 0
    BY <2>1, <2>2, <2>4, SizeType, RemainderTest
  <2>6. BuddyAt(p, s) = n
    BY <1>3, <2>5 DEF BuddyAt
  <2> QED
    BY <2>1, <2>2, <2>3, <2>4, <2>6, BuddyBack
<1> SUFFICES ASSUME NEW b \in blocks', NEW c \in blocks',
                    header'[b].is_free, header'[c].is_free,
                    header'[b].scale = header'[c].scale, header'[b].scale < MaxScale,
                    c = BuddyOf(b)'
             PROVE  FALSE
  BY DEF NoFreeBuddies
<1>12. b # p /\ c # p
  BY <1>6
<1>13. BuddyOf(b)' = BuddyAt(b, header'[b].scale)
       /\ BuddyAt(BuddyAt(b, header'[b].scale), header'[b].scale) = b
  <2>1. /\ b \in Nat /\ header'[b].scale \in Scales
        /\ SizeOf(b)' = BlockSize[header'[b].scale] /\ Multiple(b, SizeOf(b)')
    BY DEF IInv, TypeOK, Layout, Aligned, Header, SizeOf
  <2>2. header'[b].scale + 1 \in Scales
    BY <2>1, ScaleAssumption DEF Scales
  <2>3. BuddyOf(b)' = BuddyAt(b, header'[b].scale)
    <3>1. BlockSize[header'[b].scale + 1] = 2 * BlockSize[header'[b].scale]
      BY <2>1, <2>2, BlockSizeAssumption
    <3> QED
      BY <2>1, <3>1 DEF BuddyOf, BuddyAt
  <2> QED
    BY <2>1, <2>2, <2>3, BuddyBack
<1>14. CASE b = n
  BY <1>7, <1>11, <1>12, <1>13, <1>14
<1>15. CASE c = n
  <2>1. BuddyAt(n, s) = b
    BY <1>7, <1>13, <1>15
  <2> QED
    BY <2>1, <1>11, <1>12
<1>16. CASE b # n /\ c # n
  <2>1. b \in blocks /\ c \in blocks /\ header'[b] = header[b] /\ header'[c] = header[c]
    BY <1>8, <1>12, <1>16
  <2>2. BuddyOf(b)' = BuddyOf(b)
    BY <2>1 DEF BuddyOf, SizeOf
  <2> QED
    BY <2>1, <2>2 DEF NoFreeBuddies
<1> QED
  BY <1>14, <1>15, <1>16

\* The merging loop ends only when the buddy is in use, split, or a whole
\* block, so that the block it lists has no free buddy.
LEMMA CoalesceReturnKeepsApart ==
  ASSUME IInv, NoFreeBuddies, CoalesceReturn
  PROVE  NoFreeBuddies'
<1>1. PICK p \in blocks : p = block /\ ~header[p].is_free
  BY Basics DEF CoalesceReturn, Held
<1>2. header' = [header EXCEPT ![p].is_free = TRUE]
  BY <1>1 DEF CoalesceReturn
<1>3. /\ blocks' = blocks
      /\ \A b \in blocks : header'[b].scale = header[b].scale
      /\ \A b \in blocks \ {p} : header'[b] = header[b]
  <2>1. DOMAIN header' = blocks /\ \A b \in blocks \ {p} : header'[b] = header[b]
    BY <1>2 DEF blocks
  <2>2. header[p] \in Header /\ header'[p] = [header[p] EXCEPT !.is_free = TRUE]
    BY <1>2 DEF IInv, TypeOK, blocks
  <2>3. header'[p].scale = header[p].scale
    BY <2>2 DEF Header
  <2> QED
    BY <2>1, <2>3 DEF blocks
<1>4. header[p].scale < MaxScale =>
        ~(header[BuddyOf(p)].is_free /\ header[BuddyOf(p)].scale = header[p].scale)
  <2> SUFFICES ASSUME header[p].scale < MaxScale
               PROVE  ~(header[BuddyOf(p)].is_free /\ header[BuddyOf(p)].scale = header[p].scale)
    OBVIOUS
  <2>2. \E h \in HeadersAt(BuddyOf(p)) : ~CanMerge(h, header[p].scale)
    BY <1>1 DEF CoalesceReturn
  <2>3. HeadersAt(BuddyOf(p)) = {header[BuddyOf(p)]}
    BY BuddyIsBlock DEF HeadersAt
  <2> QED
    BY <2>2, <2>3 DEF CanMerge
<1> SUFFICES ASSUME NEW b \in blocks, NEW c \in blocks,
                    header'[b].is_free, header'[c].is_free,
                    header[b].scale = header[c].scale, header[b].scale < MaxScale,
                    c = BuddyOf(b)
             PROVE  FALSE
  BY <1>3 DEF NoFreeBuddies, BuddyOf, SizeOf
<1>5. c # b
  BY BuddyIsBlock
<1>6. CASE b = p
  BY <1>3, <1>4, <1>5, <1>6
<1>7. CASE c = p
  <2>1. BuddyAt(p, header[b].scale) = b
    <3>1. /\ BuddyOf(b) = BuddyAt(b, header[b].scale)
          /\ BuddyAt(BuddyAt(b, header[b].scale), header[b].scale) = b
      BY BuddyFacts
    <3> QED
      BY <3>1, <1>7
  <2>2. BuddyOf(p) = BuddyAt(p, header[p].scale) /\ header[p].scale = header[b].scale
    BY <1>7, BuddyFacts
  <2>3. BuddyOf(p) = b
    BY <2>1, <2>2
  <2> QED
    BY <2>2, <2>3, <1>3, <1>4, <1>5, <1>7
<1>8. CASE b # p /\ c # p
  BY <1>3, <1>8 DEF NoFreeBuddies
<1> QED
  BY <1>6, <1>7, <1>8

LEMMA NextKeepsApart == IInv /\ IInv' /\ NoFreeBuddies /\ [Next]_vars => NoFreeBuddies'
<1> SUFFICES ASSUME IInv, IInv', NoFreeBuddies, [Next]_vars PROVE NoFreeBuddies'
  OBVIOUS
<1>1. ASSUME header' = header PROVE NoFreeBuddies'
  <2>1. blocks' = blocks
    BY <1>1 DEF blocks
  <2> QED
    BY <1>1, <2>1, FewerFree
<1>2. ASSUME NEW size \in Nat, ValidSize(size), NEW b \in blocks, FindFit(size, b)
      PROVE  NoFreeBuddies'
  <2>1. /\ blocks' = blocks /\ ~header'[b].is_free
        /\ \A c \in blocks \ {b} : header'[c] = header[c]
    <3>1. /\ blocks' = blocks /\ \A c \in blocks \ {b} : header'[c] = header[c]
          /\ header'[b] = [is_free |-> FALSE, scale |-> header[b].scale]
      BY <1>2, FindFitFacts, Zenon
    <3> QED
      BY <3>1
  <2>2. ASSUME NEW d \in blocks', header'[d].is_free
        PROVE  d \in blocks /\ header[d].is_free /\ header[d].scale = header'[d].scale
    <3>1. d # b /\ d \in blocks
      BY <2>1, <2>2
    <3>2. header'[d] = header[d]
      BY <2>1, <3>1
    <3> QED
      BY <2>2, <3>1, <3>2
  <2> QED
    BY <2>2, FewerFree
<1>3. ASSUME NEW size \in Requests, AllocateFound(size) PROVE NoFreeBuddies'
  BY <1>2, <1>3, InputAssumption DEF AllocateFound
<1>4. CASE AllocateRetry
  <2>1. ValidSize(request) /\ request \in Nat
    BY <1>4 DEF AllocateRetry, IInv, CallInv, TypeOK
  <2> QED
    BY <1>2, <1>4, <2>1 DEF AllocateRetry
<1>5. CASE Split
  BY <1>5, SplitKeepsApart
<1>6. CASE Grow
  <2>1. header' = [b \in blocks \cup {current_brk} |->
                     IF b = current_brk THEN [is_free |-> TRUE, scale |-> MaxScale]
                     ELSE header[b]]
    BY <1>6 DEF Grow
  <2>2. /\ blocks' = blocks \cup {current_brk} /\ header'[current_brk].scale = MaxScale
        /\ \A b \in blocks \ {current_brk} : header'[b] = header[b]
    BY <2>1 DEF blocks
  <2>3. ~(MaxScale < MaxScale)
    BY ScaleAssumption
  <2> QED
    BY <2>2, <2>3, FewerFree
<1>7. CASE Shrink
  BY <1>7, FewerFree DEF Shrink, blocks
<1>8. CASE Coalesce
  <2>1. PICK c, g, s : header' = [b \in (blocks \cup {c}) \ {g} |->
                                   IF b = c THEN [is_free |-> FALSE, scale |-> s]
                                   ELSE header[b]]
    BY <1>8 DEF Coalesce
  <2> QED
    BY <2>1, FewerFree DEF blocks
<1>9. CASE CoalesceReturn
  BY <1>9, CoalesceReturnKeepsApart
<1> QED
  BY <1>1, <1>3, <1>4, <1>5, <1>6, <1>7, <1>8, <1>9
  DEF Next, Call, Step, vars, AllocateInvalid, AllocateGrow, Sbrk, FreeNull, FreeListed, Free,
      AllocateReturn, GrowReturn, ShrinkReturn, ShrinkFail, BrkReturn

\* At every step of every call, no two free blocks are buddies.
THEOREM FreeBlocksAreApart == Spec => []NoFreeBuddies
<1>1. Init => NoFreeBuddies
  BY DEF Init, NoFreeBuddies, blocks
<1> QED
  BY <1>1, NextKeepsApart, InitInv, NextInv, PTL DEF Spec

\* Between calls a heap in which nothing is owned is all whole blocks: of the
\* smallest blocks, were they not whole, two would be free and buddies.
THEOREM FreeMergesAll == Spec => []FullyMerged
<1>1. ASSUME IInv, NoFreeBuddies, pc = "ready", DOMAIN granted = {}
      PROVE  \A b \in blocks : header[b].scale = MaxScale
  <2> DEFINE low == {header[b].scale : b \in {c \in blocks : header[c].scale < MaxScale}}
  <2>1. low = {}
    <3> SUFFICES ASSUME low # {} PROVE FALSE
      OBVIOUS
    <3>1. \A b \in blocks : header[b].is_free /\ header[b].scale \in Nat
      BY <1>1, Basics, SizeType DEF IInv, ListsExact, Held
    <3>2. low \subseteq Nat
      BY <3>1
    <3>3. PICK s \in low : \A t \in low : s <= t
      <4> HIDE DEF low
      <4> QED
        BY <3>2, Smallest
    <3>4. PICK b \in blocks : header[b].scale = s /\ s < MaxScale
      OBVIOUS
    <3>5. /\ BuddyOf(b) \in blocks /\ header[BuddyOf(b)].scale <= s
          /\ header[BuddyOf(b)].scale \in Nat /\ s \in Nat /\ MaxScale \in Nat
      BY <1>1, <3>1, <3>4, BuddyIsBlock, ScaleAssumption
    <3>6. header[BuddyOf(b)].scale \in low
      BY <3>4, <3>5
    <3>7. header[BuddyOf(b)].scale = s
      <4> HIDE DEF low
      <4> QED
        BY <3>3, <3>5, <3>6
    <3> QED
      BY <1>1, <3>1, <3>4, <3>5, <3>7 DEF NoFreeBuddies
  <2>2. \A b \in blocks : header[b].scale <= MaxScale /\ header[b].scale \in Nat
    <3>1. \A b \in blocks : header[b].scale \in Scales
      BY <1>1, Basics
    <3> QED
      BY <3>1, ScaleAssumption DEF Scales
  <2>3. \A b \in blocks : ~(header[b].scale < MaxScale)
    BY <2>1
  <2> HIDE DEF low
  <2> QED
    BY <2>2, <2>3, ScaleAssumption
<1>2. IInv /\ NoFreeBuddies => FullyMerged
  BY <1>1 DEF FullyMerged, NoFreeBuddies
<1> QED
  BY <1>2, Invariance, FreeBlocksAreApart, PTL

-----------------------------------------------------------------------------
(* The steps of the allocator are steps of HeapContract                    *)

\* What callers see is bounded by what was asked for and by the heap's limit.
CallerInv ==
    /\ current_brk <= HeapLimit
    /\ pc = "grow" => addr <= HeapLimit
    /\ pc = "coalesce" => caller = "free"
    /\ pc = "split" \/ (pc = "grow" /\ caller = "allocate") => request \in Requests

LEMMA InitCallerInv == Init => CallerInv
BY InputAssumption, HeaderAssumption DEF Init, CallerInv, MaxSize

\* The growing loop stops at its argument, a whole number of blocks.
LEMMA NextCallerInv ==
  ASSUME IInv, CallerInv, [Next]_vars
  PROVE  CallerInv'
<1>1. /\ current_brk \in Nat /\ MaxSize \in Nat \ {0} /\ HeapLimit \in Nat
  BY Basics, InputAssumption DEF IInv, TypeOK
<1>2. CASE Grow
  <2>1. addr \in Nat /\ Multiple(addr, MaxSize) /\ Multiple(current_brk, MaxSize)
        /\ current_brk < addr /\ addr <= HeapLimit
    BY <1>1, <1>2 DEF Grow, IInv, CallInv, Layout, Aligned, CallerInv
  <2>2. current_brk + MaxSize <= addr
    BY <1>1, <2>1, MultipleApart
  <2>3. current_brk + MaxSize <= HeapLimit
    BY <1>1, <2>1, <2>2
  <2> QED
    BY <1>2, <2>3 DEF Grow, CallerInv
<1>3. CASE Shrink
  <2>1. current_brk' <= HeapLimit
    BY <1>1, <1>3 DEF Shrink, LastBlock, CallerInv
  <2> QED
    BY <1>3, <2>1 DEF Shrink, CallerInv
<1>4. CASE UNCHANGED vars
  BY <1>4 DEF vars, CallerInv
<1>5. CASE \E size \in Requests :
             AllocateInvalid(size) \/ AllocateFound(size) \/ AllocateGrow(size)
  BY <1>5 DEF AllocateInvalid, AllocateFound, AllocateGrow, Return, CallerInv
<1>6. CASE \E inc \in Increments : Sbrk(inc)
  BY <1>6 DEF Sbrk, Return, CallerInv
<1>7. CASE FreeNull \/ \E b \in blocks : FreeListed(b) \/ Free(b)
  BY <1>7 DEF FreeNull, FreeListed, Free, Return, CallerInv
<1>8. CASE Split
  BY <1>8 DEF Split, CallerInv
<1>9. CASE AllocateReturn \/ AllocateRetry
  BY <1>9 DEF AllocateReturn, AllocateRetry, Grant, Return, CallerInv
<1>10. CASE GrowReturn \/ ShrinkReturn \/ ShrinkFail
  BY <1>10 DEF GrowReturn, ShrinkReturn, ShrinkFail, BrkReturn, Return, CallerInv
<1>11. CASE Coalesce
  BY <1>11 DEF Coalesce, CallerInv
<1>12. CASE CoalesceReturn
  BY <1>12 DEF CoalesceReturn, Return, CallerInv
<1> QED
  BY <1>2, <1>3, <1>4, <1>5, <1>6, <1>7, <1>8, <1>9, <1>10, <1>11, <1>12
     DEF Next, Call, Step

\* The memory callers own, as HeapContract sees it.
Regions == [p \in {DataOf(b) : b \in DOMAIN granted} |-> granted[p - HeaderSize]]
Freeing == pc \in {"coalesce", "shrink"} /\ caller = "free"
Seen == <<Regions, Freeing, ret>>

LEMMA RegionsAre ==
  ASSUME IInv
  PROVE  /\ DOMAIN Regions = {DataOf(b) : b \in DOMAIN granted}
         /\ \A b \in DOMAIN granted : Regions[DataOf(b)] = granted[b]
<1>1. \A b \in DOMAIN granted : DataOf(b) - HeaderSize = b
  BY HeaderAssumption DEF IInv, TypeOK, DataOf
<1> QED
  BY <1>1 DEF Regions

\* A block handed to a caller is a region that meets no other.
LEMMA GrantAllocates ==
  ASSUME IInv, IInv', CallerInv, CallerInv', NEW b \in blocks, request \in Requests,
         b \notin DOMAIN granted, ~Freeing, Grant(b), UNCHANGED current_brk,
         ValidSize(request)
  PROVE  \E size \in Requests, p \in 1..HeapLimit : Contract!Allocate(size, p)
<1>1. /\ b \in Nat /\ HeaderSize \in Nat \ {0} /\ HeapLimit \in Nat /\ current_brk \in Nat
      /\ request \in Nat /\ MaxSize \in Nat
  BY HeaderAssumption, InputAssumption, Basics DEF IInv, TypeOK
<1>2. /\ granted' = [g \in DOMAIN granted \cup {b} |-> IF g = b THEN request ELSE granted[g]]
      /\ ret' = [op |-> "allocate", size |-> request, val |-> DataOf(b)]
      /\ pc' = "ready"
  BY DEF Grant, Return
<1>3. DOMAIN granted' = DOMAIN granted \cup {b}
  BY <1>2
<1>4. /\ b \in blocks' /\ HeaderSize + request <= SizeOf(b)'
      /\ b + SizeOf(b)' <= current_brk' /\ SizeOf(b)' \in Nat
      /\ DOMAIN granted \subseteq blocks'
  <2>1. DOMAIN granted' \subseteq blocks' /\ granted'[b] = request
    BY <1>2 DEF IInv, ListsExact
  <2>2. SizeOf(b)' = BlockSize[header'[b].scale] /\ header'[b].scale \in Scales
    BY <1>3, <2>1 DEF IInv, TypeOK, Header, SizeOf
  <2> QED
    BY <1>3, <2>1, <2>2, SizeType DEF IInv, Capacity, Layout, Disjoint
<1>5. DataOf(b) \in 1..HeapLimit
  BY <1>1, <1>4 DEF DataOf, CallerInv
<1>6. request \in 1..(MaxSize - HeaderSize)
  BY <1>1 DEF ValidSize
<1>7. ASSUME NEW c \in DOMAIN granted
      PROVE  ~Contract!Overlaps(DataOf(b), request, DataOf(c), Regions[DataOf(c)])
  <2>1. /\ c \in Nat /\ c # b /\ c \in blocks' /\ granted[c] \in Nat
        /\ granted'[c] = granted[c] /\ c \in DOMAIN granted'
    BY <1>2, <1>3, <1>4 DEF IInv, TypeOK
  <2>2. HeaderSize + granted[c] <= SizeOf(c)' /\ SizeOf(c)' \in Nat
    <3>1. SizeOf(c)' = BlockSize[header'[c].scale] /\ header'[c].scale \in Scales
      BY <2>1 DEF IInv, TypeOK, Header, SizeOf
    <3> QED
      BY <2>1, <3>1, SizeType DEF IInv, Capacity
  <2>3. Regions[DataOf(c)] = granted[c]
    BY RegionsAre
  <2>4. b < c => b + SizeOf(b)' <= c
    BY <1>4, <2>1 DEF IInv, Layout, Disjoint
  <2>5. c < b => c + SizeOf(c)' <= b
    BY <1>4, <2>1 DEF IInv, Layout, Disjoint
  <2> QED
    BY <1>1, <1>4, <2>1, <2>2, <2>3, <2>4, <2>5 DEF Contract!Overlaps, DataOf
<1>8. Regions' = [q \in DOMAIN Regions \cup {DataOf(b)} |->
                    IF q = DataOf(b) THEN request ELSE Regions[q]]
  <2>1. {DataOf(c) : c \in DOMAIN granted'} = DOMAIN Regions \cup {DataOf(b)}
    BY <1>3, RegionsAre
  <2>2. ASSUME NEW c \in DOMAIN granted'
        PROVE  granted'[DataOf(c) - HeaderSize] =
                 IF DataOf(c) = DataOf(b) THEN request ELSE Regions[DataOf(c)]
    <3>1. c \in Nat /\ DataOf(c) - HeaderSize = c /\ (DataOf(c) = DataOf(b) => c = b)
      BY <1>1, <1>3 DEF IInv, TypeOK, DataOf
    <3>2. CASE c = b
      BY <1>2, <1>3, <3>1, <3>2
    <3>3. CASE c # b
      BY <1>2, <1>3, <3>1, <3>3, RegionsAre
    <3> QED
      BY <3>2, <3>3
  <2>3. Regions' = [q \in {DataOf(c) : c \in DOMAIN granted'} |-> granted'[q - HeaderSize]]
    BY DEF Regions, DataOf
  <2> QED
    BY <2>1, <2>2, <2>3
<1>9. Freeing' = Freeing
  BY <1>2 DEF Freeing
<1>10. Contract!Allocate(request, DataOf(b))
  BY <1>2, <1>6, <1>7, <1>8, <1>9, RegionsAre DEF Contract!Allocate, Regions, Freeing
<1> QED
  BY <1>5, <1>10

LEMMA FreeReleases ==
  ASSUME IInv, NEW b \in blocks, Free(b)
  PROVE  \E p \in DOMAIN Regions : Contract!Release(p)
<1>1. /\ b \in DOMAIN granted /\ pc = "ready"
      /\ granted' = [g \in DOMAIN granted \ {b} |-> granted[g]]
      /\ pc' = "coalesce" /\ caller' = "free" /\ ret' = ret
  BY DEF Free
<1>2. \A c \in DOMAIN granted : /\ c \in Nat /\ DataOf(c) - HeaderSize = c
                                /\ DataOf(c) = DataOf(b) <=> c = b
  BY <1>1, HeaderAssumption DEF IInv, TypeOK, DataOf
<1>3. Regions' = [q \in DOMAIN Regions \ {DataOf(b)} |-> Regions[q]]
  <2>1. Regions' = [q \in {DataOf(c) : c \in DOMAIN granted'} |-> granted'[q - HeaderSize]]
    BY DEF Regions, DataOf
  <2>2. {DataOf(c) : c \in DOMAIN granted'} = DOMAIN Regions \ {DataOf(b)}
    BY <1>1, <1>2, RegionsAre
  <2>3. ASSUME NEW c \in DOMAIN granted'
        PROVE  granted'[DataOf(c) - HeaderSize] = Regions[DataOf(c)]
    BY <1>1, <1>2, RegionsAre
  <2> QED
    BY <2>1, <2>2, <2>3
<1>4. Contract!Release(DataOf(b))
  BY <1>1, <1>3 DEF Contract!Release, Regions
<1> QED
  BY <1>1, <1>4, RegionsAre

LEMMA SameRegions ==
  ASSUME UNCHANGED granted
  PROVE  Regions' = Regions
BY DEF Regions, DataOf

\* Each step of a call is one step of the contract or none: one where memory
\* changes hands and, of a call that frees, one where it returns.
LEMMA StepImplements ==
  ASSUME IInv, IInv', CallerInv, CallerInv', [Next]_vars
  PROVE  [Contract!Next]_Seen
<1>1. ASSUME NEW size \in Requests, AllocateInvalid(size) PROVE Contract!Next
  <2>1. size \notin 1..(MaxSize - HeaderSize)
    <3>1. size \in Nat /\ MaxSize \in Nat /\ HeaderSize \in Nat
      BY InputAssumption, HeaderAssumption, Basics
    <3> QED
      BY <1>1, <3>1 DEF AllocateInvalid, ValidSize
  <2>2. /\ pc = "ready" /\ pc' = "ready" /\ UNCHANGED granted
        /\ ret' = [op |-> "allocate", size |-> size, val |-> 0]
    BY <1>1 DEF AllocateInvalid, Return
  <2>3. Contract!Refuse(size)
    BY <2>1, <2>2, SameRegions DEF Contract!Refuse, Regions
  <2> QED
    BY <2>3 DEF Contract!Next
<1>2. ASSUME NEW size \in Requests, AllocateFound(size) \/ AllocateGrow(size)
      PROVE  UNCHANGED Seen
  BY <1>2, SameRegions DEF AllocateFound, AllocateGrow, Seen, Freeing
<1>3. ASSUME NEW inc \in Increments, Sbrk(inc) PROVE Contract!Next \/ UNCHANGED Seen
  <2>1. CASE inc = 0
    <3>1. /\ pc = "ready" /\ pc' = "ready" /\ UNCHANGED granted
          /\ ret' = [op |-> "sbrk", val |-> -1]
      BY <1>3, <2>1 DEF Sbrk, Return
    <3>2. Contract!Adjust(-1)
      BY <3>1, SameRegions DEF Contract!Adjust, Regions
    <3> QED
      BY <3>2 DEF Contract!Next
  <2>2. CASE inc # 0
    BY <1>3, <2>2, SameRegions DEF Sbrk, Seen, Freeing
  <2> QED
    BY <2>1, <2>2
<1>4. ASSUME FreeNull \/ \E b \in blocks : FreeListed(b) PROVE Contract!Next
  <2>1. /\ pc = "ready" /\ pc' = "ready" /\ UNCHANGED granted
        /\ ret' = [op |-> "free", val |-> 1]
    BY <1>4 DEF FreeNull, FreeListed, Return
  <2>2. Contract!RefuseFree
    BY <2>1, SameRegions DEF Contract!RefuseFree, Regions
  <2> QED
    BY <2>2 DEF Contract!Next
<1>5. ASSUME NEW b \in blocks, Free(b) PROVE Contract!Next
  BY <1>5, FreeReleases DEF Contract!Next, Regions
<1>6. CASE Split \/ Grow \/ Shrink \/ Coalesce
  BY <1>6, SameRegions DEF Split, Grow, Shrink, Coalesce, Seen, Freeing
<1>7. CASE AllocateReturn
  <2>1. /\ block \in blocks /\ block \notin DOMAIN granted
        /\ pc = "split" /\ ValidSize(request) /\ request \in Requests
    BY <1>7, Basics DEF AllocateReturn, IInv, ListsExact, Held, CallInv, CallerInv
  <2>2. \E size \in Requests, p \in 1..HeapLimit : Contract!Allocate(size, p)
    BY <1>7, <2>1, GrantAllocates DEF AllocateReturn, Freeing
  <2> QED
    BY <2>2 DEF Contract!Next
<1>8. CASE AllocateRetry
  <2>1. PICK b \in blocks : FindFit(request, b) /\ Grant(b)
    BY <1>8 DEF AllocateRetry
  <2>2. /\ pc = "grow" /\ ValidSize(request) /\ request \in Requests /\ request \in Nat
        /\ UNCHANGED current_brk
    BY <1>8 DEF AllocateRetry, IInv, CallInv, CallerInv, TypeOK
  <2>3. header[b].is_free
    BY <2>1, <2>2, FindFitFacts
  <2>4. b \notin DOMAIN granted
    BY <2>3 DEF IInv, ListsExact
  <2>5. \E size \in Requests, p \in 1..HeapLimit : Contract!Allocate(size, p)
    BY <2>1, <2>2, <2>4, GrantAllocates DEF Freeing
  <2> QED
    BY <2>5 DEF Contract!Next
<1>9. CASE GrowReturn \/ ShrinkReturn \/ ShrinkFail
  <2>1. PICK x \in {-1, 0} : BrkReturn(x)
    BY <1>9 DEF GrowReturn, ShrinkReturn, ShrinkFail
  <2>2. pc' = "ready" /\ UNCHANGED granted
    BY <2>1 DEF BrkReturn, Return
  <2>3. CASE caller = "free"
    <3>1. pc = "shrink" /\ ret' = [op |-> "free", val |-> 0]
      BY <1>9, <2>1, <2>3 DEF GrowReturn, ShrinkReturn, ShrinkFail, BrkReturn, Return
    <3>2. Contract!Released
      BY <2>2, <2>3, <3>1, SameRegions DEF Contract!Released, Regions
    <3> QED
      BY <3>2 DEF Contract!Next
  <2>4. CASE caller # "free"
    <3>1. ret' = [op |-> "sbrk", val |-> x]
      BY <2>1, <2>4 DEF BrkReturn, Return
    <3>2. Contract!Adjust(x)
      BY <2>2, <2>4, <3>1, SameRegions DEF Contract!Adjust, Regions
    <3> QED
      BY <3>2 DEF Contract!Next
  <2> QED
    BY <2>3, <2>4
<1>10. CASE CoalesceReturn
  <2>1. pc = "coalesce" /\ caller = "free" /\ UNCHANGED granted
    BY <1>10 DEF CoalesceReturn, CallerInv
  <2>2. CASE pc' = "shrink" /\ UNCHANGED <<caller, ret>>
    BY <2>1, <2>2, SameRegions DEF Seen, Freeing
  <2>3. CASE Return([op |-> "free", val |-> 0])
    <3>1. Contract!Released
      BY <2>1, <2>3, SameRegions DEF Contract!Released, Regions, Return
    <3> QED
      BY <3>1 DEF Contract!Next
  <2> QED
    BY <1>10, <2>2, <2>3 DEF CoalesceReturn
<1>11. CASE UNCHANGED vars
  BY <1>11, SameRegions DEF vars, Seen, Freeing
<1> QED
  BY <1>1, <1>2, <1>3, <1>4, <1>5, <1>6, <1>7, <1>8, <1>9, <1>10, <1>11
     DEF Next, Call, Step

\* Whatever the sequence of calls, allocate and free of heap.c hand out memory
\* as HeapContract says: the part of ImplementsContract that is no liveness.
THEOREM CallsKeepContract == Spec => Contract!Init /\ [][Contract!Next]_Seen
<1>1. Init => CallerInv
  BY InitCallerInv
<1>2. IInv /\ CallerInv /\ [Next]_vars => CallerInv'
  BY NextCallerInv
<1>3. Init => Contract!Init
  <2> SUFFICES ASSUME Init PROVE Contract!Init
    OBVIOUS
  <2>1. Regions = [p \in {} |-> 0]
    BY DEF Init, Regions
  <2>2. Freeing = FALSE
    BY DEF Init, Freeing
  <2> QED
    BY <2>1, <2>2 DEF Init, Contract!Init, Regions, Freeing
<1>4. IInv /\ IInv' /\ CallerInv /\ CallerInv' /\ [Next]_vars => [Contract!Next]_Seen
  BY StepImplements
<1> QED
  BY <1>1, <1>2, <1>3, <1>4, Invariance, PTL DEF Spec
=============================================================================
