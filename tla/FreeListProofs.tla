---------------------------- MODULE FreeListProofs ----------------------------
(***************************************************************************)
(* The pointers of memory/heap.c implement sequences, for every number of  *)
(* blocks and scales, as long as no interrupt comes in the middle of a     *)
(* call.  A sequence for each scale says what the links must be; the       *)
(* statements of an operation break that at one place, and mend it.        *)
(***************************************************************************)
EXTENDS FreeList, SequenceTheorems, FiniteSetTheorems, WellFoundedInduction, TLAPS

-----------------------------------------------------------------------------
(* Links and sequences: L[s] is the list of scale s, nx and pv the links.   *)

Shape(L) ==
    /\ L \in [Scales -> Seq(Blocks)]
    /\ \A s, u \in Scales : \A i \in 1..Len(L[s]), j \in 1..Len(L[u]) :
         L[s][i] = L[u][j] => s = u /\ i = j

In(L, b) == \E s \in Scales : \E i \in 1..Len(L[s]) : L[s][i] = b

\* The node at a place of a list; its head is at place 0.
Place(L, s, i) == IF i = 0 THEN s ELSE L[s][i]

Forward(L, nx) ==
    \A s \in Scales : \A i \in 0..Len(L[s]) :
        nx[Place(L, s, i)] = IF i = Len(L[s]) THEN Place(L, s, i) ELSE L[s][i + 1]

\* Every block but x points back to the node before it.
BackwardBut(L, pv, x) ==
    \A s \in Scales : \A i \in 1..Len(L[s]) :
        L[s][i] # x => pv[L[s][i]] = Place(L, s, i - 1)

Backward(L, pv) == BackwardBut(L, pv, NoBlock)

First(L, s) == L[s][1]

-----------------------------------------------------------------------------
(* The invariant.  With interrupts disabled only the process calls.         *)

point == pc["process"]
call == op["process"]
mine == held["process"]
arg == blk["process"]
head == list["process"]

RemovePoints == {"unlink", "relink", "self prev", "self next", "unmark"}
AddPoints == {"push", "backlink", "link", "prev", "mark"}
Points == RemovePoints \cup AddPoints \cup {"ready", "search", "removed", "added", "merge"}

Typed ==
    /\ next \in [Nodes -> Nodes] /\ prev \in [Nodes -> Nodes]
    /\ is_free \in [Blocks -> BOOLEAN] /\ scale \in [Blocks -> Scales]
    /\ headers \subseteq Blocks /\ grants \in [Blocks -> Int]
    /\ pc \in [Threads -> Points] /\ pc["keyboard"] = "ready"
    /\ op \in [Threads -> {"none", "allocate", "retry", "free", "shrink"}]
    /\ held \in [Threads -> Blocks \cup {NoBlock}]
    /\ blk \in [Threads -> Blocks \cup {NoBlock}]
    /\ list \in [Threads -> Scales] /\ request \in [Threads -> Scales]

\* A block no step is about: in a list and free, or out of all and granted.
Settled(L, x) ==
    IF In(L, x) THEN is_free[x] /\ grants[x] = 0
    ELSE ~is_free[x] /\ next[x] = x /\ prev[x] = x /\ grants[x] = 1

\* A block that the call has taken out of the lists and keeps.
Taken(L, x) ==
    /\ x \in headers /\ ~In(L, x) /\ ~is_free[x] /\ grants[x] = 0
    /\ next[x] = x /\ prev[x] = x

ListsInv(L) ==
    /\ Shape(L) /\ Forward(L, next)
    /\ \A x \in Blocks : In(L, x) => x \in headers
    /\ \A s \in Scales : \A i \in 1..Len(L[s]) : scale[L[s][i]] = s
    /\ \A x \in Blocks \ headers : grants[x] = 0

\* Between which two stores a block points back to a wrong node.
BackInv(L) ==
    /\ point \in {"relink", "link"} => BackwardBut(L, prev, next[arg])
    /\ point = "prev" => BackwardBut(L, prev, arg)
    /\ point \notin {"relink", "link", "prev"} => Backward(L, prev)

Busy ==
    IF point \in RemovePoints \cup AddPoints THEN {arg, mine}
    ELSE IF point = "removed" /\ call = "free" THEN {arg, mine}
    ELSE IF point \in {"merge", "removed"} \/ (point = "added" /\ call = "allocate")
    THEN {mine} ELSE {}

SettledInv(L) == \A x \in headers \ Busy : Settled(L, x)

AddInv(L) ==
    point \in AddPoints =>
        /\ arg \in headers /\ grants[arg] = 0 /\ scale[arg] = head
        /\ point \in {"push", "backlink", "link"} => ~In(L, arg)
        /\ point = "backlink" => L[head] # <<>> /\ next[arg] = First(L, head)
        /\ point = "link" =>
             IF L[head] = <<>> THEN next[arg] = arg
             ELSE next[arg] = First(L, head) /\ prev[First(L, head)] = arg
        /\ point \in {"prev", "mark"} => L[head] # <<>> /\ First(L, head) = arg
        /\ call \in {"allocate", "free", "retry"}
        /\ call = "allocate" => Taken(L, mine) /\ mine # arg
        /\ call = "free" => mine = arg
        /\ call = "retry" => mine = NoBlock

\* What merging two blocks relies on.
Halves(L) ==
    Taken(L, mine) /\ mine # arg /\ scale[mine] = scale[arg] /\ scale[arg] < MaxScale

RemoveInv(L) ==
    point \in RemovePoints =>
        /\ arg \in headers /\ grants[arg] = 0
        /\ point = "unlink" <=> In(L, arg)
        /\ point = "relink" =>
             \E s \in Scales : \E i \in 1..Len(L[s]) :
                 next[arg] = L[s][i] /\ prev[arg] = Place(L, s, i - 1)
        /\ point \in {"self next", "unmark"} => prev[arg] = arg
        /\ point = "unmark" => next[arg] = arg
        /\ call \in {"allocate", "retry", "shrink", "free"}
        /\ call # "free" => mine = arg
        /\ call = "free" => Halves(L)

CallInv(L) ==
    /\ point = "ready" => call = "none" /\ mine = NoBlock
    /\ point = "search" => call \in {"allocate", "retry"} /\ mine = NoBlock
    /\ point = "merge" => call = "free" /\ Taken(L, mine)
    /\ point = "removed" =>
         /\ call \in {"allocate", "retry", "shrink", "free"}
         /\ Taken(L, mine)
         /\ call = "free" => Taken(L, arg) /\ Halves(L)
    /\ point = "added" =>
         /\ call \in {"allocate", "free", "retry"}
         /\ call = "allocate" => Taken(L, mine)
         /\ call = "free" => mine \in headers
         /\ call = "retry" => mine = NoBlock

State(L) ==
    ListsInv(L) /\ BackInv(L) /\ SettledInv(L) /\ AddInv(L) /\ RemoveInv(L) /\ CallInv(L)

FreeListIInv == Typed /\ \E L : State(L)

-----------------------------------------------------------------------------
(* Facts about sequences of blocks.                                        *)

LEMMA NodesAre ==
  /\ Scales \subseteq Nat /\ Scales \cap Blocks = {}
  /\ MinScale \in Scales /\ MaxScale \in Scales
  /\ NoBlock \notin Blocks
<1>1. MinScale \in Nat /\ MaxScale \in Nat /\ MinScale <= MaxScale
  BY FreeListAssumption
<1>2. Scales \subseteq Nat /\ MinScale \in Scales /\ MaxScale \in Scales
  <2>1. ASSUME NEW s \in Scales PROVE s \in Nat
    BY <1>1 DEF Scales
  <2>2. MinScale \in Scales /\ MaxScale \in Scales
    BY <1>1 DEF Scales
  <2> QED
    BY <2>1, <2>2
<1>3. Blocks \cap Nat = {} /\ NoBlock \notin Blocks
  BY FreeListAssumption DEF NoBlock
<1> QED
  BY <1>2, <1>3

LEMMA NextScales ==
  ASSUME NEW s \in Scales
  PROVE  /\ \A r \in Scales : s > r => s - 1 \in Scales
         /\ s < MaxScale => s + 1 \in Scales
<1>1. MinScale \in Nat /\ MaxScale \in Nat
  BY FreeListAssumption
<1> QED
  BY <1>1 DEF Scales

LEMMA ShapeType ==
  ASSUME NEW L, Shape(L), NEW s \in Scales
  PROVE  /\ L[s] \in Seq(Blocks) /\ Len(L[s]) \in Nat /\ DOMAIN L[s] = 1..Len(L[s])
         /\ \A i \in 1..Len(L[s]) : L[s][i] \in Blocks /\ In(L, L[s][i])
<1>1. L[s] \in Seq(Blocks)
  BY DEF Shape
<1>2. Len(L[s]) \in Nat /\ DOMAIN L[s] = 1..Len(L[s])
  BY <1>1, LenProperties
<1>3. ASSUME NEW i \in 1..Len(L[s]) PROVE L[s][i] \in Blocks /\ In(L, L[s][i])
  BY <1>1, ElementOfSeq DEF In
<1> QED
  BY <1>1, <1>2, <1>3

\* No two places hold the same node.
LEMMA Places ==
  ASSUME NEW L, Shape(L), NEW s \in Scales, NEW i \in 0..Len(L[s])
  PROVE  /\ Place(L, s, i) \in Nodes
         /\ Place(L, s, i) \in Blocks <=> i # 0
         /\ i # 0 => In(L, Place(L, s, i))
         /\ \A u \in Scales : \A j \in 0..Len(L[u]) :
              Place(L, s, i) = Place(L, u, j) => s = u /\ i = j
<1>1. \A u \in Scales : \A j \in 0..Len(L[u]) :
        /\ j = 0 => Place(L, u, j) = u /\ u \notin Blocks
        /\ j # 0 => /\ Place(L, u, j) = L[u][j] /\ j \in 1..Len(L[u])
                    /\ L[u][j] \in Blocks /\ In(L, L[u][j])
  <2> SUFFICES ASSUME NEW u \in Scales, NEW j \in 0..Len(L[u])
               PROVE  /\ j = 0 => Place(L, u, j) = u /\ u \notin Blocks
                      /\ j # 0 => /\ Place(L, u, j) = L[u][j] /\ j \in 1..Len(L[u])
                                  /\ L[u][j] \in Blocks /\ In(L, L[u][j])
    OBVIOUS
  <2>1. u \notin Blocks
    BY NodesAre
  <2>2. j # 0 => j \in 1..Len(L[u])
    BY ShapeType
  <2>3. \A k \in 1..Len(L[u]) : L[u][k] \in Blocks /\ In(L, L[u][k])
    BY ShapeType
  <2> QED
    BY <2>1, <2>2, <2>3 DEF Place
<1>2. \A u, v \in Scales : \A k \in 1..Len(L[u]), j \in 1..Len(L[v]) :
        L[u][k] = L[v][j] => u = v /\ k = j
  BY DEF Shape
<1>3. ASSUME NEW u \in Scales, NEW j \in 0..Len(L[u]), Place(L, s, i) = Place(L, u, j)
      PROVE  s = u /\ i = j
  <2>1. CASE i = 0 \/ j = 0
    BY <1>1, <1>3, <2>1
  <2>2. CASE i # 0 /\ j # 0
    BY <1>1, <1>2, <1>3, <2>2
  <2> QED
    BY <2>1, <2>2
<1> QED
  BY <1>1, <1>3 DEF Nodes

\* The links of a block in no list are read by nobody.
LEMMA LinksOutside ==
  ASSUME NEW L, Shape(L), NEW x \in Blocks, ~In(L, x),
         NEW f \in [Nodes -> Nodes], NEW v, NEW g, g = [f EXCEPT ![x] = v]
  PROVE  /\ Forward(L, f) => Forward(L, g)
         /\ \A y : BackwardBut(L, f, y) => BackwardBut(L, g, y)
<1>1. \A s \in Scales : \A i \in 0..Len(L[s]) :
        Place(L, s, i) \in Nodes /\ Place(L, s, i) # x
  BY Places DEF Place
<1>2. \A n \in Nodes : n # x => g[n] = f[n]
  OBVIOUS
<1>3. ASSUME Forward(L, f) PROVE Forward(L, g)
  BY <1>1, <1>2, <1>3, Zenon DEF Forward
<1>4. ASSUME NEW y, BackwardBut(L, f, y) PROVE BackwardBut(L, g, y)
  <2>1. \A s \in Scales : \A i \in 1..Len(L[s]) :
          L[s][i] \in Nodes /\ L[s][i] # x
    BY ShapeType DEF Nodes
  <2>2. ASSUME NEW s \in Scales, NEW i \in 1..Len(L[s]), L[s][i] # y
        PROVE  g[L[s][i]] = Place(L, s, i - 1)
    <3>1. g[L[s][i]] = f[L[s][i]]
      BY <2>1, <1>2
    <3>2. f[L[s][i]] = Place(L, s, i - 1)
      BY <1>4, <2>2 DEF BackwardBut
    <3> QED
      BY <3>1, <3>2
  <2> QED
    BY <2>2 DEF BackwardBut
<1> QED
  BY <1>3, <1>4

-----------------------------------------------------------------------------
(* Adding a block at the head of a list.                                   *)

Added(L, M, b, s) == M = [L EXCEPT ![s] = Cons(b, @)]

LEMMA AddedFacts ==
  ASSUME NEW L, Shape(L), NEW s \in Scales, NEW b \in Blocks, ~In(L, b),
         NEW M, Added(L, M, b, s)
  PROVE  /\ \A u \in Scales : u # s => M[u] = L[u]
         /\ Len(M[s]) = Len(L[s]) + 1
         /\ M[s][1] = b /\ \A i \in 1..Len(L[s]) : M[s][i + 1] = L[s][i]
         /\ Shape(M)
         /\ \A x : In(M, x) <=> In(L, x) \/ x = b
<1> DEFINE n == Len(L[s])
<1>1. L[s] \in Seq(Blocks) /\ n \in Nat /\ <<b>> \in Seq(Blocks) /\ Len(<<b>>) = 1
  BY ShapeType
<1>2. /\ M[s] = <<b>> \o L[s]
      /\ \A u \in Scales : u # s => M[u] = L[u]
      /\ M \in [Scales -> Seq(Blocks)]
  <2>1. <<b>> \o L[s] \in Seq(Blocks)
    BY <1>1
  <2>2. L \in [Scales -> Seq(Blocks)]
    BY DEF Shape
  <2> QED
    BY <2>1, <2>2 DEF Added, Cons
<1>3. /\ Len(M[s]) = n + 1 /\ M[s][1] = b
      /\ \A i \in 1..n : M[s][i + 1] = L[s][i]
  <2>1. /\ Len(M[s]) = 1 + n
        /\ \A i \in 1..(1 + n) : M[s][i] = IF i <= 1 THEN <<b>>[i] ELSE L[s][i - 1]
    BY <1>1, <1>2, ConcatProperties
  <2>2. M[s][1] = b
    <3>1. 1 \in 1..(1 + n) /\ 1 <= 1
      BY <1>1
    <3>2. M[s][1] = <<b>>[1]
      BY <3>1, <2>1
    <3> QED
      BY <3>2
  <2>3. ASSUME NEW i \in 1..n PROVE M[s][i + 1] = L[s][i]
    <3>1. i + 1 \in 1..(1 + n) /\ ~(i + 1 <= 1) /\ (i + 1) - 1 = i
      BY <1>1
    <3> QED
      BY <3>1, <2>1
  <2> QED
    BY <1>1, <2>1, <2>2, <2>3
<1>4. ASSUME NEW u \in Scales, NEW i \in 1..Len(M[u])
      PROVE  \/ u = s /\ i = 1 /\ M[u][i] = b
             \/ u = s /\ i # 1 /\ i - 1 \in 1..Len(L[u]) /\ M[u][i] = L[u][i - 1]
             \/ u # s /\ i \in 1..Len(L[u]) /\ M[u][i] = L[u][i]
  <2>1. CASE u = s /\ i # 1
    <3>1. i - 1 \in 1..n /\ (i - 1) + 1 = i
      BY <1>1, <1>3, <2>1
    <3> QED
      BY <3>1, <1>3, <2>1
  <2> QED
    BY <2>1, <1>2, <1>3
<1>5. \A u \in Scales : \A i \in 1..Len(L[u]) : L[u][i] # b
  BY DEF In
<1>6. \A u, v \in Scales : \A i \in 1..Len(L[u]), j \in 1..Len(L[v]) :
        L[u][i] = L[v][j] => u = v /\ i = j
  BY DEF Shape
<1>7. Shape(M)
  <2>1. ASSUME NEW u \in Scales, NEW v \in Scales,
               NEW i \in 1..Len(M[u]), NEW j \in 1..Len(M[v]), M[u][i] = M[v][j]
        PROVE  u = v /\ i = j
    <3>1. CASE M[u][i] = b
      BY <3>1, <1>4, <1>5, <2>1
    <3>2. CASE M[u][i] # b
      <4>1. u = v
        BY <3>2, <1>4, <1>6, <2>1
      <4>2. i = j
        <5>1. CASE u = s
          <6>1. i - 1 = j - 1
            BY <5>1, <4>1, <3>2, <1>4, <1>6, <2>1
          <6>2. i \in Int /\ j \in Int
            OBVIOUS
          <6> QED
            BY <6>1, <6>2
        <5>2. CASE u # s
          BY <5>2, <4>1, <3>2, <1>4, <1>6, <2>1
        <5> QED
          BY <5>1, <5>2
      <4> QED
        BY <4>1, <4>2
    <3> QED
      BY <3>1, <3>2
  <2> QED
    BY <1>2, <2>1 DEF Shape
<1>8. ASSUME NEW x PROVE In(M, x) <=> In(L, x) \/ x = b
  <2>1. ASSUME In(M, x) PROVE In(L, x) \/ x = b
    <3>1. PICK u \in Scales : \E i \in 1..Len(M[u]) : M[u][i] = x
      BY <2>1 DEF In
    <3>2. PICK i \in 1..Len(M[u]) : M[u][i] = x
      BY <3>1
    <3> QED
      BY <3>2, <1>4 DEF In
  <2>2. ASSUME x = b PROVE In(M, x)
    <3>1. 1 \in 1..Len(M[s])
      BY <1>1, <1>3
    <3> QED
      BY <3>1, <1>3, <2>2 DEF In
  <2>3. ASSUME In(L, x) PROVE In(M, x)
    <3>1. PICK u \in Scales : \E i \in 1..Len(L[u]) : L[u][i] = x
      BY <2>3 DEF In
    <3>2. PICK i \in 1..Len(L[u]) : L[u][i] = x
      BY <3>1
    <3>3. CASE u = s
      <4>1. i + 1 \in 1..Len(M[s]) /\ M[s][i + 1] = x
        BY <3>2, <3>3, <1>1, <1>3
      <4> QED
        BY <4>1 DEF In
    <3>4. CASE u # s
      BY <3>2, <3>4, <1>2 DEF In
    <3> QED
      BY <3>3, <3>4
  <2> QED
    BY <2>1, <2>2, <2>3
<1> QED
  BY <1>2, <1>3, <1>7, <1>8

\* The store of `list->next` makes the block the first of the list.
LEMMA LinkForward ==
  ASSUME NEW L, Shape(L), NEW s \in Scales, NEW b \in Blocks, ~In(L, b),
         NEW M, Added(L, M, b, s),
         NEW nx \in [Nodes -> Nodes], Forward(L, nx),
         nx[b] = IF L[s] = <<>> THEN b ELSE L[s][1],
         NEW mx, mx = [nx EXCEPT ![s] = b]
  PROVE  Forward(M, mx)
<1> DEFINE n == Len(L[s])
<1>1. /\ \A u \in Scales : u # s => M[u] = L[u]
      /\ Len(M[s]) = n + 1 /\ M[s][1] = b
      /\ \A i \in 1..n : M[s][i + 1] = L[s][i]
  BY AddedFacts
<1>2. n \in Nat /\ (L[s] = <<>> <=> n = 0)
  BY ShapeType, EmptySeq
<1>3. mx[s] = b /\ \A x \in Nodes : x # s => mx[x] = nx[x]
  BY DEF Nodes
<1>4. ASSUME NEW u \in Scales, NEW i \in 0..Len(M[u])
      PROVE  mx[Place(M, u, i)] = IF i = Len(M[u]) THEN Place(M, u, i) ELSE M[u][i + 1]
  <2>1. CASE u # s
    <3>1. i \in 0..Len(L[u]) /\ Place(M, u, i) = Place(L, u, i)
      BY <1>1, <2>1 DEF Place
    <3>2. Place(L, u, i) \in Nodes /\ Place(L, u, i) # s
      <4>1. 0 \in 0..Len(L[s]) /\ Place(L, s, 0) = s
        BY <1>2 DEF Place
      <4> QED
        BY <4>1, <3>1, <2>1, Places
    <3>3. nx[Place(L, u, i)] = IF i = Len(L[u]) THEN Place(L, u, i) ELSE L[u][i + 1]
      BY <3>1 DEF Forward
    <3> QED
      BY <3>1, <3>2, <3>3, <1>1, <1>3, <2>1
  <2>2. CASE u = s /\ i = 0
    <3>1. i # Len(M[s]) /\ i + 1 = 1
      BY <1>1, <1>2, <2>2
    <3> QED
      BY <2>2, <3>1, <1>1, <1>3 DEF Place
  <2>3. CASE u = s /\ i = 1
    <3>1. Place(M, u, i) = b /\ b \in Nodes /\ b # s
      BY <2>3, <1>1, NodesAre DEF Place, Nodes
    <3>2. mx[b] = nx[b]
      BY <3>1, <1>3
    <3>3. CASE n = 0
      BY <2>3, <3>1, <3>2, <3>3, <1>1, <1>2
    <3>4. CASE n # 0
      <4>1. 1 \in 1..n /\ i # Len(M[u])
        BY <3>4, <1>1, <1>2, <2>3
      <4>2. M[u][i + 1] = L[s][1]
        BY <4>1, <1>1, <2>3
      <4> QED
        BY <4>1, <4>2, <3>1, <3>2, <3>4, <1>2
    <3> QED
      BY <3>3, <3>4
  <2>4. CASE u = s /\ i \notin {0, 1}
    <3>1. PICK j \in 1..n : i = j + 1
      <4>1. i - 1 \in 1..n /\ i = (i - 1) + 1
        BY <1>1, <1>2, <2>4
      <4> QED
        BY <4>1
    <3>2. Place(M, u, i) = L[s][j] /\ Place(L, s, j) = L[s][j] /\ j \in 0..n
      BY <3>1, <1>1, <1>2, <2>4 DEF Place
    <3>3. L[s][j] \in Nodes /\ L[s][j] # s
      BY ShapeType, NodesAre DEF Nodes
    <3>4. nx[L[s][j]] = IF j = n THEN L[s][j] ELSE L[s][j + 1]
      BY <3>2 DEF Forward
    <3>5. ASSUME j # n PROVE M[s][i + 1] = L[s][j + 1]
      <4>1. j + 1 \in 1..n /\ i + 1 = (j + 1) + 1
        BY <3>1, <3>5, <1>2
      <4> QED
        BY <4>1, <1>1
    <3>6. i = Len(M[u]) <=> j = n
      BY <3>1, <1>1, <1>2, <2>4
    <3> QED
      BY <3>2, <3>3, <3>4, <3>5, <3>6, <1>3, <2>4
  <2> QED
    BY <2>1, <2>2, <2>3, <2>4
<1> QED
  BY <1>4 DEF Forward

\* Until then only the back link of the old first block was wrong, if at all.
LEMMA LinkBackward ==
  ASSUME NEW L, Shape(L), NEW s \in Scales, NEW b \in Blocks, ~In(L, b),
         NEW M, Added(L, M, b, s),
         NEW pv, NEW y, BackwardBut(L, pv, y),
         L[s] # <<>> => y = L[s][1] /\ pv[L[s][1]] = b,
         L[s] = <<>> => ~In(L, y)
  PROVE  BackwardBut(M, pv, b)
<1> DEFINE n == Len(L[s])
<1>1. /\ \A u \in Scales : u # s => M[u] = L[u]
      /\ Len(M[s]) = n + 1 /\ M[s][1] = b
      /\ \A i \in 1..n : M[s][i + 1] = L[s][i]
  BY AddedFacts
<1>2. n \in Nat /\ (L[s] = <<>> <=> n = 0)
  BY ShapeType, EmptySeq
<1>3. \A u \in Scales : \A i \in 1..Len(L[u]) :
        u # s => L[u][i] # y
  <2> SUFFICES ASSUME NEW u \in Scales, NEW i \in 1..Len(L[u]), u # s
               PROVE  L[u][i] # y
    OBVIOUS
  <2>1. CASE n = 0
    BY <2>1, <1>2, ShapeType
  <2>2. CASE n # 0
    <3>1. 1 \in 1..n /\ y = L[s][1]
      BY <2>2, <1>2
    <3> QED
      BY <3>1 DEF Shape
  <2> QED
    BY <2>1, <2>2
<1>4. ASSUME NEW u \in Scales, NEW i \in 1..Len(M[u]), M[u][i] # b
      PROVE  pv[M[u][i]] = Place(M, u, i - 1)
  <2>1. CASE u # s
    <3>1. i \in 1..Len(L[u]) /\ M[u][i] = L[u][i] /\ L[u][i] # y
      BY <1>1, <1>3, <2>1
    <3>2. pv[L[u][i]] = Place(L, u, i - 1)
      BY <3>1 DEF BackwardBut
    <3> QED
      BY <3>1, <3>2, <1>1, <2>1 DEF Place
  <2>2. CASE u = s
    <3>1. PICK j \in 1..n : i = j + 1
      <4>1. i # 1
        BY <1>1, <1>4, <2>2
      <4>2. i - 1 \in 1..n /\ i = (i - 1) + 1
        BY <4>1, <1>1, <1>2, <2>2
      <4> QED
        BY <4>2
    <3>2. M[u][i] = L[s][j] /\ i - 1 = j /\ j # 0
      BY <3>1, <1>1, <2>2
    <3>3. CASE j = 1
      <4>1. pv[L[s][1]] = b /\ Place(M, u, i - 1) = b
        BY <3>2, <3>3, <1>1, <1>2, <2>2 DEF Place
      <4> QED
        BY <4>1, <3>2, <3>3
    <3>4. CASE j # 1
      <4>1. j - 1 \in 1..n /\ (j - 1) + 1 = j /\ 1 \in 1..n /\ j - 1 # 0
        BY <3>4, <1>2
      <4>2. L[s][j] # y
        <5>1. y = L[s][1]
          BY <4>1, <1>2
        <5>2. L[s][j] # L[s][1]
          BY <3>4, <4>1 DEF Shape
        <5> QED
          BY <5>1, <5>2
      <4>3. pv[L[s][j]] = L[s][j - 1]
        BY <4>1, <4>2 DEF BackwardBut, Place
      <4>4. Place(M, u, i - 1) = L[s][j - 1]
        BY <4>1, <3>2, <1>1, <2>2 DEF Place
      <4> QED
        BY <4>3, <4>4, <3>2
    <3> QED
      BY <3>3, <3>4
  <2> QED
    BY <2>1, <2>2
<1> QED
  BY <1>4 DEF BackwardBut

\* The store of the one back link that is wrong.
LEMMA MendBackward ==
  ASSUME NEW L, Shape(L), NEW s \in Scales, NEW i \in 1..Len(L[s]),
         NEW pv \in [Nodes -> Nodes], BackwardBut(L, pv, L[s][i]),
         NEW qv, qv = [pv EXCEPT ![L[s][i]] = Place(L, s, i - 1)]
  PROVE  Backward(L, qv)
<1>1. ASSUME NEW u \in Scales, NEW j \in 1..Len(L[u])
      PROVE  qv[L[u][j]] = Place(L, u, j - 1)
  <2>1. L[u][j] \in Nodes /\ L[s][i] \in Nodes
    BY ShapeType DEF Nodes
  <2>2. CASE L[u][j] = L[s][i]
    <3>1. u = s /\ j = i
      BY <2>2 DEF Shape
    <3> QED
      BY <3>1, <2>1
  <2>3. CASE L[u][j] # L[s][i]
    BY <2>1, <2>3 DEF BackwardBut
  <2> QED
    BY <2>2, <2>3
<1> QED
  BY <1>1 DEF Backward, BackwardBut

-----------------------------------------------------------------------------
(* Removing a block from its list.                                         *)

Removed(L, M, s, i) == M = [L EXCEPT ![s] = RemoveAt(@, i)]

LEMMA RemovedFacts ==
  ASSUME NEW L, Shape(L), NEW s \in Scales, NEW i \in 1..Len(L[s]),
         NEW M, Removed(L, M, s, i)
  PROVE  /\ \A u \in Scales : u # s => M[u] = L[u]
         /\ Len(M[s]) = Len(L[s]) - 1
         /\ \A j \in 1..(i - 1) : M[s][j] = L[s][j]
         /\ \A j \in i..(Len(L[s]) - 1) : M[s][j] = L[s][j + 1]
         /\ Shape(M)
         /\ \A x : In(M, x) <=> In(L, x) /\ x # L[s][i]
<1> DEFINE n == Len(L[s])
           left == SubSeq(L[s], 1, i - 1)
           right == SubSeq(L[s], i + 1, n)
<1>1. /\ L[s] \in Seq(Blocks) /\ n \in Nat /\ i \in 1..n
      /\ \A j \in 1..n : L[s][j] \in Blocks
  BY ShapeType
<1>2. /\ left \in Seq(Blocks) /\ Len(left) = i - 1
      /\ \A j \in 1..(i - 1) : left[j] = L[s][j]
  <2>1. 1 \in Int /\ i - 1 \in Int /\ \A j \in 1..(i - 1) : L[s][j] \in Blocks
    BY <1>1
  <2>2. /\ left \in Seq(Blocks)
        /\ Len(left) = IF 1 <= i - 1 THEN (i - 1) - 1 + 1 ELSE 0
        /\ \A j \in 1..((i - 1) - 1 + 1) : left[j] = L[s][1 + j - 1]
    BY <2>1, SubSeqProperties
  <2> HIDE DEF left
  <2>3. Len(left) = i - 1
    BY <1>1, <2>2
  <2>4. ASSUME NEW j \in 1..(i - 1) PROVE left[j] = L[s][j]
    <3>1. j \in 1..((i - 1) - 1 + 1) /\ 1 + j - 1 = j
      BY <1>1
    <3>2. left[j] = L[s][1 + j - 1]
      BY <2>2, <3>1
    <3> QED
      BY <3>1, <3>2
  <2> QED
    BY <2>2, <2>3, <2>4
<1>3. /\ right \in Seq(Blocks) /\ Len(right) = n - i
      /\ \A j \in 1..(n - i) : right[j] = L[s][i + j]
  <2>1. i + 1 \in Int /\ n \in Int /\ \A j \in (i + 1)..n : L[s][j] \in Blocks
    BY <1>1
  <2>2. /\ right \in Seq(Blocks)
        /\ Len(right) = IF i + 1 <= n THEN n - (i + 1) + 1 ELSE 0
        /\ \A j \in 1..(n - (i + 1) + 1) : right[j] = L[s][(i + 1) + j - 1]
    BY <2>1, SubSeqProperties
  <2> HIDE DEF right
  <2>3. Len(right) = n - i
    BY <1>1, <2>2
  <2>4. ASSUME NEW j \in 1..(n - i) PROVE right[j] = L[s][i + j]
    <3>1. j \in 1..(n - (i + 1) + 1) /\ (i + 1) + j - 1 = i + j
      BY <1>1
    <3>2. right[j] = L[s][(i + 1) + j - 1]
      BY <2>2, <3>1
    <3> QED
      BY <3>1, <3>2
  <2> QED
    BY <2>2, <2>3, <2>4
<1>4. /\ M[s] = left \o right
      /\ \A u \in Scales : u # s => M[u] = L[u]
      /\ M \in [Scales -> Seq(Blocks)]
  <2>1. left \o right \in Seq(Blocks)
    BY <1>2, <1>3, ConcatProperties
  <2>2. L \in [Scales -> Seq(Blocks)]
    BY DEF Shape
  <2> QED
    BY <2>1, <2>2 DEF Removed, RemoveAt
<1> HIDE DEF left, right
<1>5. /\ Len(M[s]) = n - 1
      /\ \A j \in 1..(i - 1) : M[s][j] = L[s][j]
      /\ \A j \in i..(n - 1) : M[s][j] = L[s][j + 1]
  <2>1. /\ Len(M[s]) = Len(left) + Len(right)
        /\ \A j \in 1..(Len(left) + Len(right)) :
             M[s][j] = IF j <= Len(left) THEN left[j] ELSE right[j - Len(left)]
    <3>1. PICK c : c = left \o right
      OBVIOUS
    <3>2. /\ Len(c) = Len(left) + Len(right)
          /\ \A j \in 1..(Len(left) + Len(right)) :
               c[j] = IF j <= Len(left) THEN left[j] ELSE right[j - Len(left)]
      BY <1>2, <1>3, <3>1, ConcatProperties
    <3> QED
      BY <3>1, <3>2, <1>4
  <2>2. Len(left) + Len(right) = n - 1
    BY <1>1, <1>2, <1>3
  <2>3. ASSUME NEW j \in 1..(i - 1) PROVE M[s][j] = L[s][j]
    <3>1. j \in 1..(n - 1) /\ j <= Len(left)
      BY <1>1, <1>2
    <3> QED
      BY <2>1, <2>2, <3>1, <1>2
  <2>4. ASSUME NEW j \in i..(n - 1) PROVE M[s][j] = L[s][j + 1]
    <3>1. j \in 1..(n - 1) /\ ~(j <= i - 1)
      BY <1>1
    <3>2. M[s][j] = right[j - (i - 1)]
      BY <2>1, <2>2, <3>1, <1>2
    <3>3. j - (i - 1) \in 1..(n - i) /\ i + (j - (i - 1)) = j + 1
      BY <1>1
    <3>4. right[j - (i - 1)] = L[s][i + (j - (i - 1))]
      BY <3>3, <1>3
    <3> QED
      BY <3>2, <3>3, <3>4
  <2> QED
    BY <2>1, <2>2, <2>3, <2>4
<1> DEFINE up(u, j) == IF u = s /\ j >= i THEN j + 1 ELSE j
<1>6. ASSUME NEW u \in Scales, NEW j \in 1..Len(M[u])
      PROVE  up(u, j) \in 1..Len(L[u]) /\ M[u][j] = L[u][up(u, j)] /\ (u = s => up(u, j) # i)
  <2>1. CASE u = s /\ j >= i
    <3>1. j \in i..(n - 1) /\ j + 1 \in 1..n /\ j + 1 # i
      BY <1>1, <1>5, <2>1
    <3> QED
      BY <3>1, <1>5, <2>1
  <2>2. CASE u = s /\ ~(j >= i)
    <3>1. j \in 1..(i - 1) /\ j \in 1..n /\ j # i
      BY <1>1, <1>5, <2>2
    <3> QED
      BY <3>1, <1>5, <2>2
  <2>3. CASE u # s
    BY <1>4, <2>3
  <2> QED
    BY <2>1, <2>2, <2>3
<1>7. Shape(M)
  <2>1. ASSUME NEW u \in Scales, NEW v \in Scales,
               NEW j \in 1..Len(M[u]), NEW k \in 1..Len(M[v]), M[u][j] = M[v][k]
        PROVE  u = v /\ j = k
    <3>1. /\ up(u, j) \in 1..Len(L[u]) /\ M[u][j] = L[u][up(u, j)]
          /\ up(v, k) \in 1..Len(L[v]) /\ M[v][k] = L[v][up(v, k)]
      BY <1>6
    <3>2. u = v /\ up(u, j) = up(v, k)
      <4>1. PICK a \in 1..Len(L[u]), b \in 1..Len(L[v]) : a = up(u, j) /\ b = up(v, k)
        BY <3>1
      <4>2. L[u][a] = L[v][b]
        BY <4>1, <3>1, <2>1
      <4>3. u = v /\ a = b
        BY <4>2 DEF Shape
      <4> QED
        BY <4>1, <4>3
    <3> QED
      BY <3>2, <1>1
  <2> QED
    BY <1>4, <2>1 DEF Shape
<1>8. ASSUME NEW x PROVE In(M, x) <=> In(L, x) /\ x # L[s][i]
  <2>1. ASSUME In(M, x) PROVE In(L, x) /\ x # L[s][i]
    <3>1. PICK u \in Scales : \E j \in 1..Len(M[u]) : M[u][j] = x
      BY <2>1 DEF In
    <3>2. PICK j \in 1..Len(M[u]) : M[u][j] = x
      BY <3>1
    <3>3. PICK k \in 1..Len(L[u]) : x = L[u][k] /\ (u = s => k # i)
      BY <3>2, <1>6
    <3>4. x # L[s][i]
      BY <3>3 DEF Shape
    <3> QED
      BY <3>3, <3>4 DEF In
  <2>2. ASSUME In(L, x), x # L[s][i] PROVE In(M, x)
    <3>1. PICK u \in Scales : \E j \in 1..Len(L[u]) : L[u][j] = x
      BY <2>2 DEF In
    <3>2. PICK j \in 1..Len(L[u]) : L[u][j] = x
      BY <3>1
    <3>3. CASE u # s
      BY <3>2, <3>3, <1>4 DEF In
    <3>4. CASE u = s /\ j < i
      <4>1. j \in 1..(i - 1) /\ j \in 1..Len(M[s])
        BY <3>4, <1>1, <1>5
      <4> QED
        BY <4>1, <3>2, <3>4, <1>5 DEF In
    <3>5. CASE u = s /\ j > i
      <4>1. j - 1 \in i..(n - 1) /\ j - 1 \in 1..Len(M[s]) /\ (j - 1) + 1 = j
        BY <3>5, <1>1, <1>5
      <4>2. M[s][j - 1] = x
        BY <4>1, <3>2, <3>5, <1>5
      <4> QED
        BY <4>1, <4>2 DEF In
    <3> QED
      BY <3>2, <3>3, <3>4, <3>5, <2>2
  <2> QED
    BY <2>1, <2>2
<1> QED
  BY <1>4, <1>5, <1>7, <1>8

LEMMA RemovedScales ==
  ASSUME NEW L, Shape(L), NEW s \in Scales, NEW i \in 1..Len(L[s]),
         NEW M, Removed(L, M, s, i),
         NEW sc, \A u \in Scales : \A j \in 1..Len(L[u]) : sc[L[u][j]] = u
  PROVE  \A u \in Scales : \A j \in 1..Len(M[u]) : sc[M[u][j]] = u
<1> DEFINE n == Len(L[s])
<1>1. /\ \A u \in Scales : u # s => M[u] = L[u]
      /\ Len(M[s]) = n - 1
      /\ \A j \in 1..(i - 1) : M[s][j] = L[s][j]
      /\ \A j \in i..(n - 1) : M[s][j] = L[s][j + 1]
      /\ n \in Nat /\ i \in 1..n
  BY RemovedFacts, ShapeType
<1> HIDE DEF n
<1>2. ASSUME NEW j \in 1..Len(M[s]) PROVE sc[M[s][j]] = s
  <2>1. CASE j < i
    <3>1. j \in 1..(i - 1) /\ j \in 1..n
      BY <2>1, <1>1
    <3> QED
      BY <3>1, <1>1 DEF n
  <2>2. CASE j >= i
    <3>1. j \in i..(n - 1) /\ j + 1 \in 1..n
      BY <2>2, <1>1
    <3> QED
      BY <3>1, <1>1 DEF n
  <2> QED
    BY <2>1, <2>2, <1>1
<1> QED
  BY <1>1, <1>2

\* The one store by which the node before the block points past it.
LEMMA UnlinkForward ==
  ASSUME NEW L, Shape(L), NEW s \in Scales, NEW i \in 1..Len(L[s]),
         NEW M, Removed(L, M, s, i),
         NEW nx \in [Nodes -> Nodes], Forward(L, nx),
         NEW before, before = Place(L, s, i - 1),
         NEW mx, mx = [nx EXCEPT ![before] =
                         IF i = Len(L[s]) THEN before ELSE L[s][i + 1]]
  PROVE  Forward(M, mx)
<1> DEFINE n == Len(L[s])
<1>1. /\ \A u \in Scales : u # s => M[u] = L[u]
      /\ Len(M[s]) = n - 1
      /\ \A j \in 1..(i - 1) : M[s][j] = L[s][j]
      /\ \A j \in i..(n - 1) : M[s][j] = L[s][j + 1]
  BY RemovedFacts
<1>2. n \in Nat /\ i \in 1..n /\ i - 1 \in 0..n
  BY ShapeType
<1>3. before \in Nodes
  BY <1>2, Places
<1>4. /\ mx[before] = IF i = n THEN before ELSE L[s][i + 1]
      /\ \A x \in Nodes : x # before => mx[x] = nx[x]
  BY <1>3
<1>5. ASSUME NEW u \in Scales, NEW j \in 0..Len(L[u]), ~(u = s /\ j = i - 1)
      PROVE  mx[Place(L, u, j)] = IF j = Len(L[u]) THEN Place(L, u, j) ELSE L[u][j + 1]
  <2>1. Place(L, u, j) \in Nodes /\ Place(L, u, j) # before
    BY <1>2, <1>5, Places
  <2>2. nx[Place(L, u, j)] = IF j = Len(L[u]) THEN Place(L, u, j) ELSE L[u][j + 1]
    BY DEF Forward
  <2> QED
    BY <2>1, <2>2, <1>4
<1>6. ASSUME NEW u \in Scales, NEW j \in 0..Len(M[u])
      PROVE  mx[Place(M, u, j)] = IF j = Len(M[u]) THEN Place(M, u, j) ELSE M[u][j + 1]
  <2>1. CASE u # s
    <3>1. j \in 0..Len(L[u]) /\ Place(M, u, j) = Place(L, u, j)
      BY <1>1, <2>1 DEF Place
    <3> QED
      BY <3>1, <1>1, <1>5, <2>1
  <2>2. CASE u = s /\ j < i - 1
    <3>1. j \in 0..n /\ j + 1 \in 1..(i - 1) /\ j # n /\ j # n - 1
      BY <1>1, <1>2, <2>2
    <3>2. Place(M, s, j) = Place(L, s, j)
      <4>1. j = 0 \/ j \in 1..(i - 1)
        BY <2>2, <1>2
      <4> QED
        BY <4>1, <1>1 DEF Place
    <3>3. mx[Place(L, s, j)] = L[s][j + 1]
      BY <3>1, <1>5, <2>2
    <3>4. M[s][j + 1] = L[s][j + 1]
      BY <3>1, <1>1
    <3> QED
      BY <3>1, <3>2, <3>3, <3>4, <1>1, <2>2
  <2>3. CASE u = s /\ j = i - 1
    <3>1. Place(M, s, j) = before
      <4>1. j = 0 \/ j \in 1..(i - 1)
        BY <2>3, <1>2
      <4> QED
        BY <4>1, <2>3, <1>1 DEF Place
    <3>2. j = Len(M[s]) <=> i = n
      BY <2>3, <1>1, <1>2
    <3>3. ASSUME i # n PROVE M[s][j + 1] = L[s][i + 1]
      <4>1. j + 1 = i /\ i \in i..(n - 1)
        BY <2>3, <1>2, <3>3
      <4> QED
        BY <4>1, <1>1
    <3> QED
      BY <3>1, <3>2, <3>3, <1>4, <2>3
  <2>4. CASE u = s /\ j > i - 1
    <3>1. /\ j \in i..(n - 1) /\ j + 1 \in 0..n /\ j + 1 # i - 1 /\ j # 0
          /\ (j = n - 1 <=> j + 1 = n) /\ j + 1 # 0
      <4>1. j \in 0..(n - 1)
        BY <2>4, <1>1
      <4> HIDE DEF n
      <4> QED
        BY <4>1, <2>4, <1>2
    <3>2. Place(M, s, j) = Place(L, s, j + 1)
      BY <3>1, <1>1 DEF Place
    <3>3. mx[Place(L, s, j + 1)] = IF j + 1 = n THEN Place(L, s, j + 1) ELSE L[s][(j + 1) + 1]
      BY <3>1, <1>5
    <3>4. ASSUME j # n - 1 PROVE M[s][j + 1] = L[s][(j + 1) + 1]
      <4>1. j + 1 \in i..(n - 1)
        BY <3>1, <3>4, <1>2
      <4> QED
        BY <4>1, <1>1
    <3> QED
      BY <3>1, <3>2, <3>3, <3>4, <1>1, <2>4
  <2> QED
    BY <2>1, <2>2, <2>3, <2>4, <1>2
<1> QED
  BY <1>6 DEF Forward

\* After it the block that came next, if any, points back to the removed one.
LEMMA UnlinkBackward ==
  ASSUME NEW L, Shape(L), NEW s \in Scales, NEW i \in 1..Len(L[s]),
         NEW M, Removed(L, M, s, i), NEW pv, Backward(L, pv),
         NEW y, i = Len(L[s]) => y \notin Blocks, i # Len(L[s]) => y = L[s][i + 1]
  PROVE  /\ BackwardBut(M, pv, y)
         /\ i # Len(L[s]) =>
              /\ i \in 1..Len(M[s])
              /\ M[s][i] = L[s][i + 1] /\ Place(M, s, i - 1) = Place(L, s, i - 1)
<1> DEFINE n == Len(L[s])
<1>1. /\ \A u \in Scales : u # s => M[u] = L[u]
      /\ Len(M[s]) = n - 1
      /\ \A j \in 1..(i - 1) : M[s][j] = L[s][j]
      /\ \A j \in i..(n - 1) : M[s][j] = L[s][j + 1]
  BY RemovedFacts
<1>2. n \in Nat /\ i \in 1..n /\ i - 1 \in 0..n
  BY ShapeType
<1>3. \A u \in Scales : \A j \in 1..Len(L[u]) : pv[L[u][j]] = Place(L, u, j - 1)
  <2>1. \A u \in Scales : \A j \in 1..Len(L[u]) : L[u][j] # NoBlock
    BY ShapeType, NodesAre
  <2> QED
    BY <2>1 DEF Backward, BackwardBut
<1>4. Place(M, s, i - 1) = Place(L, s, i - 1)
  <2>1. i - 1 = 0 \/ i - 1 \in 1..(i - 1)
    BY <1>2
  <2> QED
    BY <2>1, <1>1 DEF Place
<1>5. ASSUME NEW u \in Scales, NEW j \in 1..Len(M[u]), M[u][j] # y
      PROVE  pv[M[u][j]] = Place(M, u, j - 1)
  <2>1. CASE u # s
    BY <2>1, <1>1, <1>3 DEF Place
  <2>2. CASE u = s /\ j < i
    <3>1. j \in 1..(i - 1) /\ j \in 1..n /\ (j - 1 = 0 \/ j - 1 \in 1..(i - 1))
      BY <2>2, <1>1, <1>2
    <3>2. Place(M, s, j - 1) = Place(L, s, j - 1)
      BY <3>1, <1>1 DEF Place
    <3> QED
      BY <3>1, <3>2, <1>1, <1>3, <2>2
  <2>3. CASE u = s /\ j = i
    <3>1. i # n /\ i \in i..(n - 1)
      BY <2>3, <1>1, <1>2
    <3> QED
      BY <3>1, <2>3, <1>1, <1>5
  <2>4. CASE u = s /\ j > i
    <3>1. /\ j \in i..(n - 1) /\ j + 1 \in 1..n /\ (j + 1) - 1 = j /\ j # 0
          /\ j - 1 \in i..(n - 1) /\ j - 1 # 0 /\ (j - 1) + 1 = j
      BY <2>4, <1>1, <1>2
    <3>2. M[s][j] = L[s][j + 1] /\ Place(M, s, j - 1) = L[s][j]
      BY <3>1, <1>1 DEF Place
    <3>3. pv[L[s][j + 1]] = L[s][j]
      BY <3>1, <1>3 DEF Place
    <3> QED
      BY <3>2, <3>3, <2>4
  <2> QED
    BY <2>1, <2>2, <2>3, <2>4, <1>2
<1>6. ASSUME i # n PROVE i \in 1..Len(M[s]) /\ M[s][i] = L[s][i + 1]
  <2>1. i \in i..(n - 1) /\ i \in 1..(n - 1)
    BY <1>2, <1>6
  <2> QED
    BY <2>1, <1>1
<1> QED
  BY <1>4, <1>5, <1>6 DEF BackwardBut

-----------------------------------------------------------------------------
(* What a walk from the head of a list meets.                              *)

\* Walk, of any links.
WalkFrom(nx, s) ==
    LET first[n \in 0..Cardinality(Blocks)] ==
          IF n = 0 THEN <<>>
          ELSE LET met == first[n - 1]
                   last == IF met = <<>> THEN s ELSE met[Len(met)]
               IN  IF nx[last] = last THEN met ELSE Append(met, nx[last])
    IN  first[Cardinality(Blocks)]

\* A non-empty set of naturals has a smallest element.
LEMMA Least ==
  ASSUME NEW S \in SUBSET Nat, S # {}
  PROVE  \E n \in S : \A m \in S : n <= m
<1>1. PICK n \in S : \A m \in S : ~(<<m, n>> \in OpToRel(<, Nat))
  BY NatLessThanWellFounded, WFMin
<1>2. ASSUME NEW m \in S PROVE n <= m
  <2>1. m \in Nat /\ n \in Nat
    OBVIOUS
  <2>2. ~(m < n)
    BY <1>1, <2>1 DEF OpToRel
  <2> QED
    BY <2>1, <2>2
<1> QED
  BY <1>2

\* No list is longer than there are blocks.
LEMMA ListFits ==
  ASSUME NEW L, Shape(L), NEW s \in Scales
  PROVE  Cardinality(Blocks) \in Nat /\ Len(L[s]) <= Cardinality(Blocks)
<1>1. IsFiniteSet(Blocks)
  BY FreeListAssumption
<1>2. L[s] \in Seq(Blocks) /\ Len(L[s]) \in Nat /\ DOMAIN L[s] = 1..Len(L[s])
  BY ShapeType
<1>3. L[s] \in Injection(1..Len(L[s]), Blocks)
  <2>1. L[s] \in [1..Len(L[s]) -> Blocks]
    BY <1>2, LenProperties
  <2>2. \A i, j \in 1..Len(L[s]) : L[s][i] = L[s][j] => i = j
    BY DEF Shape
  <2> QED
    BY <2>1, <2>2 DEF Injection, IsInjective
<1>4. Cardinality(1..Len(L[s])) <= Cardinality(Blocks)
  BY <1>1, <1>3, FS_Injection
<1>5. Cardinality(1..Len(L[s])) = Len(L[s])
  <2>1. Cardinality(1..Len(L[s])) = IF 1 > Len(L[s]) THEN 0 ELSE Len(L[s]) - 1 + 1
    BY <1>2, FS_Interval
  <2> QED
    BY <2>1, <1>2
<1>6. Cardinality(Blocks) \in Nat
  BY <1>1, FS_CardinalityType
<1> QED
  BY <1>4, <1>5, <1>6

LEMMA WalkMeetsList ==
  ASSUME NEW L, Shape(L), NEW nx, Forward(L, nx), NEW s \in Scales
  PROVE  WalkFrom(nx, s) = L[s]
<1> DEFINE c == Cardinality(Blocks)
           k == Len(L[s])
           Min2(n) == IF n <= k THEN n ELSE k
           After(met) == LET last == IF met = <<>> THEN s ELSE met[Len(met)]
                         IN  IF nx[last] = last THEN met ELSE Append(met, nx[last])
           Step(f) == [n \in 0..c |-> IF n = 0 THEN <<>> ELSE After(f[n - 1])]
           first == CHOOSE f : f = Step(f)
           g == [n \in 0..c |-> SubSeq(L[s], 1, Min2(n))]
<1>1. c \in Nat /\ k \in Nat /\ k <= c /\ L[s] \in Seq(Blocks)
  BY ListFits, ShapeType
<1>2. ASSUME NEW m \in 0..k
      PROVE  /\ SubSeq(L[s], 1, m) \in Seq(Blocks) /\ Len(SubSeq(L[s], 1, m)) = m
             /\ m # 0 => SubSeq(L[s], 1, m)[m] = L[s][m]
  <2>1. m \in Int /\ 1 \in Int /\ \A i \in 1..m : L[s][i] \in Blocks
    BY <1>1, ShapeType
  <2>2. /\ SubSeq(L[s], 1, m) \in Seq(Blocks)
        /\ Len(SubSeq(L[s], 1, m)) = IF 1 <= m THEN m - 1 + 1 ELSE 0
        /\ \A i \in 1..(m - 1 + 1) : SubSeq(L[s], 1, m)[i] = L[s][1 + i - 1]
    BY <2>1, SubSeqProperties
  <2>3. Len(SubSeq(L[s], 1, m)) = m
    BY <2>2
  <2>4. ASSUME m # 0 PROVE SubSeq(L[s], 1, m)[m] = L[s][m]
    <3>1. m \in 1..(m - 1 + 1) /\ 1 + m - 1 = m
      BY <2>4
    <3>2. SubSeq(L[s], 1, m)[m] = L[s][1 + m - 1]
      BY <2>2, <3>1
    <3> QED
      BY <3>1, <3>2
  <2> QED
    BY <2>2, <2>3, <2>4
<1>3. ASSUME NEW n \in 1..c
      PROVE  After(SubSeq(L[s], 1, Min2(n - 1))) = SubSeq(L[s], 1, Min2(n))
  <2>1. PICK m \in 0..k : m = Min2(n - 1)
    BY <1>1
  <2>2. PICK met : met = SubSeq(L[s], 1, m)
    OBVIOUS
  <2>3. met \in Seq(Blocks) /\ Len(met) = m /\ (m # 0 => met[m] = L[s][m])
    BY <1>2, <2>2
  <2>4. met = <<>> <=> m = 0
    BY <2>3, EmptySeq
  <2>5. PICK last : last = IF met = <<>> THEN s ELSE met[Len(met)]
    OBVIOUS
  <2>6. last = Place(L, s, m)
    BY <2>3, <2>4, <2>5 DEF Place
  <2>7. nx[last] = IF m = k THEN last ELSE L[s][m + 1]
    BY <2>6 DEF Forward
  <2>8. After(met) = IF nx[last] = last THEN met ELSE Append(met, nx[last])
    BY <2>5
  <2> HIDE DEF After
  <2>9. CASE m = k
    <3>1. Min2(n) = k
      BY <2>1, <2>9, <1>1
    <3> QED
      BY <3>1, <2>1, <2>2, <2>7, <2>8, <2>9
  <2>10. CASE m # k
    <3>1. m = n - 1 /\ Min2(n) = m + 1 /\ m + 1 \in 1..k /\ (m + 1) - 1 = m
      BY <2>1, <2>10, <1>1
    <3>2. L[s][m + 1] # last
      <4>1. m + 1 \in 0..k /\ Place(L, s, m + 1) = L[s][m + 1] /\ m + 1 # m
        BY <3>1 DEF Place
      <4> QED
        BY <4>1, <2>6, Places
    <3>3. After(met) = Append(met, L[s][m + 1])
      BY <3>2, <2>7, <2>8, <2>10
    <3>4. SubSeq(L[s], 1, m + 1) = SubSeq(L[s], 1, m) \o <<L[s][m + 1]>>
      <4>1. 1 \in 1..k /\ m + 1 \in 1..k
        BY <3>1
      <4>2. SubSeq(L[s], 1, m + 1) = SubSeq(L[s], 1, (m + 1) - 1) \o <<L[s][m + 1]>>
        BY <4>1, <1>1, SubSeqRecursiveSecond
      <4> QED
        BY <4>2, <3>1
    <3>5. Append(met, L[s][m + 1]) = met \o <<L[s][m + 1]>>
      <4>1. L[s][m + 1] \in Blocks
        BY <3>1, ShapeType
      <4> QED
        BY <4>1, <2>3, AppendIsConcat
    <3> QED
      BY <3>1, <3>3, <3>4, <3>5, <2>1, <2>2
  <2> QED
    BY <2>9, <2>10
<1>4. g = Step(g)
  <2>1. ASSUME NEW n \in 0..c PROVE g[n] = IF n = 0 THEN <<>> ELSE After(g[n - 1])
    <3>1. CASE n = 0
      <4>1. Min2(0) = 0
        BY <1>1
      <4>2. SubSeq(L[s], 1, 0) = <<>>
        BY SubSeqEmpty
      <4> QED
        BY <3>1, <4>1, <4>2
    <3>2. CASE n # 0
      <4>1. n \in 1..c /\ n - 1 \in 0..c
        BY <3>2, <1>1
      <4>2. g[n - 1] = SubSeq(L[s], 1, Min2(n - 1))
        BY <4>1
      <4>3. g[n] = SubSeq(L[s], 1, Min2(n))
        OBVIOUS
      <4> HIDE DEF g, After, Min2
      <4> QED
        BY <3>2, <4>1, <4>2, <4>3, <1>3
    <3> QED
      BY <3>1, <3>2
  <2>2. \A n \in 0..c : g[n] = Step(g)[n]
    BY <2>1
  <2> QED
    BY <2>2
<1>5. first = Step(first)
  <2> HIDE DEF Step
  <2> QED
    BY <1>4
<1>6. first = g
  <2> HIDE DEF first, After, Min2
  <2>0. first = [n \in 0..c |-> IF n = 0 THEN <<>> ELSE After(first[n - 1])]
    BY <1>5
  <2>1. first[0] = <<>> /\ \A n \in 1..c : first[n] = After(first[n - 1])
    BY <2>0, <1>1
  <2>2. g[0] = <<>> /\ \A n \in 1..c : g[n] = After(g[n - 1])
    <3>1. PICK h : h = g
      OBVIOUS
    <3>2. h = [n \in 0..c |-> IF n = 0 THEN <<>> ELSE After(h[n - 1])]
      BY <1>4, <3>1
    <3>3. h[0] = <<>> /\ \A n \in 1..c : h[n] = After(h[n - 1])
      BY <3>2, <1>1
    <3> QED
      BY <3>1, <3>3
  <2> DEFINE Bad == {n \in 0..c : first[n] # g[n]}
  <2>3. Bad = {}
    <3> SUFFICES ASSUME Bad # {} PROVE FALSE
      OBVIOUS
    <3>1. PICK m \in Bad : \A n \in Bad : m <= n
      <4>1. Bad \in SUBSET Nat
        OBVIOUS
      <4> HIDE DEF Bad
      <4> QED
        BY <4>1, Least
    <3>2. m \in 0..c /\ first[m] # g[m]
      OBVIOUS
    <3>3. m # 0
      BY <3>2, <2>1, <2>2
    <3>4. m \in 1..c /\ m - 1 \in 0..c /\ m - 1 \notin Bad
      <4>1. m \in 1..c /\ m - 1 \in 0..c /\ ~(m <= m - 1)
        BY <3>2, <3>3, <1>1
      <4> HIDE DEF Bad
      <4> QED
        BY <4>1, <3>1
    <3>5. first[m - 1] = g[m - 1]
      BY <3>4
    <3> QED
      BY <3>2, <3>4, <3>5, <2>1, <2>2
  <2>4. \A n \in 0..c : first[n] = g[n]
    BY <2>3
  <2> QED
    BY <2>0, <2>4
<1>7. WalkFrom(nx, s) = first[c]
  BY DEF WalkFrom
<1>8. g[c] = L[s]
  <2>1. Min2(c) = k
    BY <1>1
  <2>2. SubSeq(L[s], 1, k) = L[s]
    BY <1>1, SubSeqFull
  <2>3. c \in 0..c
    BY <1>1
  <2>4. g[c] = SubSeq(L[s], 1, Min2(c))
    BY <2>3
  <2> QED
    BY <2>1, <2>2, <2>4
<1> QED
  BY <1>6, <1>7, <1>8, Zenon

LEMMA ListsAre ==
  ASSUME NEW L, Shape(L)
  PROVE  /\ Forward(L, next) => lists = L
         /\ Forward(L, next') => lists' = L
<1>1. L = [s \in Scales |-> L[s]]
  BY DEF Shape
<1>2. \A s \in Scales : Walk(s) = WalkFrom(next, s)
  BY DEF Walk, WalkFrom, is_end_of_list
<1>3. \A s \in Scales : Walk(s)' = WalkFrom(next', s)
  BY DEF Walk, WalkFrom, is_end_of_list
<1>4. ASSUME Forward(L, next) PROVE lists = L
  <2>1. \A s \in Scales : Walk(s) = L[s]
    BY <1>2, <1>4, WalkMeetsList
  <2> QED
    BY <1>1, <2>1 DEF lists
<1>5. ASSUME Forward(L, next') PROVE lists' = L
  <2>1. \A s \in Scales : Walk(s)' = L[s]
    BY <1>3, <1>5, WalkMeetsList
  <2> QED
    BY <1>1, <2>1 DEF lists
<1> QED
  BY <1>4, <1>5

-----------------------------------------------------------------------------
(* Steps between the list operations, which leave memory alone.            *)

LEMMA AllocateStep ==
  ASSUME Typed, NEW L, State(L), NEW s \in Scales, Allocate("process", s)
  PROVE  Typed' /\ State(L)'
<1>1. /\ point = "ready" /\ call = "none"
      /\ point' = "search" /\ call' = "allocate" /\ mine' = mine /\ arg' = arg
      /\ UNCHANGED memory
  BY DEF Typed, State, CallInv, Allocate, MayCall, At, GoTo, Set, point, call, mine, arg,
         memory, Threads
<1>2. Typed'
  BY DEF Typed, Allocate, MayCall, At, GoTo, Set, memory, Threads, Points
<1>3. ListsInv(L)' /\ BackInv(L)'
  BY <1>1 DEF State, ListsInv, BackInv, memory
<1>4. SettledInv(L)'
  BY <1>1 DEF State, SettledInv, Busy, memory, RemovePoints, AddPoints, Settled
<1>5. AddInv(L)' /\ RemoveInv(L)' /\ CallInv(L)'
  BY <1>1 DEF State, AddInv, RemoveInv, CallInv, RemovePoints, AddPoints
<1> QED
  BY <1>2, <1>3, <1>4, <1>5 DEF State

LEMMA SearchUpStep ==
  ASSUME Typed, NEW L, State(L), SearchUp("process")
  PROVE  Typed' /\ State(L)'
<1>1. /\ point = "search" /\ call' = call /\ point' = "search" /\ mine' = mine /\ arg' = arg
      /\ UNCHANGED memory
  BY DEF Typed, SearchUp, At, point, call, mine, arg, memory, Threads
<1>2. Typed'
  BY NodesAre DEF Typed, SearchUp, At, Set, memory, Threads, Points, Scales
<1>3. ListsInv(L)' /\ BackInv(L)'
  BY <1>1 DEF State, ListsInv, BackInv, memory
<1>4. SettledInv(L)'
  BY <1>1 DEF State, SettledInv, Busy, memory, RemovePoints, AddPoints, Settled
<1>5. AddInv(L)' /\ RemoveInv(L)' /\ CallInv(L)'
  BY <1>1 DEF State, AddInv, RemoveInv, CallInv, RemovePoints, AddPoints
<1> QED
  BY <1>2, <1>3, <1>4, <1>5 DEF State

LEMMA FoundStep ==
  ASSUME Typed, NEW L, State(L), Found("process")
  PROVE  Typed' /\ State(L)'
<1>1. /\ point = "search" /\ call' = call /\ point' = "unlink"
      /\ mine' = next[head] /\ arg' = next[head] /\ next[head] # head
      /\ UNCHANGED memory
  BY DEF Typed, Found, CallRemove, GoTo, Set, At, is_end_of_list, point, call, mine, arg, head,
         memory, Threads
<1>2. PICK b : b = next[head]
  OBVIOUS
<1>3. head \in Scales
  BY DEF Typed, head, Threads
<1>4. b \in Blocks /\ In(L, b)
  <2>1. Shape(L) /\ Forward(L, next)
    BY DEF State, ListsInv
  <2>2. Len(L[head]) \in Nat
    BY <1>3, <2>1, ShapeType
  <2>3. 0 \in 0..Len(L[head]) /\ Place(L, head, 0) = head
    BY <2>2 DEF Place
  <2>4. b = IF 0 = Len(L[head]) THEN head ELSE L[head][0 + 1]
    BY <1>2, <1>3, <2>1, <2>3 DEF Forward
  <2>5. 1 \in 1..Len(L[head]) /\ b = L[head][1]
    BY <1>1, <1>2, <2>2, <2>4
  <2> QED
    BY <1>3, <2>1, <2>5, ShapeType
<1>5. Typed'
  BY <1>2, <1>4, <1>1
  DEF Typed, Found, CallRemove, GoTo, At, Set, memory, Threads, Points, RemovePoints, head
<1>6. b \in headers /\ grants[b] = 0
  BY <1>1, <1>4 DEF State, ListsInv, SettledInv, Settled, Busy, RemovePoints, AddPoints
<1>7. ListsInv(L)' /\ BackInv(L)'
  BY <1>1 DEF State, ListsInv, BackInv, memory
<1>8. SettledInv(L)'
  BY <1>1 DEF State, SettledInv, Busy, memory, RemovePoints, AddPoints, Settled
<1>9. AddInv(L)' /\ RemoveInv(L)' /\ CallInv(L)'
  BY <1>1, <1>2, <1>4, <1>6 DEF State, AddInv, RemoveInv, CallInv, RemovePoints, AddPoints, memory
<1> QED
  BY <1>5, <1>7, <1>8, <1>9 DEF State

LEMMA SearchAgainStep ==
  ASSUME Typed, NEW L, State(L), SearchAgain("process")
  PROVE  Typed' /\ State(L)'
<1>1. /\ point = "added" /\ call = "retry" /\ call' = call /\ point' = "search"
      /\ mine' = mine /\ arg' = arg
      /\ UNCHANGED memory
  BY DEF Typed, SearchAgain, GoTo, At, point, call, mine, arg, memory, Threads
<1>2. Typed'
  BY DEF Typed, SearchAgain, GoTo, At, Set, memory, Threads, Points
<1>3. ListsInv(L)' /\ BackInv(L)'
  BY <1>1 DEF State, ListsInv, BackInv, memory
<1>4. SettledInv(L)'
  BY <1>1 DEF State, SettledInv, Busy, memory, RemovePoints, AddPoints, Settled
<1>5. AddInv(L)' /\ RemoveInv(L)' /\ CallInv(L)'
  BY <1>1 DEF State, AddInv, RemoveInv, CallInv, RemovePoints, AddPoints
<1> QED
  BY <1>2, <1>3, <1>4, <1>5 DEF State

LEMMA ReturnTyped ==
  ASSUME Typed, Return("process")
  PROVE  /\ pc' \in [Threads -> Points] /\ pc'["keyboard"] = "ready"
         /\ op' \in [Threads -> {"none", "allocate", "retry", "free", "shrink"}]
         /\ held' \in [Threads -> Blocks \cup {NoBlock}]
         /\ blk' \in [Threads -> Blocks \cup {NoBlock}]
         /\ list' \in [Threads -> Scales] /\ request' \in [Threads -> Scales]
         /\ point' = "ready" /\ call' = "none" /\ mine' = NoBlock
BY NodesAre DEF Typed, Return, GoTo, Set, Threads, Points, point, call, mine

LEMMA GiveUpStep ==
  ASSUME Typed, NEW L, State(L), GiveUp("process")
  PROVE  Typed' /\ State(L)'
<1>1. point = "search" /\ UNCHANGED memory /\ Return("process")
  BY DEF GiveUp, At, point
<1>2. point' = "ready" /\ call' = "none" /\ mine' = NoBlock
  BY <1>1, ReturnTyped
<1>3. Typed'
  BY <1>1, ReturnTyped DEF Typed, memory
<1>4. ListsInv(L)' /\ BackInv(L)'
  BY <1>1, <1>2 DEF State, ListsInv, BackInv, memory
<1>5. SettledInv(L)'
  BY <1>1, <1>2 DEF State, SettledInv, Busy, memory, RemovePoints, AddPoints, Settled
<1>6. AddInv(L)' /\ RemoveInv(L)' /\ CallInv(L)'
  BY <1>1, <1>2 DEF State, AddInv, RemoveInv, CallInv, RemovePoints, AddPoints
<1> QED
  BY <1>3, <1>4, <1>5, <1>6 DEF State

LEMMA SplitDoneStep ==
  ASSUME Typed, NEW L, State(L), SplitDone("process")
  PROVE  Typed' /\ State(L)'
<1>1. /\ point = "added" /\ call = "allocate" /\ call' = call /\ point' = "removed"
      /\ mine' = mine /\ arg' = arg
      /\ UNCHANGED memory
  BY DEF Typed, SplitDone, GoTo, At, point, call, mine, arg, memory, locals, Threads
<1>2. Typed'
  BY DEF Typed, SplitDone, GoTo, At, Set, memory, locals, Threads, Points
<1>3. ListsInv(L)' /\ BackInv(L)'
  BY <1>1 DEF State, ListsInv, BackInv, memory
<1>4. SettledInv(L)'
  BY <1>1 DEF State, SettledInv, Busy, memory, RemovePoints, AddPoints, Settled
<1>5. AddInv(L)' /\ RemoveInv(L)' /\ CallInv(L)'
  BY <1>1 DEF State, AddInv, RemoveInv, CallInv, RemovePoints, AddPoints, Taken, memory
<1> QED
  BY <1>2, <1>3, <1>4, <1>5 DEF State

LEMMA FreeBuddyStep ==
  ASSUME Typed, NEW L, State(L), NEW b \in Blocks, FreeBuddy("process", b)
  PROVE  Typed' /\ State(L)'
<1>1. /\ point = "merge" /\ call' = call /\ point' = "unlink"
      /\ mine' = mine /\ arg' = b
      /\ b \in headers /\ b # mine /\ is_free[b]
      /\ scale[b] = scale[mine] /\ scale[mine] < MaxScale
      /\ UNCHANGED memory
  BY DEF Typed, FreeBuddy, CallRemove, Set, GoTo, At, point, call, mine, arg, memory, Threads
<1>2. Typed'
  BY DEF Typed, FreeBuddy, CallRemove, GoTo, At, Set, memory, Threads, Points, RemovePoints
<1>3. ListsInv(L)' /\ BackInv(L)'
  BY <1>1 DEF State, ListsInv, BackInv, memory
<1>4. In(L, b) /\ grants[b] = 0
  BY <1>1 DEF State, SettledInv, Busy, memory, RemovePoints, AddPoints, Settled
<1>5. SettledInv(L)'
  BY <1>1 DEF State, SettledInv, Busy, memory, RemovePoints, AddPoints, Settled
<1>6. AddInv(L)' /\ RemoveInv(L)' /\ CallInv(L)'
  BY <1>1, <1>4
  DEF State, AddInv, RemoveInv, CallInv, RemovePoints, AddPoints, Taken, Halves, memory
<1> QED
  BY <1>2, <1>3, <1>5, <1>6 DEF State

LEMMA AddFreedStep ==
  ASSUME Typed, NEW L, State(L), AddFreed("process")
  PROVE  Typed' /\ State(L)'
<1>1. /\ point = "merge" /\ call' = call /\ point' = "push"
      /\ mine' = mine /\ arg' = mine /\ head' = scale[mine]
      /\ UNCHANGED memory
  BY DEF Typed, AddFreed, CallAdd, Set, GoTo, At, point, call, mine, arg, head, memory, Threads
<1>2. call = "free" /\ Taken(L, mine)
  BY <1>1 DEF State, CallInv
<1>3. Typed'
  BY <1>2 DEF Typed, AddFreed, CallAdd, GoTo, At, Set, memory, Threads, Points, AddPoints,
              Taken, mine
<1>4. ListsInv(L)' /\ BackInv(L)'
  BY <1>1 DEF State, ListsInv, BackInv, memory
<1>5. SettledInv(L)'
  BY <1>1 DEF State, SettledInv, Busy, memory, RemovePoints, AddPoints, Settled
<1>6. AddInv(L)' /\ RemoveInv(L)' /\ CallInv(L)'
  BY <1>1, <1>2 DEF State, AddInv, RemoveInv, CallInv, RemovePoints, AddPoints, Taken, memory
<1> QED
  BY <1>3, <1>4, <1>5, <1>6 DEF State

LEMMA ShrinkStep ==
  ASSUME Typed, NEW L, State(L), Shrink("process")
  PROVE  Typed' /\ State(L)'
<1>1. /\ point = "added" /\ call = "free" /\ call' = "shrink" /\ point' = "unlink"
      /\ mine' = mine /\ arg' = mine /\ is_free[mine]
      /\ UNCHANGED memory
  BY DEF Typed, Shrink, CallRemove, Set, GoTo, At, point, call, mine, arg, memory, Threads
<1>2. mine \in headers
  BY <1>1 DEF State, CallInv
<1>3. In(L, mine) /\ grants[mine] = 0
  BY <1>1, <1>2 DEF State, SettledInv, Busy, memory, RemovePoints, AddPoints, Settled
<1>4. Typed'
  BY <1>2 DEF Typed, Shrink, CallRemove, GoTo, At, Set, memory, Threads, Points, RemovePoints
<1>5. ListsInv(L)' /\ BackInv(L)'
  BY <1>1 DEF State, ListsInv, BackInv, memory
<1>6. SettledInv(L)'
  BY <1>1 DEF State, SettledInv, Busy, memory, RemovePoints, AddPoints, Settled
<1>7. AddInv(L)' /\ RemoveInv(L)' /\ CallInv(L)'
  BY <1>1, <1>2, <1>3 DEF State, AddInv, RemoveInv, CallInv, RemovePoints, AddPoints, memory
<1> QED
  BY <1>4, <1>5, <1>6, <1>7 DEF State

-----------------------------------------------------------------------------
(* Steps between the list operations that write to memory.                 *)

\* A new header is in no list, and no other block changes, save the scale of
\* a block c that is in no list either.
LEMMA NewHeaderFacts ==
  ASSUME Typed, NEW L, ListsInv(L), Backward(L, prev), NEW b \in Blocks \ headers,
         NewHeader(b), UNCHANGED grants, NEW c, ~In(L, c),
         \A x \in Blocks : x # b /\ x # c => scale'[x] = scale[x]
  PROVE  /\ next' \in [Nodes -> Nodes] /\ prev' \in [Nodes -> Nodes]
         /\ is_free' \in [Blocks -> BOOLEAN] /\ headers' \subseteq Blocks
         /\ headers' = headers \cup {b}
         /\ ~In(L, b) /\ grants[b] = 0
         /\ ListsInv(L)' /\ Backward(L, prev')
         /\ \A x \in headers : next'[x] = next[x] /\ prev'[x] = prev[x] /\ is_free'[x] = is_free[x]
<1>1. PICK n \in Nodes, f \in BOOLEAN :
        /\ next' = [next EXCEPT ![b] = n] /\ prev' = [prev EXCEPT ![b] = n]
        /\ is_free' = [is_free EXCEPT ![b] = f]
  BY DEF NewHeader, Set
<1>2. headers' = headers \cup {b}
  BY DEF NewHeader
<1>3. /\ next \in [Nodes -> Nodes] /\ prev \in [Nodes -> Nodes]
      /\ is_free \in [Blocks -> BOOLEAN] /\ headers \subseteq Blocks
      /\ b \in Nodes /\ Blocks \subseteq Nodes
  BY DEF Typed, Nodes
<1>4. /\ next' \in [Nodes -> Nodes] /\ prev' \in [Nodes -> Nodes]
      /\ is_free' \in [Blocks -> BOOLEAN] /\ headers' \subseteq Blocks
  BY <1>1, <1>2, <1>3
<1>5. \A x \in headers : next'[x] = next[x] /\ prev'[x] = prev[x] /\ is_free'[x] = is_free[x]
  BY <1>1, <1>3
<1>6. Shape(L) /\ Forward(L, next) /\ ~In(L, b) /\ grants[b] = 0
  BY DEF ListsInv
<1>7. Forward(L, next') /\ Backward(L, prev')
  BY <1>1, <1>3, <1>6, LinksOutside DEF Backward
<1>8. \A s \in Scales : \A i \in 1..Len(L[s]) : scale'[L[s][i]] = s
  <2> SUFFICES ASSUME NEW s \in Scales, NEW i \in 1..Len(L[s])
               PROVE  scale'[L[s][i]] = s
    OBVIOUS
  <2>1. L[s][i] \in Blocks /\ In(L, L[s][i])
    BY <1>6, ShapeType
  <2>2. L[s][i] # b /\ L[s][i] # c
    BY <2>1, <1>6
  <2>3. scale[L[s][i]] = s
    BY DEF ListsInv
  <2> QED
    BY <2>1, <2>2, <2>3
<1>9. ListsInv(L)'
  BY <1>2, <1>3, <1>6, <1>7, <1>8 DEF ListsInv
<1> QED
  BY <1>2, <1>4, <1>5, <1>6, <1>7, <1>9

LEMMA GrowStep ==
  ASSUME Typed, NEW L, State(L), Grow("process")
  PROVE  Typed' /\ State(L)'
<1>1. PICK b \in Blocks \ headers :
        NewHeader(b) /\ scale' = Set(scale, b, MaxScale) /\ CallAdd("process", b, MaxScale)
  BY DEF Grow
<1>2. /\ point = "search" /\ call = "allocate" /\ mine' = mine
      /\ point' = "push" /\ call' = "retry" /\ arg' = b /\ head' = MaxScale
      /\ UNCHANGED grants /\ mine = NoBlock
  BY <1>1 DEF Typed, State, CallInv, Grow, CallAdd, Set, GoTo, At, point, call, mine, arg, head,
              Threads
<1>3. ListsInv(L) /\ Backward(L, prev)
  BY <1>2 DEF State, BackInv
<1>4. ~In(L, NoBlock)
  BY <1>3, NodesAre DEF ListsInv, In, Shape
<1>5. /\ scale' \in [Blocks -> Scales] /\ scale'[b] = MaxScale
      /\ \A x \in Blocks : x # b => scale'[x] = scale[x]
  BY <1>1, NodesAre DEF Typed, Set
<1>6. /\ next' \in [Nodes -> Nodes] /\ prev' \in [Nodes -> Nodes]
      /\ is_free' \in [Blocks -> BOOLEAN] /\ headers' \subseteq Blocks
      /\ headers' = headers \cup {b}
      /\ ~In(L, b) /\ grants[b] = 0
      /\ ListsInv(L)' /\ Backward(L, prev')
      /\ \A x \in headers : next'[x] = next[x] /\ prev'[x] = prev[x] /\ is_free'[x] = is_free[x]
  BY <1>1, <1>2, <1>3, <1>4, <1>5, NewHeaderFacts
<1>7. Typed'
  BY <1>1, <1>2, <1>5, <1>6, NodesAre
  DEF Typed, Grow, CallAdd, Set, GoTo, At, Threads, Points, AddPoints
<1>8. BackInv(L)'
  BY <1>2, <1>6 DEF BackInv
<1>9. SettledInv(L)'
  BY <1>2, <1>6 DEF State, SettledInv, Busy, RemovePoints, AddPoints, Settled
<1>10. AddInv(L)' /\ RemoveInv(L)' /\ CallInv(L)'
  BY <1>2, <1>5, <1>6 DEF AddInv, RemoveInv, CallInv, RemovePoints, AddPoints
<1> QED
  BY <1>6, <1>7, <1>8, <1>9, <1>10 DEF State

LEMMA SplitStep ==
  ASSUME Typed, NEW L, State(L), Split("process")
  PROVE  Typed' /\ State(L)'
<1>1. PICK b \in Blocks \ headers :
        /\ NewHeader(b)
        /\ scale' = [scale EXCEPT ![b] = scale[mine] - 1, ![mine] = scale[mine] - 1]
        /\ CallAdd("process", b, scale[mine] - 1)
  BY DEF Split, mine
<1>2. /\ point = "removed" /\ call = "allocate" /\ mine' = mine
      /\ point' = "push" /\ call' = "allocate" /\ arg' = b /\ head' = scale[mine] - 1
      /\ UNCHANGED grants /\ Taken(L, mine) /\ scale[mine] > request["process"]
  BY <1>1 DEF Typed, State, CallInv, Split, CallAdd, Set, GoTo, At, point, call, mine, arg, head,
              Threads
<1>3. ListsInv(L) /\ Backward(L, prev)
  BY <1>2 DEF State, BackInv
<1>4. ~In(L, mine) /\ mine \in headers /\ mine \in Blocks /\ mine # b
  BY <1>2 DEF Taken, Typed
<1>5. scale[mine] - 1 \in Scales
  <2>1. PICK r \in Scales, s \in Scales : r = request["process"] /\ s = scale[mine]
    BY <1>4 DEF Typed, Threads
  <2>2. s > r
    BY <1>2, <2>1
  <2>3. s - 1 \in Scales
    BY <2>2, NextScales
  <2> QED
    BY <2>1, <2>3
<1>6. /\ scale' \in [Blocks -> Scales] /\ scale'[b] = scale[mine] - 1
      /\ \A x \in Blocks : x # b /\ x # mine => scale'[x] = scale[x]
  BY <1>1, <1>4, <1>5 DEF Typed
<1>7. /\ next' \in [Nodes -> Nodes] /\ prev' \in [Nodes -> Nodes]
      /\ is_free' \in [Blocks -> BOOLEAN] /\ headers' \subseteq Blocks
      /\ headers' = headers \cup {b}
      /\ ~In(L, b) /\ grants[b] = 0
      /\ ListsInv(L)' /\ Backward(L, prev')
      /\ \A x \in headers : next'[x] = next[x] /\ prev'[x] = prev[x] /\ is_free'[x] = is_free[x]
  BY <1>1, <1>2, <1>3, <1>4, <1>6, NewHeaderFacts
<1>8. Typed'
  BY <1>1, <1>2, <1>5, <1>6, <1>7
  DEF Typed, Split, CallAdd, Set, GoTo, At, Threads, Points, AddPoints
<1>9. BackInv(L)'
  BY <1>2, <1>7 DEF BackInv
<1>10. SettledInv(L)'
  BY <1>2, <1>7 DEF State, SettledInv, Busy, RemovePoints, AddPoints, Settled
<1>11. AddInv(L)' /\ RemoveInv(L)' /\ CallInv(L)'
  BY <1>2, <1>4, <1>6, <1>7 DEF AddInv, RemoveInv, CallInv, RemovePoints, AddPoints, Taken
<1> QED
  BY <1>7, <1>8, <1>9, <1>10, <1>11 DEF State

\* Only the ghost changes, for a block in no list.
LEMMA GrantStep ==
  ASSUME Typed, NEW L, State(L), Grant("process")
  PROVE  Typed' /\ State(L)'
<1>1. /\ point = "removed" /\ call \in {"allocate", "retry"} /\ Return("process")
      /\ grants' = [grants EXCEPT ![mine] = grants[mine] + 1]
      /\ UNCHANGED <<next, prev, is_free, scale, headers>>
  BY DEF Grant, At, Set, point, call, mine
<1>2. Taken(L, mine) /\ mine \in Blocks
  BY <1>1 DEF State, CallInv, Taken, Typed
<1>3. point' = "ready" /\ call' = "none" /\ mine' = NoBlock
  BY <1>1, ReturnTyped
<1>4. /\ grants' \in [Blocks -> Int] /\ grants'[mine] = 1
      /\ \A x \in Blocks : x # mine => grants'[x] = grants[x]
  BY <1>1, <1>2 DEF Typed, Taken
<1>5. Typed'
  BY <1>1, <1>4, ReturnTyped DEF Typed
<1>6. ListsInv(L)' /\ BackInv(L)'
  BY <1>1, <1>2, <1>3, <1>4 DEF State, ListsInv, BackInv, Taken
<1>7. SettledInv(L)'
  <2>1. headers \subseteq Blocks
    BY DEF Typed
  <2>2. \A x \in headers \ {mine} : Settled(L, x)
    BY <1>1 DEF State, SettledInv, Busy, RemovePoints, AddPoints
  <2> QED
    BY <2>1, <2>2, <1>1, <1>2, <1>3, <1>4
    DEF SettledInv, Busy, RemovePoints, AddPoints, Settled, Taken
<1>8. AddInv(L)' /\ RemoveInv(L)' /\ CallInv(L)'
  BY <1>3 DEF AddInv, RemoveInv, CallInv, RemovePoints, AddPoints
<1> QED
  BY <1>5, <1>6, <1>7, <1>8 DEF State

\* The test at the top of free keeps out every block of a list: one points
\* back to the node before it.
LEMMA ListedIsRefused ==
  ASSUME NEW L, Shape(L), Backward(L, prev), NEW b, In(L, b)
  PROVE  prev[b] # b
<1>1. PICK s \in Scales : \E i \in 1..Len(L[s]) : L[s][i] = b
  BY DEF In
<1>2. PICK i \in 1..Len(L[s]) : L[s][i] = b
  BY <1>1
<1>3. i \in 0..Len(L[s]) /\ i - 1 \in 0..Len(L[s]) /\ i # i - 1 /\ i # 0
  BY ShapeType
<1>4. b = Place(L, s, i) /\ b \in Blocks
  BY <1>2, <1>3, ShapeType DEF Place
<1>5. Place(L, s, i - 1) # b
  BY <1>3, <1>4, Places
<1>6. prev[b] = Place(L, s, i - 1)
  BY <1>2, <1>4, NodesAre DEF Backward, BackwardBut
<1> QED
  BY <1>5, <1>6

LEMMA FreeStep ==
  ASSUME Typed, NEW L, State(L), NEW b \in Blocks, Free("process", b)
  PROVE  Typed' /\ State(L)'
<1>1. /\ point = "ready" /\ point' = "merge" /\ call' = "free" /\ mine' = b /\ arg' = arg
      /\ b \in headers /\ next[b] = b /\ prev[b] = b
      /\ grants' = [grants EXCEPT ![b] = grants[b] - 1]
      /\ UNCHANGED <<next, prev, is_free, scale, headers>>
  BY DEF Typed, Free, MayCall, LooksGranted, At, Set, GoTo, point, call, mine, arg, Threads
<1>2. Shape(L) /\ Backward(L, prev)
  BY <1>1 DEF State, ListsInv, BackInv
<1>3. ~In(L, b)
  BY <1>1, <1>2, ListedIsRefused
<1>4. \A x \in headers : Settled(L, x)
  BY <1>1 DEF State, SettledInv, Busy, RemovePoints, AddPoints
<1>5. ~is_free[b] /\ grants[b] = 1
  BY <1>1, <1>3, <1>4 DEF Settled
<1>6. /\ grants' \in [Blocks -> Int] /\ grants'[b] = 0
      /\ \A x \in Blocks : x # b => grants'[x] = grants[x]
  BY <1>1, <1>5 DEF Typed
<1>7. Taken(L, b)'
  BY <1>1, <1>3, <1>5, <1>6 DEF Taken
<1>8. Typed'
  BY <1>1, <1>6 DEF Typed, Free, MayCall, At, Set, GoTo, Threads, Points
<1>9. ListsInv(L)' /\ BackInv(L)'
  BY <1>1, <1>6 DEF State, ListsInv, BackInv
<1>10. SettledInv(L)'
  <2>1. headers \subseteq Blocks
    BY DEF Typed
  <2> QED
    BY <2>1, <1>1, <1>4, <1>6 DEF SettledInv, Busy, RemovePoints, AddPoints, Settled
<1>11. AddInv(L)' /\ RemoveInv(L)' /\ CallInv(L)'
  BY <1>1, <1>7 DEF AddInv, RemoveInv, CallInv, RemovePoints, AddPoints, Taken
<1> QED
  BY <1>8, <1>9, <1>10, <1>11 DEF State

LEMMA MergeStep ==
  ASSUME Typed, NEW L, State(L), Merge("process")
  PROVE  Typed' /\ State(L)'
<1>1. PICK lower \in {mine, arg} :
        /\ held' = Set(held, "process", lower)
        /\ headers' = headers \ ({mine, arg} \ {lower})
        /\ scale' = [scale EXCEPT ![lower] = scale[lower] + 1]
  BY DEF Merge, Set, mine, arg
<1>2. /\ point = "removed" /\ call = "free" /\ point' = "merge" /\ call' = call
      /\ mine' = lower /\ arg' = arg
      /\ UNCHANGED <<next, prev, is_free, grants, op, blk, list, request>>
  BY <1>1 DEF Typed, Merge, At, Set, GoTo, point, call, mine, arg, Threads
<1>3. Taken(L, mine) /\ Taken(L, arg) /\ Halves(L)
  BY <1>2 DEF State, CallInv
<1>4. mine \in Blocks /\ arg \in Blocks /\ lower \in Blocks /\ headers \subseteq Blocks
  BY <1>3 DEF Taken, Typed
<1>5. scale[lower] + 1 \in Scales
  <2>1. PICK s \in Scales : s = scale[lower]
    BY <1>4 DEF Typed
  <2>2. s < MaxScale
    BY <1>3, <2>1 DEF Halves
  <2>3. s + 1 \in Scales
    BY <2>2, NextScales
  <2> QED
    BY <2>1, <2>3
<1>6. /\ scale' \in [Blocks -> Scales]
      /\ \A x \in Blocks : x # lower => scale'[x] = scale[x]
  BY <1>1, <1>4, <1>5 DEF Typed
<1>7. /\ lower \in headers' /\ headers' \subseteq headers
      /\ \A x \in headers \ headers' : x \in {mine, arg}
      /\ headers' \ {lower} = headers \ {mine, arg}
  BY <1>1, <1>3 DEF Taken
<1>8. Taken(L, lower)'
  BY <1>2, <1>3, <1>7 DEF Taken
<1>9. Typed'
  BY <1>1, <1>2, <1>4, <1>6, <1>7 DEF Typed, Merge, At, Set, GoTo, Threads, Points
<1>10. ListsInv(L)'
  <2>1. \A s \in Scales : \A i \in 1..Len(L[s]) : scale'[L[s][i]] = s
    <3> SUFFICES ASSUME NEW s \in Scales, NEW i \in 1..Len(L[s])
                 PROVE  scale'[L[s][i]] = s
      OBVIOUS
    <3>1. L[s][i] \in Blocks /\ In(L, L[s][i])
      BY ShapeType DEF State, ListsInv
    <3>2. L[s][i] # lower
      BY <3>1, <1>3 DEF Taken
    <3>3. scale[L[s][i]] = s
      BY DEF State, ListsInv
    <3> QED
      BY <3>1, <3>2, <3>3, <1>6
  <2>2. \A x \in Blocks : In(L, x) => x \in headers'
    BY <1>3, <1>7 DEF State, ListsInv, Taken
  <2>3. \A x \in Blocks \ headers' : grants'[x] = 0
    BY <1>2, <1>3, <1>7 DEF State, ListsInv, Taken
  <2> QED
    BY <2>1, <2>2, <2>3, <1>2 DEF State, ListsInv
<1>11. BackInv(L)'
  BY <1>2 DEF State, BackInv
<1>12. SettledInv(L)'
  BY <1>2, <1>7 DEF State, SettledInv, Busy, RemovePoints, AddPoints, Settled
<1>13. AddInv(L)' /\ RemoveInv(L)' /\ CallInv(L)'
  BY <1>2, <1>8 DEF AddInv, RemoveInv, CallInv, RemovePoints, AddPoints, Taken
<1> QED
  BY <1>9, <1>10, <1>11, <1>12, <1>13 DEF State

LEMMA FreedStep ==
  ASSUME Typed, NEW L, State(L), Freed("process")
  PROVE  Typed' /\ State(L)'
<1>1. CASE point = "added" /\ UNCHANGED memory /\ call = "free" /\ Return("process")
  <2>1. point' = "ready" /\ call' = "none" /\ mine' = NoBlock
    BY <1>1, ReturnTyped
  <2>2. Typed'
    BY <1>1, ReturnTyped DEF Typed, memory
  <2>3. ListsInv(L)' /\ BackInv(L)'
    BY <1>1, <2>1 DEF State, ListsInv, BackInv, memory
  <2>4. SettledInv(L)'
    BY <1>1, <2>1 DEF State, SettledInv, Busy, memory, RemovePoints, AddPoints, Settled
  <2>5. AddInv(L)' /\ RemoveInv(L)' /\ CallInv(L)'
    BY <2>1 DEF AddInv, RemoveInv, CallInv, RemovePoints, AddPoints
  <2> QED
    BY <2>2, <2>3, <2>4, <2>5 DEF State
<1>2. CASE /\ point = "removed" /\ call = "shrink" /\ headers' = headers \ {mine}
           /\ Return("process") /\ UNCHANGED <<next, prev, is_free, scale, grants>>
  <2>1. point' = "ready" /\ call' = "none" /\ mine' = NoBlock
    BY <1>2, ReturnTyped
  <2>2. Taken(L, mine)
    BY <1>2 DEF State, CallInv
  <2>3. Typed'
    BY <1>2, ReturnTyped DEF Typed
  <2>4. ListsInv(L)' /\ BackInv(L)'
    BY <1>2, <2>1, <2>2 DEF State, ListsInv, BackInv, Taken
  <2>5. SettledInv(L)'
    BY <1>2, <2>1 DEF State, SettledInv, Busy, RemovePoints, AddPoints, Settled
  <2>6. AddInv(L)' /\ RemoveInv(L)' /\ CallInv(L)'
    BY <2>1 DEF AddInv, RemoveInv, CallInv, RemovePoints, AddPoints
  <2> QED
    BY <2>3, <2>4, <2>5, <2>6 DEF State
<1> QED
  BY <1>1, <1>2 DEF Freed, At, point, call, mine

-----------------------------------------------------------------------------
(* The stores of the list operations.                                      *)

\* What a store of a link leaves alone.
LEMMA StoreNextFacts ==
  ASSUME Typed, NEW n \in Nodes, NEW m \in Nodes, NEW p \in Points,
         StoreNext("process", n, m, p)
  PROVE  /\ Typed' /\ next' = [next EXCEPT ![n] = m]
         /\ point' = p /\ call' = call /\ mine' = mine /\ arg' = arg /\ head' = head
         /\ UNCHANGED <<prev, is_free, scale, headers, grants>>
BY DEF Typed, StoreNext, Set, GoTo, locals, Threads, point, call, mine, arg, head

LEMMA StorePrevFacts ==
  ASSUME Typed, NEW n \in Nodes, NEW m \in Nodes, NEW p \in Points,
         StorePrev("process", n, m, p)
  PROVE  /\ Typed' /\ prev' = [prev EXCEPT ![n] = m]
         /\ point' = p /\ call' = call /\ mine' = mine /\ arg' = arg /\ head' = head
         /\ UNCHANGED <<next, is_free, scale, headers, grants>>
BY DEF Typed, StorePrev, Set, GoTo, locals, Threads, point, call, mine, arg, head

LEMMA StoreFreeFacts ==
  ASSUME Typed, NEW f \in BOOLEAN, NEW p \in Points, StoreFree("process", f, p)
  PROVE  /\ Typed' /\ is_free' = [is_free EXCEPT ![arg] = f]
         /\ point' = p /\ call' = call /\ mine' = mine /\ arg' = arg /\ head' = head
         /\ UNCHANGED <<next, prev, scale, headers, grants>>
BY DEF Typed, StoreFree, Set, GoTo, locals, Threads, point, call, mine, arg, head

\* The arguments of an operation under way.
LEMMA ArgIs ==
  ASSUME Typed, NEW L, State(L), point \in RemovePoints \cup AddPoints
  PROVE  /\ arg \in headers /\ arg \in Blocks /\ arg \in Nodes /\ grants[arg] = 0
         /\ head \in Scales /\ head \in Nodes
         /\ Shape(L) /\ Forward(L, next) /\ ListsInv(L)
         /\ next \in [Nodes -> Nodes] /\ prev \in [Nodes -> Nodes]
         /\ next[arg] \in Nodes /\ prev[arg] \in Nodes
<1>1. arg \in headers /\ grants[arg] = 0
  BY DEF State, AddInv, RemoveInv
<1> QED
  BY <1>1 DEF Typed, State, ListsInv, Nodes, head, Threads

LEMMA PushStep ==
  ASSUME Typed, NEW L, State(L), Push("process")
  PROVE  Typed' /\ State(L)'
<1> DEFINE n == Len(L[head])
<1>1. point = "push"
  BY DEF Push, At, point
<1>2. /\ arg \in headers /\ arg \in Blocks /\ arg \in Nodes
      /\ head \in Scales /\ head \in Nodes
      /\ Shape(L) /\ Forward(L, next) /\ ListsInv(L)
      /\ next \in [Nodes -> Nodes]
  BY <1>1, ArgIs DEF AddPoints
<1>3. ~In(L, arg) /\ Backward(L, prev)
  BY <1>1 DEF State, AddInv, AddPoints, BackInv
<1>4. n \in Nat /\ (L[head] = <<>> <=> n = 0) /\ next[head] \in Nodes
  BY <1>2, ShapeType, EmptySeq
<1>5. next[head] = IF n = 0 THEN head ELSE L[head][1]
  <2>1. 0 \in 0..n /\ Place(L, head, 0) = head /\ 0 + 1 = 1
    BY <1>4 DEF Place
  <2>2. next[head] = IF 0 = n THEN head ELSE L[head][0 + 1]
    BY <2>1, <1>2 DEF Forward
  <2> QED
    BY <2>1, <2>2
<1>6. n # 0 => L[head][1] # head
  <2>1. n # 0 => 1 \in 1..n
    BY <1>4
  <2> QED
    BY <2>1, <1>2, ShapeType, NodesAre
<1>7. PICK p \in {"link", "backlink"}, m \in Nodes :
        /\ StoreNext("process", arg, m, p)
        /\ n = 0 => p = "link" /\ m = arg
        /\ n # 0 => p = "backlink" /\ m = L[head][1]
  <2>1. CASE is_end_of_list(head)
    <3>1. n = 0
      BY <2>1, <1>5, <1>6 DEF is_end_of_list
    <3>2. StoreNext("process", arg, arg, "link")
      BY <2>1 DEF Push, head, arg
    <3> QED
      BY <3>1, <3>2, <1>2
  <2>2. CASE ~is_end_of_list(head)
    <3>1. n # 0
      BY <2>2, <1>5 DEF is_end_of_list
    <3>2. StoreNext("process", arg, next[head], "backlink")
      BY <2>2 DEF Push, head, arg
    <3> QED
      BY <3>1, <3>2, <1>4, <1>5
  <2> QED
    BY <2>1, <2>2
<1>8. /\ Typed' /\ next' = [next EXCEPT ![arg] = m]
      /\ point' = p /\ call' = call /\ mine' = mine /\ arg' = arg /\ head' = head
      /\ UNCHANGED <<prev, is_free, scale, headers, grants>>
  BY <1>2, <1>7, StoreNextFacts DEF Points, AddPoints
<1>9. Forward(L, next')
  BY <1>2, <1>3, <1>8, LinksOutside
<1>10. ListsInv(L)'
  BY <1>2, <1>8, <1>9 DEF ListsInv
<1>11. BackInv(L)'
  <2>1. BackwardBut(L, prev, next'[arg])
    BY <1>3, NodesAre, <1>2, ShapeType DEF Backward, BackwardBut
  <2> QED
    BY <2>1, <1>3, <1>7, <1>8 DEF BackInv
<1>12. SettledInv(L)'
  <2>1. headers \subseteq Nodes
    BY DEF Typed, Nodes
  <2> QED
    BY <2>1, <1>1, <1>2, <1>7, <1>8 DEF State, SettledInv, Settled, Busy, AddPoints, RemovePoints
<1>13. AddInv(L)'
  <2>1. next'[arg] = m
    BY <1>2, <1>8
  <2>2. Taken(L, mine) /\ mine # arg => Taken(L, mine)'
    BY <1>2, <1>8 DEF Taken, Nodes, Typed
  <2> QED
    BY <2>1, <2>2, <1>1, <1>3, <1>4, <1>7, <1>8 DEF State, AddInv, AddPoints, First
<1>14. RemoveInv(L)' /\ CallInv(L)'
  BY <1>7, <1>8 DEF RemoveInv, CallInv, RemovePoints
<1> QED
  BY <1>8, <1>10, <1>11, <1>12, <1>13, <1>14 DEF State

LEMMA BacklinkStep ==
  ASSUME Typed, NEW L, State(L), Backlink("process")
  PROVE  Typed' /\ State(L)'
<1>1. point = "backlink" /\ StorePrev("process", next[head], arg, "link")
  BY DEF Backlink, At, point, head, arg
<1>2. /\ arg \in headers /\ arg \in Blocks /\ arg \in Nodes
      /\ head \in Scales
      /\ Shape(L) /\ Forward(L, next) /\ ListsInv(L)
      /\ prev \in [Nodes -> Nodes]
  BY <1>1, ArgIs DEF AddPoints
<1>3. ~In(L, arg) /\ Backward(L, prev) /\ L[head] # <<>> /\ next[arg] = L[head][1]
  BY <1>1 DEF State, AddInv, AddPoints, BackInv, First
<1>4. 1 \in 1..Len(L[head]) /\ 0 \in 0..Len(L[head]) /\ 0 # Len(L[head]) /\ 0 + 1 = 1
  BY <1>2, <1>3, ShapeType, EmptySeq
<1>5. PICK y : y = L[head][1]
  OBVIOUS
<1>6. y \in Blocks /\ y \in Nodes /\ In(L, y)
  BY <1>2, <1>4, <1>5, ShapeType DEF Nodes
<1>7. next[head] = y
  <2>1. next[Place(L, head, 0)] = L[head][0 + 1]
    BY <1>2, <1>4 DEF Forward
  <2> QED
    BY <2>1, <1>4, <1>5 DEF Place
<1>8. /\ Typed' /\ prev' = [prev EXCEPT ![y] = arg]
      /\ point' = "link" /\ call' = call /\ mine' = mine /\ arg' = arg /\ head' = head
      /\ UNCHANGED <<next, is_free, scale, headers, grants>>
  <2>1. "link" \in Points
    BY DEF Points, AddPoints
  <2>2. StorePrev("process", y, arg, "link")
    BY <1>1, <1>7
  <2> QED
    BY <2>1, <2>2, <1>2, <1>6, StorePrevFacts
<1>9. ListsInv(L)'
  BY <1>2, <1>8 DEF ListsInv
<1>10. BackInv(L)'
  <2>1. BackwardBut(L, prev', y)
    <3>1. ASSUME NEW s \in Scales, NEW i \in 1..Len(L[s]), L[s][i] # y
          PROVE  prev'[L[s][i]] = Place(L, s, i - 1)
      <4>1. L[s][i] \in Nodes /\ L[s][i] # NoBlock
        BY <1>2, ShapeType, NodesAre DEF Nodes
      <4>2. prev'[L[s][i]] = prev[L[s][i]]
        BY <4>1, <3>1, <1>2, <1>8
      <4> QED
        BY <4>1, <4>2, <1>3 DEF Backward, BackwardBut
    <3> QED
      BY <3>1 DEF BackwardBut
  <2> QED
    BY <2>1, <1>3, <1>5, <1>8 DEF BackInv
<1>11. SettledInv(L)'
  <2>1. headers \subseteq Nodes
    BY DEF Typed, Nodes
  <2>2. ASSUME NEW x \in headers', x \notin Busy' PROVE Settled(L, x)'
    <3>1. x \in headers /\ x \notin Busy /\ x \in Nodes
      BY <2>1, <2>2, <1>1, <1>8 DEF Busy, AddPoints, RemovePoints
    <3>2. Settled(L, x)
      BY <3>1 DEF State, SettledInv
    <3>3. ~In(L, x) => prev'[x] = prev[x]
      BY <3>1, <1>2, <1>6, <1>8
    <3> QED
      BY <3>2, <3>3, <1>8 DEF Settled
  <2> QED
    BY <2>2 DEF SettledInv
<1>12. AddInv(L)'
  <2>1. prev'[y] = arg
    BY <1>2, <1>6, <1>8
  <2>2. ASSUME Taken(L, mine) PROVE Taken(L, mine)'
    <3>1. mine \in Nodes /\ mine # y
      BY <2>2, <1>6 DEF Taken, Typed, Nodes
    <3>2. prev'[mine] = prev[mine]
      BY <3>1, <1>2, <1>8
    <3> QED
      BY <3>2, <2>2, <1>8 DEF Taken
  <2> QED
    BY <2>1, <2>2, <1>1, <1>3, <1>5, <1>8 DEF State, AddInv, AddPoints, First
<1>13. RemoveInv(L)' /\ CallInv(L)'
  BY <1>8 DEF RemoveInv, CallInv, RemovePoints
<1> QED
  BY <1>8, <1>9, <1>10, <1>11, <1>12, <1>13 DEF State

\* The store that adds the block.
LEMMA LinkStep ==
  ASSUME Typed, NEW L, State(L), Link("process")
  PROVE  /\ arg \in Blocks /\ head \in Scales /\ ~In(L, arg)
         /\ \E M : Added(L, M, arg, head) /\ Typed' /\ State(M)'
<1>1. point = "link" /\ StoreNext("process", head, arg, "prev")
  BY DEF Link, At, point, head, arg
<1>2. /\ arg \in headers /\ arg \in Blocks /\ arg \in Nodes
      /\ head \in Scales /\ head \in Nodes
      /\ Shape(L) /\ Forward(L, next) /\ ListsInv(L)
      /\ next \in [Nodes -> Nodes] /\ grants[arg] = 0
  BY <1>1, ArgIs DEF AddPoints
<1>3. /\ ~In(L, arg) /\ BackwardBut(L, prev, next[arg]) /\ scale[arg] = head
      /\ IF L[head] = <<>> THEN next[arg] = arg
         ELSE next[arg] = L[head][1] /\ prev[L[head][1]] = arg
  BY <1>1 DEF State, AddInv, AddPoints, BackInv, First
<1>4. PICK b \in Blocks, s \in Scales : b = arg /\ s = head
  BY <1>2
<1>5. PICK M : Added(L, M, b, s)
  BY DEF Added
<1>6. /\ \A u \in Scales : u # s => M[u] = L[u]
      /\ Len(M[s]) = Len(L[s]) + 1
      /\ M[s][1] = b /\ \A i \in 1..Len(L[s]) : M[s][i + 1] = L[s][i]
      /\ Shape(M)
      /\ \A x : In(M, x) <=> In(L, x) \/ x = b
  BY <1>2, <1>3, <1>4, <1>5, AddedFacts
<1>7. /\ Typed' /\ next' = [next EXCEPT ![s] = b]
      /\ point' = "prev" /\ call' = call /\ mine' = mine /\ arg' = arg /\ head' = head
      /\ UNCHANGED <<prev, is_free, scale, headers, grants>>
  <2>1. "prev" \in Points
    BY DEF Points, AddPoints
  <2> QED
    BY <2>1, <1>1, <1>2, <1>4, StoreNextFacts
<1>8. Forward(M, next')
  BY <1>2, <1>3, <1>4, <1>5, <1>7, LinkForward
<1>9. M[s] # <<>>
  <2>1. Len(M[s]) # 0
    BY <1>2, <1>6, ShapeType
  <2> QED
    BY <2>1, EmptySeq
<1>10. ListsInv(M)'
  <2>1. \A x \in Blocks : In(M, x) => x \in headers
    BY <1>2, <1>4, <1>6 DEF ListsInv
  <2>2. ASSUME NEW u \in Scales, NEW i \in 1..Len(M[u]) PROVE scale[M[u][i]] = u
    <3>1. CASE u = s /\ i = 1
      BY <3>1, <1>3, <1>4, <1>6
    <3>2. CASE u = s /\ i # 1
      <4>1. i - 1 \in 1..Len(L[s]) /\ (i - 1) + 1 = i
        BY <3>2, <1>2, <1>6, ShapeType
      <4>2. M[u][i] = L[s][i - 1]
        BY <4>1, <3>2, <1>6
      <4> QED
        BY <4>1, <4>2, <3>2, <1>2 DEF ListsInv
    <3>3. CASE u # s
      BY <3>3, <1>2, <1>6 DEF ListsInv
    <3> QED
      BY <3>1, <3>2, <3>3
  <2>3. \A x \in Blocks \ headers : grants[x] = 0
    BY <1>2 DEF ListsInv
  <2> QED
    BY <2>1, <2>2, <2>3, <1>6, <1>7, <1>8 DEF ListsInv
<1>11. BackInv(M)'
  <2>1. BackwardBut(M, prev, b)
    BY <1>2, <1>3, <1>4, <1>5, LinkBackward
  <2> QED
    BY <2>1, <1>4, <1>7 DEF BackInv
<1>12. SettledInv(M)'
  <2>1. ASSUME NEW x \in headers', x \notin Busy' PROVE Settled(M, x)'
    <3>1. x \in headers /\ x \notin Busy /\ x \in Nodes /\ x \in Blocks /\ x # b
      BY <2>1, <1>1, <1>4, <1>7 DEF Busy, AddPoints, RemovePoints, Typed, Nodes
    <3>2. Settled(L, x)
      BY <3>1 DEF State, SettledInv
    <3>3. next'[x] = next[x]
      BY <3>1, <1>2, <1>7, NodesAre
    <3> QED
      BY <3>1, <3>2, <3>3, <1>6, <1>7 DEF Settled
  <2> QED
    BY <2>1 DEF SettledInv
<1>13. AddInv(M)'
  <2>1. ASSUME Taken(L, mine), mine # arg PROVE Taken(M, mine)'
    <3>1. mine \in Nodes /\ mine # s
      BY <2>1, NodesAre DEF Taken, Typed, Nodes
    <3>2. next'[mine] = next[mine]
      BY <3>1, <1>2, <1>7
    <3> QED
      BY <3>2, <2>1, <1>4, <1>6, <1>7 DEF Taken
  <2> QED
    BY <2>1, <1>1, <1>2, <1>3, <1>4, <1>6, <1>7, <1>9 DEF State, AddInv, AddPoints, First
<1>14. RemoveInv(M)' /\ CallInv(M)'
  BY <1>7 DEF RemoveInv, CallInv, RemovePoints
<1>15. State(M)'
  BY <1>10, <1>11, <1>12, <1>13, <1>14 DEF State
<1> QED
  BY <1>2, <1>3, <1>4, <1>5, <1>7, <1>15

LEMMA PrevIsHeadStep ==
  ASSUME Typed, NEW L, State(L), PrevIsHead("process")
  PROVE  Typed' /\ State(L)'
<1>1. point = "prev" /\ StorePrev("process", arg, head, "mark")
  BY DEF PrevIsHead, At, point, head, arg
<1>2. /\ arg \in headers /\ arg \in Blocks /\ arg \in Nodes
      /\ head \in Scales /\ head \in Nodes
      /\ Shape(L) /\ Forward(L, next) /\ ListsInv(L)
      /\ prev \in [Nodes -> Nodes]
  BY <1>1, ArgIs DEF AddPoints
<1>3. BackwardBut(L, prev, arg) /\ L[head] # <<>> /\ L[head][1] = arg
  BY <1>1 DEF State, AddInv, AddPoints, BackInv, First
<1>4. 1 \in 1..Len(L[head]) /\ 1 - 1 = 0
  BY <1>2, <1>3, ShapeType, EmptySeq
<1>5. /\ Typed' /\ prev' = [prev EXCEPT ![arg] = head]
      /\ point' = "mark" /\ call' = call /\ mine' = mine /\ arg' = arg /\ head' = head
      /\ UNCHANGED <<next, is_free, scale, headers, grants>>
  <2>1. "mark" \in Points
    BY DEF Points, AddPoints
  <2> QED
    BY <2>1, <1>1, <1>2, StorePrevFacts
<1>6. ListsInv(L)'
  BY <1>2, <1>5 DEF ListsInv
<1>7. Backward(L, prev')
  <2>1. PICK s \in Scales, i \in 1..Len(L[head]), pv \in [Nodes -> Nodes] :
          s = head /\ i = 1 /\ pv = prev
    BY <1>2, <1>4
  <2>2. prev' = [pv EXCEPT ![L[s][i]] = Place(L, s, i - 1)]
    BY <2>1, <1>3, <1>4, <1>5 DEF Place
  <2> QED
    BY <2>1, <2>2, <1>2, <1>3, MendBackward
<1>8. BackInv(L)'
  BY <1>5, <1>7 DEF BackInv
<1>9. SettledInv(L)'
  <2>1. headers \subseteq Nodes
    BY DEF Typed, Nodes
  <2> QED
    BY <2>1, <1>1, <1>2, <1>5 DEF State, SettledInv, Settled, Busy, AddPoints, RemovePoints
<1>10. AddInv(L)'
  <2>1. Taken(L, mine) /\ mine # arg => Taken(L, mine)'
    BY <1>2, <1>5 DEF Taken, Nodes, Typed
  <2> QED
    BY <2>1, <1>1, <1>3, <1>5 DEF State, AddInv, AddPoints, First
<1>11. RemoveInv(L)' /\ CallInv(L)'
  BY <1>5 DEF RemoveInv, CallInv, RemovePoints
<1> QED
  BY <1>5, <1>6, <1>8, <1>9, <1>10, <1>11 DEF State

LEMMA MarkFreeStep ==
  ASSUME Typed, NEW L, State(L), MarkFree("process")
  PROVE  Typed' /\ State(L)'
<1>1. point = "mark" /\ StoreFree("process", TRUE, "added")
  BY DEF MarkFree, At, point
<1>2. /\ arg \in headers /\ arg \in Blocks /\ head \in Scales
      /\ Shape(L) /\ ListsInv(L) /\ grants[arg] = 0
  BY <1>1, ArgIs DEF AddPoints
<1>3. /\ Backward(L, prev) /\ L[head] # <<>> /\ L[head][1] = arg
      /\ call \in {"allocate", "free", "retry"}
      /\ call = "allocate" => Taken(L, mine) /\ mine # arg
      /\ call = "free" => mine = arg
      /\ call = "retry" => mine = NoBlock
  BY <1>1 DEF State, AddInv, AddPoints, BackInv, First
<1>4. In(L, arg)
  <2>1. 1 \in 1..Len(L[head])
    BY <1>2, <1>3, ShapeType, EmptySeq
  <2> QED
    BY <2>1, <1>2, <1>3 DEF In
<1>5. /\ Typed' /\ is_free' = [is_free EXCEPT ![arg] = TRUE]
      /\ point' = "added" /\ call' = call /\ mine' = mine /\ arg' = arg /\ head' = head
      /\ UNCHANGED <<next, prev, scale, headers, grants>>
  <2>1. "added" \in Points
    BY DEF Points
  <2> QED
    BY <2>1, <1>1, StoreFreeFacts
<1>6. /\ is_free'[arg] = TRUE
      /\ \A x \in headers : x # arg => is_free'[x] = is_free[x]
  BY <1>2, <1>5 DEF Typed
<1>7. ListsInv(L)' /\ BackInv(L)'
  BY <1>2, <1>3, <1>5 DEF ListsInv, BackInv
<1>8. SettledInv(L)'
  <2>1. ASSUME NEW x \in headers', x \notin Busy' PROVE Settled(L, x)'
    <3>1. CASE x = arg
      BY <3>1, <1>2, <1>4, <1>5, <1>6 DEF Settled
    <3>2. CASE x # arg
      <4>1. x \in headers /\ x \notin Busy
        BY <3>2, <2>1, <1>1, <1>2, <1>3, <1>5, NodesAre DEF Busy, AddPoints, RemovePoints, Typed
      <4>2. Settled(L, x)
        BY <4>1 DEF State, SettledInv
      <4> QED
        BY <4>1, <4>2, <3>2, <1>5, <1>6 DEF Settled
    <3> QED
      BY <3>1, <3>2
  <2> QED
    BY <2>1 DEF SettledInv
<1>9. AddInv(L)' /\ RemoveInv(L)'
  BY <1>5 DEF AddInv, RemoveInv, AddPoints, RemovePoints
<1>10. CallInv(L)'
  <2>1. ASSUME Taken(L, mine), mine # arg PROVE Taken(L, mine)'
    BY <2>1, <1>5, <1>6 DEF Taken
  <2> QED
    BY <2>1, <1>2, <1>3, <1>5 DEF CallInv
<1> QED
  BY <1>5, <1>7, <1>8, <1>9, <1>10 DEF State

\* The store that removes the block.
LEMMA UnlinkStep ==
  ASSUME Typed, NEW L, State(L), Unlink("process")
  PROVE  \E s \in Scales : \E i \in 1..Len(L[s]) :
           L[s][i] \in Blocks /\ \E M : Removed(L, M, s, i) /\ Typed' /\ State(M)'
<1>1. point = "unlink"
  BY DEF Unlink, At, point
<1>2. /\ arg \in headers /\ arg \in Blocks /\ arg \in Nodes
      /\ Shape(L) /\ Forward(L, next) /\ ListsInv(L)
      /\ next \in [Nodes -> Nodes] /\ grants[arg] = 0
      /\ next[arg] \in Nodes /\ prev[arg] \in Nodes
  BY <1>1, ArgIs DEF RemovePoints
<1>3. /\ In(L, arg) /\ Backward(L, prev)
      /\ call \in {"allocate", "retry", "shrink", "free"}
      /\ call # "free" => mine = arg
      /\ call = "free" => Halves(L)
  BY <1>1 DEF State, RemoveInv, RemovePoints, BackInv
<1>4. PICK s \in Scales : \E i \in 1..Len(L[s]) : L[s][i] = arg
  BY <1>3 DEF In
<1>5. PICK i \in 1..Len(L[s]) : L[s][i] = arg
  BY <1>4
<1>6. PICK M : Removed(L, M, s, i)
  BY DEF Removed
<1>6a. \A u \in Scales : \A j \in 1..Len(M[u]) : scale[M[u][j]] = u
  <2>1. \A u \in Scales : \A j \in 1..Len(L[u]) : scale[L[u][j]] = u
    BY <1>2 DEF ListsInv
  <2> QED
    BY <2>1, <1>2, <1>6, RemovedScales
<1> DEFINE n == Len(L[s])
<1>7. /\ \A u \in Scales : u # s => M[u] = L[u]
      /\ Len(M[s]) = n - 1
      /\ \A j \in 1..(i - 1) : M[s][j] = L[s][j]
      /\ \A j \in i..(n - 1) : M[s][j] = L[s][j + 1]
      /\ Shape(M)
      /\ \A x : In(M, x) <=> In(L, x) /\ x # arg
  BY <1>2, <1>5, <1>6, RemovedFacts
<1>8. /\ n \in Nat /\ i \in 0..n /\ i - 1 \in 0..n /\ i # 0 /\ i # i - 1
      /\ Place(L, s, i) = arg
  BY <1>2, <1>5, ShapeType DEF Place
<1>9. PICK before : before = Place(L, s, i - 1)
  OBVIOUS
<1>10. /\ before \in Nodes /\ before # arg /\ prev[arg] = before
       /\ before \in Blocks => In(L, before)
  <2>1. prev[L[s][i]] = Place(L, s, i - 1)
    BY <1>2, <1>3, <1>5, NodesAre DEF Backward, BackwardBut
  <2>2. Place(L, s, i - 1) \in Nodes /\ Place(L, s, i - 1) # Place(L, s, i)
        /\ (Place(L, s, i - 1) \in Blocks => In(L, Place(L, s, i - 1)))
    BY <1>2, <1>8, Places
  <2> QED
    BY <2>1, <2>2, <1>5, <1>8, <1>9
<1>11. next[arg] = IF i = n THEN arg ELSE L[s][i + 1]
  BY <1>2, <1>8 DEF Forward
<1>12. i # n => L[s][i + 1] # arg
  <2>1. ASSUME i # n PROVE L[s][i + 1] # arg
    <3>1. i + 1 \in 1..n /\ i + 1 # i
      BY <2>1, <1>8
    <3> QED
      BY <3>1, <1>2, <1>5 DEF Shape
  <2> QED
    BY <2>1
<1>13. PICK m \in Nodes, p \in {"self prev", "relink"} :
         /\ StoreNext("process", before, m, p)
         /\ m = IF i = n THEN before ELSE L[s][i + 1]
         /\ p = IF i = n THEN "self prev" ELSE "relink"
  <2>1. CASE is_end_of_list(arg)
    <3>1. i = n
      BY <2>1, <1>11, <1>12 DEF is_end_of_list
    <3>2. StoreNext("process", before, before, "self prev")
      BY <2>1, <1>10 DEF Unlink, arg
    <3> QED
      BY <3>1, <3>2, <1>10
  <2>2. CASE ~is_end_of_list(arg)
    <3>1. i # n
      BY <2>2, <1>11 DEF is_end_of_list
    <3>2. StoreNext("process", before, next[arg], "relink")
      BY <2>2, <1>10 DEF Unlink, arg
    <3> QED
      BY <3>1, <3>2, <1>2, <1>11
  <2> QED
    BY <2>1, <2>2
<1>14. /\ Typed' /\ next' = [next EXCEPT ![before] = m]
       /\ point' = p /\ call' = call /\ mine' = mine /\ arg' = arg /\ head' = head
       /\ UNCHANGED <<prev, is_free, scale, headers, grants>>
  BY <1>10, <1>13, StoreNextFacts DEF Points, RemovePoints
<1>15. Forward(M, next')
  BY <1>2, <1>6, <1>9, <1>13, <1>14, UnlinkForward
<1>16. next'[arg] = next[arg]
  BY <1>2, <1>10, <1>14
<1>17. ListsInv(M)'
  <2>1. \A x \in Blocks : In(M, x) => x \in headers
    BY <1>2, <1>7 DEF ListsInv
  <2>2. \A u \in Scales : \A j \in 1..Len(M[u]) : scale[M[u][j]] = u
    BY <1>6a
  <2>3. \A x \in Blocks \ headers : grants[x] = 0
    BY <1>2 DEF ListsInv
  <2> QED
    BY <2>1, <2>2, <2>3, <1>7, <1>14, <1>15 DEF ListsInv
<1>18. ASSUME NEW y, IF i = n THEN y \notin Blocks ELSE y = L[s][i + 1]
       PROVE  /\ BackwardBut(M, prev, y)
              /\ i # n => /\ i \in 1..Len(M[s])
                          /\ M[s][i] = L[s][i + 1] /\ Place(M, s, i - 1) = before
  <2>1. /\ BackwardBut(M, prev, y)
        /\ i # Len(L[s]) =>
             /\ i \in 1..Len(M[s])
             /\ M[s][i] = L[s][i + 1] /\ Place(M, s, i - 1) = Place(L, s, i - 1)
    <3>1. (i = Len(L[s]) => y \notin Blocks) /\ (i # Len(L[s]) => y = L[s][i + 1])
      BY <1>18
    <3>2. PICK pv : pv = prev
      OBVIOUS
    <3>3. Shape(L) /\ Backward(L, pv) /\ Removed(L, M, s, i)
      BY <1>2, <1>3, <1>6, <3>2
    <3> HIDE DEF n
    <3>4. /\ BackwardBut(M, pv, y)
          /\ i # Len(L[s]) =>
               /\ i \in 1..Len(M[s])
               /\ M[s][i] = L[s][i + 1] /\ Place(M, s, i - 1) = Place(L, s, i - 1)
      BY <3>1, <3>3, UnlinkBackward
    <3> QED
      BY <3>2, <3>4
  <2> QED
    BY <2>1, <1>9
<1>19. BackInv(M)'
  <2>1. CASE i = n
    <3>1. Backward(M, prev)
      BY <2>1, <1>18, NodesAre DEF Backward
    <3> QED
      BY <3>1, <2>1, <1>13, <1>14 DEF BackInv
  <2>2. CASE i # n
    <3>1. BackwardBut(M, prev, next[arg])
      BY <2>2, <1>11, <1>18
    <3> QED
      BY <3>1, <2>2, <1>13, <1>14, <1>16 DEF BackInv
  <2> QED
    BY <2>1, <2>2
<1>20. ASSUME NEW x \in Blocks, ~In(L, x) PROVE next'[x] = next[x]
  BY <1>2, <1>10, <1>14, <1>20 DEF Nodes
<1>21. SettledInv(M)'
  <2>1. ASSUME NEW x \in headers', x \notin Busy' PROVE Settled(M, x)'
    <3>1. x \in headers /\ x \notin Busy /\ x \in Blocks /\ x # arg
      BY <2>1, <1>1, <1>13, <1>14 DEF Busy, AddPoints, RemovePoints, Typed
    <3>2. Settled(L, x)
      BY <3>1 DEF State, SettledInv
    <3> QED
      BY <3>1, <3>2, <1>7, <1>14, <1>20 DEF Settled
  <2> QED
    BY <2>1 DEF SettledInv
<1>22. RemoveInv(M)'
  <2>1. ASSUME Halves(L) PROVE Halves(M)'
    <3>1. Taken(L, mine) /\ mine \in Blocks
      BY <2>1 DEF Halves, Taken, Typed
    <3> QED
      BY <3>1, <2>1, <1>7, <1>14, <1>20 DEF Halves, Taken
  <2>2. ASSUME i # n
        PROVE  \E u \in Scales : \E j \in 1..Len(M[u]) :
                 next'[arg] = M[u][j] /\ prev'[arg] = Place(M, u, j - 1)
    <3>1. i \in 1..Len(M[s]) /\ M[s][i] = L[s][i + 1] /\ Place(M, s, i - 1) = before
      BY <2>2, <1>18
    <3>2. next'[arg] = M[s][i] /\ prev'[arg] = Place(M, s, i - 1)
      BY <3>1, <2>2, <1>10, <1>11, <1>14, <1>16
    <3> QED
      BY <3>1, <3>2
  <2>3. ~In(M, arg)
    BY <1>7
  <2>4. CASE i = n
    BY <2>1, <2>3, <2>4, <1>2, <1>3, <1>13, <1>14 DEF RemoveInv
  <2>5. CASE i # n
    BY <2>1, <2>2, <2>3, <2>5, <1>2, <1>3, <1>13, <1>14 DEF RemoveInv
  <2> QED
    BY <2>4, <2>5
<1>23. AddInv(M)' /\ CallInv(M)'
  BY <1>13, <1>14 DEF AddInv, CallInv, AddPoints
<1>24. State(M)'
  BY <1>17, <1>19, <1>21, <1>22, <1>23 DEF State
<1> QED
  BY <1>2, <1>5, <1>6, <1>14, <1>24

LEMMA RelinkStep ==
  ASSUME Typed, NEW L, State(L), Relink("process")
  PROVE  Typed' /\ State(L)'
<1>1. point = "relink" /\ StorePrev("process", next[arg], prev[arg], "self prev")
  BY DEF Relink, At, point, arg
<1>2. /\ arg \in headers /\ arg \in Blocks /\ arg \in Nodes
      /\ Shape(L) /\ ListsInv(L)
      /\ next[arg] \in Nodes /\ prev[arg] \in Nodes
      /\ prev \in [Nodes -> Nodes]
  BY <1>1, ArgIs DEF RemovePoints
<1>3. /\ BackwardBut(L, prev, next[arg])
      /\ \E s \in Scales : \E i \in 1..Len(L[s]) :
           next[arg] = L[s][i] /\ prev[arg] = Place(L, s, i - 1)
  BY <1>1 DEF State, RemoveInv, RemovePoints, BackInv
<1>4. PICK s \in Scales : \E i \in 1..Len(L[s]) :
           next[arg] = L[s][i] /\ prev[arg] = Place(L, s, i - 1)
  BY <1>3
<1>5. PICK i \in 1..Len(L[s]) : next[arg] = L[s][i] /\ prev[arg] = Place(L, s, i - 1)
  BY <1>4
<1>6. PICK y : y = L[s][i]
  OBVIOUS
<1>7. y \in Nodes /\ In(L, y)
  BY <1>2, <1>6, ShapeType DEF Nodes
<1>8. /\ Typed' /\ prev' = [prev EXCEPT ![y] = Place(L, s, i - 1)]
      /\ point' = "self prev" /\ call' = call /\ mine' = mine /\ arg' = arg /\ head' = head
      /\ UNCHANGED <<next, is_free, scale, headers, grants>>
  <2>1. "self prev" \in Points
    BY DEF Points, RemovePoints
  <2> QED
    BY <2>1, <1>1, <1>2, <1>5, <1>6, StorePrevFacts
<1>9. ListsInv(L)'
  BY <1>2, <1>8 DEF ListsInv
<1>10. BackInv(L)'
  <2>1. PICK pv \in [Nodes -> Nodes] : pv = prev
    BY <1>2
  <2>2. BackwardBut(L, pv, L[s][i]) /\ prev' = [pv EXCEPT ![L[s][i]] = Place(L, s, i - 1)]
    BY <2>1, <1>3, <1>5, <1>6, <1>8
  <2>3. Backward(L, prev')
    BY <2>2, <1>2, MendBackward
  <2> QED
    BY <2>3, <1>8 DEF BackInv
<1>11. ASSUME NEW x \in headers, ~In(L, x) PROVE prev'[x] = prev[x]
  <2>1. x \in Nodes /\ x # y
    BY <1>7, <1>11 DEF Typed, Nodes
  <2> QED
    BY <2>1, <1>2, <1>8
<1>12. SettledInv(L)'
  BY <1>1, <1>8, <1>11 DEF State, SettledInv, Settled, Busy, AddPoints, RemovePoints
<1>13. RemoveInv(L)'
  <2>1. ASSUME Halves(L) PROVE Halves(L)'
    <3>1. Taken(L, mine)
      BY <2>1 DEF Halves
    <3> QED
      BY <3>1, <2>1, <1>8, <1>11 DEF Halves, Taken
  <2> QED
    BY <2>1, <1>1, <1>8 DEF State, RemoveInv, RemovePoints
<1>14. AddInv(L)' /\ CallInv(L)'
  BY <1>8 DEF AddInv, CallInv, AddPoints
<1> QED
  BY <1>8, <1>9, <1>10, <1>12, <1>13, <1>14 DEF State

LEMMA SelfPrevStep ==
  ASSUME Typed, NEW L, State(L), SelfPrev("process")
  PROVE  Typed' /\ State(L)'
<1>1. point = "self prev" /\ StorePrev("process", arg, arg, "self next")
  BY DEF SelfPrev, At, point, arg
<1>2. /\ arg \in headers /\ arg \in Blocks /\ arg \in Nodes
      /\ Shape(L) /\ ListsInv(L) /\ prev \in [Nodes -> Nodes]
  BY <1>1, ArgIs DEF RemovePoints
<1>3. Backward(L, prev) /\ ~In(L, arg)
  BY <1>1 DEF State, RemoveInv, RemovePoints, BackInv
<1>4. /\ Typed' /\ prev' = [prev EXCEPT ![arg] = arg]
      /\ point' = "self next" /\ call' = call /\ mine' = mine /\ arg' = arg /\ head' = head
      /\ UNCHANGED <<next, is_free, scale, headers, grants>>
  <2>1. "self next" \in Points
    BY DEF Points, RemovePoints
  <2> QED
    BY <2>1, <1>1, <1>2, StorePrevFacts
<1>5. ListsInv(L)'
  BY <1>2, <1>4 DEF ListsInv
<1>6. BackInv(L)'
  <2>1. Backward(L, prev')
    BY <1>2, <1>3, <1>4, LinksOutside DEF Backward
  <2> QED
    BY <2>1, <1>4 DEF BackInv
<1>7. prev'[arg] = arg /\ \A x \in headers : x # arg => prev'[x] = prev[x]
  BY <1>2, <1>4 DEF Typed, Nodes
<1>8. SettledInv(L)'
  BY <1>1, <1>4, <1>7 DEF State, SettledInv, Settled, Busy, AddPoints, RemovePoints
<1>9. RemoveInv(L)'
  <2>1. ASSUME Halves(L) PROVE Halves(L)'
    BY <2>1, <1>4, <1>7 DEF Halves, Taken
  <2> QED
    BY <2>1, <1>1, <1>4, <1>7 DEF State, RemoveInv, RemovePoints
<1>10. AddInv(L)' /\ CallInv(L)'
  BY <1>4 DEF AddInv, CallInv, AddPoints
<1> QED
  BY <1>4, <1>5, <1>6, <1>8, <1>9, <1>10 DEF State

LEMMA SelfNextStep ==
  ASSUME Typed, NEW L, State(L), SelfNext("process")
  PROVE  Typed' /\ State(L)'
<1>1. point = "self next" /\ StoreNext("process", arg, arg, "unmark")
  BY DEF SelfNext, At, point, arg
<1>2. /\ arg \in headers /\ arg \in Blocks /\ arg \in Nodes
      /\ Shape(L) /\ Forward(L, next) /\ ListsInv(L) /\ next \in [Nodes -> Nodes]
  BY <1>1, ArgIs DEF RemovePoints
<1>3. Backward(L, prev) /\ ~In(L, arg) /\ prev[arg] = arg
  BY <1>1 DEF State, RemoveInv, RemovePoints, BackInv
<1>4. /\ Typed' /\ next' = [next EXCEPT ![arg] = arg]
      /\ point' = "unmark" /\ call' = call /\ mine' = mine /\ arg' = arg /\ head' = head
      /\ UNCHANGED <<prev, is_free, scale, headers, grants>>
  <2>1. "unmark" \in Points
    BY DEF Points, RemovePoints
  <2> QED
    BY <2>1, <1>1, <1>2, StoreNextFacts
<1>5. Forward(L, next')
  BY <1>2, <1>3, <1>4, LinksOutside
<1>6. ListsInv(L)' /\ BackInv(L)'
  BY <1>2, <1>3, <1>4, <1>5 DEF ListsInv, BackInv
<1>7. next'[arg] = arg /\ \A x \in headers : x # arg => next'[x] = next[x]
  BY <1>2, <1>4 DEF Typed, Nodes
<1>8. SettledInv(L)'
  BY <1>1, <1>4, <1>7 DEF State, SettledInv, Settled, Busy, AddPoints, RemovePoints
<1>9. RemoveInv(L)'
  <2>1. ASSUME Halves(L) PROVE Halves(L)'
    BY <2>1, <1>4, <1>7 DEF Halves, Taken
  <2> QED
    BY <2>1, <1>1, <1>3, <1>4, <1>7 DEF State, RemoveInv, RemovePoints
<1>10. AddInv(L)' /\ CallInv(L)'
  BY <1>4 DEF AddInv, CallInv, AddPoints
<1> QED
  BY <1>4, <1>6, <1>8, <1>9, <1>10 DEF State

LEMMA UnmarkStep ==
  ASSUME Typed, NEW L, State(L), Unmark("process")
  PROVE  Typed' /\ State(L)'
<1>1. point = "unmark" /\ StoreFree("process", FALSE, "removed")
  BY DEF Unmark, At, point
<1>2. /\ arg \in headers /\ arg \in Blocks
      /\ Shape(L) /\ ListsInv(L) /\ grants[arg] = 0
  BY <1>1, ArgIs DEF RemovePoints
<1>3. /\ Backward(L, prev) /\ ~In(L, arg) /\ prev[arg] = arg /\ next[arg] = arg
      /\ call \in {"allocate", "retry", "shrink", "free"}
      /\ call # "free" => mine = arg
      /\ call = "free" => Halves(L)
  BY <1>1 DEF State, RemoveInv, RemovePoints, BackInv
<1>4. /\ Typed' /\ is_free' = [is_free EXCEPT ![arg] = FALSE]
      /\ point' = "removed" /\ call' = call /\ mine' = mine /\ arg' = arg /\ head' = head
      /\ UNCHANGED <<next, prev, scale, headers, grants>>
  <2>1. "removed" \in Points
    BY DEF Points
  <2> QED
    BY <2>1, <1>1, StoreFreeFacts
<1>5. is_free'[arg] = FALSE /\ \A x \in headers : x # arg => is_free'[x] = is_free[x]
  BY <1>2, <1>4 DEF Typed
<1>6. ListsInv(L)' /\ BackInv(L)'
  BY <1>2, <1>3, <1>4 DEF ListsInv, BackInv
<1>7. Taken(L, arg)'
  BY <1>2, <1>3, <1>4, <1>5 DEF Taken
<1>8. ASSUME Halves(L) PROVE Halves(L)'
  BY <1>8, <1>4, <1>5 DEF Halves, Taken
<1>9. SettledInv(L)'
  BY <1>1, <1>3, <1>4, <1>5 DEF State, SettledInv, Settled, Busy, AddPoints, RemovePoints
<1>10. CallInv(L)'
  <2>1. call = "free" => Taken(L, mine)' /\ Halves(L)'
    BY <1>3, <1>8 DEF Halves
  <2>2. call # "free" => Taken(L, mine)'
    BY <1>3, <1>4, <1>7 DEF Taken
  <2> QED
    BY <2>1, <2>2, <1>3, <1>4, <1>7 DEF CallInv
<1>11. AddInv(L)' /\ RemoveInv(L)'
  BY <1>4 DEF AddInv, RemoveInv, AddPoints, RemovePoints
<1> QED
  BY <1>4, <1>6, <1>9, <1>10, <1>11 DEF State

-----------------------------------------------------------------------------
(* Every step changes the lists as an operation on sequences does, or not. *)

Moves(L, M) ==
    \/ M = L
    \/ \E b \in Blocks, s \in Scales : ~In(L, b) /\ Added(L, M, b, s)
    \/ \E s \in Scales : \E i \in 1..Len(L[s]) : L[s][i] \in Blocks /\ Removed(L, M, s, i)

LEMMA InitState ==
  ASSUME Init
  PROVE  \E b \in Blocks : \E L :
           /\ L = [s \in Scales |-> IF s = MaxScale THEN <<b>> ELSE <<>>]
           /\ Typed /\ State(L)
<1>1. PICK b \in Blocks :
        /\ next = [n \in Nodes |-> IF n = MaxScale THEN b ELSE n]
        /\ prev = [n \in Nodes |-> IF n = b THEN MaxScale ELSE n]
        /\ is_free = [x \in Blocks |-> x = b]
        /\ scale = [x \in Blocks |-> MaxScale]
        /\ headers = {b} /\ grants = [x \in Blocks |-> 0]
        /\ pc = [t \in Threads |-> "ready"] /\ op = [t \in Threads |-> "none"]
        /\ held = [t \in Threads |-> NoBlock] /\ blk = [t \in Threads |-> NoBlock]
        /\ list = [t \in Threads |-> MinScale]
        /\ request = [t \in Threads |-> MinScale]
  BY Zenon DEF Init
<1>2. PICK L : L = [s \in Scales |-> IF s = MaxScale THEN <<b>> ELSE <<>>]
  OBVIOUS
<1>3. /\ point = "ready" /\ call = "none" /\ mine = NoBlock
      /\ b \in Nodes /\ MaxScale \in Nodes /\ MaxScale # b /\ MaxScale \in Scales
      /\ Blocks \subseteq Nodes /\ Scales \subseteq Nodes
  BY <1>1, NodesAre DEF point, call, mine, Threads, Nodes
<1>4. Typed
  <2>1. next \in [Nodes -> Nodes] /\ prev \in [Nodes -> Nodes]
    BY <1>1, <1>3
  <2>2. is_free \in [Blocks -> BOOLEAN] /\ scale \in [Blocks -> Scales] /\ grants \in [Blocks -> Int]
    BY <1>1, <1>3
  <2>3. pc \in [Threads -> Points] /\ pc["keyboard"] = "ready"
    BY <1>1 DEF Points, Threads
  <2>4. /\ op \in [Threads -> {"none", "allocate", "retry", "free", "shrink"}]
        /\ held \in [Threads -> Blocks \cup {NoBlock}]
        /\ blk \in [Threads -> Blocks \cup {NoBlock}]
        /\ list \in [Threads -> Scales] /\ request \in [Threads -> Scales]
    BY <1>1, NodesAre
  <2> QED
    BY <2>1, <2>2, <2>3, <2>4, <1>1 DEF Typed
<1>5. /\ \A s \in Scales : Len(L[s]) = IF s = MaxScale THEN 1 ELSE 0
      /\ L[MaxScale][1] = b
  BY <1>2, <1>3
<1>6. Shape(L)
  <2>1. L \in [Scales -> Seq(Blocks)]
    BY <1>2
  <2>2. ASSUME NEW s \in Scales, NEW u \in Scales,
               NEW i \in 1..Len(L[s]), NEW j \in 1..Len(L[u])
        PROVE  s = u /\ i = j
    BY <1>5
  <2> QED
    BY <2>1, <2>2 DEF Shape
<1>7. \A x : In(L, x) <=> x = b
  <2>1. In(L, b)
    <3>1. 1 \in 1..Len(L[MaxScale])
      BY <1>3, <1>5
    <3> QED
      BY <3>1, <1>3, <1>5 DEF In
  <2>2. ASSUME NEW x, In(L, x) PROVE x = b
    <3>1. PICK s \in Scales : \E i \in 1..Len(L[s]) : L[s][i] = x
      BY <2>2 DEF In
    <3>2. PICK i \in 1..Len(L[s]) : L[s][i] = x
      BY <3>1
    <3>3. s = MaxScale /\ i = 1
      BY <1>5
    <3> QED
      BY <3>2, <3>3, <1>5
  <2> QED
    BY <2>1, <2>2
<1>8. Forward(L, next)
  <2>1. ASSUME NEW s \in Scales, NEW i \in 0..Len(L[s])
        PROVE  next[Place(L, s, i)] = IF i = Len(L[s]) THEN Place(L, s, i) ELSE L[s][i + 1]
    <3>1. CASE s = MaxScale /\ i = 0
      <4>1. Place(L, s, i) = MaxScale /\ i # Len(L[s]) /\ i + 1 = 1
        BY <3>1, <1>5 DEF Place
      <4>2. next[MaxScale] = b
        BY <1>1, <1>3
      <4> QED
        BY <4>1, <4>2, <3>1, <1>5
    <3>2. CASE s = MaxScale /\ i # 0
      <4>1. i = 1 /\ Place(L, s, i) = b /\ i = Len(L[s])
        BY <3>2, <1>5 DEF Place
      <4>2. next[b] = b
        BY <1>1, <1>3
      <4> QED
        BY <4>1, <4>2
    <3>3. CASE s # MaxScale
      <4>1. i = 0 /\ Place(L, s, i) = s /\ i = Len(L[s])
        BY <3>3, <1>5 DEF Place
      <4>2. next[s] = s
        BY <3>3, <1>1, <1>3
      <4> QED
        BY <4>1, <4>2
    <3> QED
      BY <3>1, <3>2, <3>3
  <2> QED
    BY <2>1 DEF Forward
<1>9. Backward(L, prev)
  <2>1. ASSUME NEW s \in Scales, NEW i \in 1..Len(L[s])
        PROVE  prev[L[s][i]] = Place(L, s, i - 1)
    <3>1. s = MaxScale /\ i = 1 /\ i - 1 = 0
      BY <1>5
    <3>2. prev[b] = MaxScale
      BY <1>1, <1>3
    <3> QED
      BY <3>1, <3>2, <1>5 DEF Place
  <2> QED
    BY <2>1 DEF Backward, BackwardBut
<1>10. ListsInv(L)
  <2>1. \A s \in Scales : \A i \in 1..Len(L[s]) : scale[L[s][i]] = s
    <3> SUFFICES ASSUME NEW s \in Scales, NEW i \in 1..Len(L[s]) PROVE scale[L[s][i]] = s
      OBVIOUS
    <3>1. s = MaxScale /\ i = 1
      BY <1>5
    <3> QED
      BY <3>1, <1>1, <1>5
  <2> QED
    BY <2>1, <1>1, <1>6, <1>7, <1>8 DEF ListsInv
<1>11. BackInv(L)
  BY <1>3, <1>9 DEF BackInv
<1>12. SettledInv(L)
  <2>1. is_free[b] /\ grants[b] = 0
    BY <1>1
  <2> QED
    BY <2>1, <1>1, <1>7 DEF SettledInv, Settled
<1>13. AddInv(L) /\ RemoveInv(L) /\ CallInv(L)
  BY <1>3 DEF AddInv, RemoveInv, CallInv, AddPoints, RemovePoints
<1> QED
  BY <1>2, <1>4, <1>10, <1>11, <1>12, <1>13 DEF State

\* With interrupts disabled only the process has steps.
LEMMA ProcessOnly ==
  ASSUME Interrupts = FALSE, Typed, Next
  PROVE  LET t == "process"
         IN  \/ AddToFreeList(t) \/ RemoveFromFreeList(t)
             \/ \E s \in Scales : Allocate(t, s)
             \/ SearchUp(t) \/ Found(t) \/ Grow(t) \/ SearchAgain(t) \/ GiveUp(t)
             \/ Split(t) \/ SplitDone(t) \/ Grant(t)
             \/ \E b \in Blocks : Free(t, b) \/ FreeBuddy(t, b)
             \/ Merge(t) \/ AddFreed(t) \/ Shrink(t) \/ Freed(t)
<1>1. pc["keyboard"] = "ready"
  BY DEF Typed
<1>2. ~MayCall("keyboard")
  BY DEF MayCall
<1>3. \A p : At("keyboard", p) => p = "ready"
  BY <1>1 DEF At
<1> DEFINE t == "keyboard"
<1>4. ~AddToFreeList(t) /\ ~RemoveFromFreeList(t)
  BY <1>3 DEF AddToFreeList, RemoveFromFreeList, Push, Backlink, Link, PrevIsHead, MarkFree,
              Unlink, Relink, SelfPrev, SelfNext, Unmark
<1>5. /\ ~\E s \in Scales : Allocate(t, s)
      /\ ~\E b \in Blocks : Free(t, b) \/ FreeBuddy(t, b)
  BY <1>2, <1>3 DEF Allocate, Free, FreeBuddy
<1>6. /\ ~SearchUp(t) /\ ~Found(t) /\ ~Grow(t) /\ ~SearchAgain(t) /\ ~GiveUp(t)
      /\ ~Split(t) /\ ~SplitDone(t) /\ ~Grant(t)
      /\ ~Merge(t) /\ ~AddFreed(t) /\ ~Shrink(t) /\ ~Freed(t)
  BY <1>3 DEF SearchUp, Found, Grow, SearchAgain, GiveUp, Split, SplitDone, Grant,
              Merge, AddFreed, Shrink, Freed
<1> QED
  BY <1>4, <1>5, <1>6 DEF Next, Threads

LEMMA NextState ==
  ASSUME Interrupts = FALSE, Typed, NEW L, State(L), [Next]_vars
  PROVE  Typed' /\ \E M : State(M)' /\ Moves(L, M)
<1> DEFINE t == "process"
<1>0. Typed' /\ State(L)' => Typed' /\ \E M : State(M)' /\ Moves(L, M)
  BY DEF Moves
<1>1. CASE Push(t) \/ Backlink(t) \/ PrevIsHead(t) \/ MarkFree(t)
  BY <1>0, <1>1, PushStep, BacklinkStep, PrevIsHeadStep, MarkFreeStep
<1>2. CASE Link(t)
  BY <1>2, LinkStep DEF Moves
<1>3. CASE Relink(t) \/ SelfPrev(t) \/ SelfNext(t) \/ Unmark(t)
  BY <1>0, <1>3, RelinkStep, SelfPrevStep, SelfNextStep, UnmarkStep
<1>4. CASE Unlink(t)
  BY <1>4, UnlinkStep DEF Moves
<1>5. CASE \/ \E s \in Scales : Allocate(t, s)
           \/ SearchUp(t) \/ Found(t) \/ Grow(t) \/ SearchAgain(t) \/ GiveUp(t)
  BY <1>0, <1>5, AllocateStep, SearchUpStep, FoundStep, GrowStep, SearchAgainStep, GiveUpStep
<1>6. CASE Split(t) \/ SplitDone(t) \/ Grant(t)
  BY <1>0, <1>6, SplitStep, SplitDoneStep, GrantStep
<1>7. CASE \E b \in Blocks : Free(t, b) \/ FreeBuddy(t, b)
  BY <1>0, <1>7, FreeStep, FreeBuddyStep
<1>8. CASE Merge(t) \/ AddFreed(t) \/ Shrink(t) \/ Freed(t)
  BY <1>0, <1>8, MergeStep, AddFreedStep, ShrinkStep, FreedStep
<1>9. CASE UNCHANGED vars
  <2>1. Typed'
    BY <1>9 DEF vars, memory, locals, Typed
  <2>2. ListsInv(L)' /\ SettledInv(L)' /\ BackInv(L)'
    BY <1>9 DEF vars, memory, locals, State, ListsInv, SettledInv, Settled, Busy, BackInv,
                point, call, mine, arg
  <2>3. AddInv(L)' /\ RemoveInv(L)' /\ CallInv(L)'
    BY <1>9 DEF vars, memory, locals, State, AddInv, RemoveInv, CallInv, Taken, Halves,
                point, call, mine, arg, head
  <2> QED
    BY <1>0, <2>1, <2>2, <2>3 DEF State
<1>10. CASE Next
  BY <1>10, <1>1, <1>2, <1>3, <1>4, <1>5, <1>6, <1>7, <1>8, ProcessOnly, Zenon
  DEF AddToFreeList, RemoveFromFreeList
<1> QED
  BY <1>9, <1>10

\* The pointers of the free lists always spell some sequences, with the gaps
\* that the operation under way has made and not yet mended.
THEOREM FreeListInvariance ==
  ASSUME Interrupts = FALSE
  PROVE  Spec => []FreeListIInv
<1>1. Init => FreeListIInv
  BY InitState DEF FreeListIInv
<1>2. FreeListIInv /\ [Next]_vars => FreeListIInv'
  BY NextState DEF FreeListIInv
<1> QED
  BY <1>1, <1>2, PTL DEF Spec

-----------------------------------------------------------------------------
(* What a reader of the lists sees between calls.                          *)

LEMMA ListedIs ==
  ASSUME NEW L, Shape(L), Forward(L, next)
  PROVE  /\ \A s \in Scales : Walk(s) = L[s] /\ ToSet(Walk(s)) = {L[s][i] : i \in 1..Len(L[s])}
         /\ \A x : x \in Listed <=> In(L, x)
<1>1. \A s \in Scales : Walk(s) = L[s]
  <2>1. \A s \in Scales : Walk(s) = WalkFrom(next, s)
    BY DEF Walk, WalkFrom, is_end_of_list
  <2> QED
    BY <2>1, WalkMeetsList
<1>2. \A s \in Scales : ToSet(Walk(s)) = {L[s][i] : i \in 1..Len(L[s])}
  BY <1>1, ShapeType DEF ToSet
<1>3. \A x : x \in Listed <=> \E s \in Scales : x \in ToSet(Walk(s))
  BY DEF Listed
<1>4. ASSUME NEW x PROVE x \in Listed <=> In(L, x)
  BY <1>2, <1>3 DEF In
<1> QED
  BY <1>1, <1>2, <1>4

LEMMA StateIsWellLinked ==
  ASSUME Typed, NEW L, State(L)
  PROVE  WellLinked
<1> SUFFICES ASSUME \A t \in Threads : pc[t] = "ready"
             PROVE  /\ \A n \in Scales \cup Listed : ~is_end_of_list(n) => prev[next[n]] = n
                    /\ \A s \in Scales : \A b \in ToSet(Walk(s)) : scale[b] = s
                    /\ Listed \subseteq headers
                    /\ \A b \in headers :
                         /\ is_free[b] <=> b \in Listed
                         /\ LooksGranted(b) <=> b \notin Listed
                         /\ grants[b] = IF b \in Listed THEN 0 ELSE 1
  BY DEF WellLinked
<1>1. point = "ready"
  BY DEF point, Threads
<1>2. /\ Shape(L) /\ Forward(L, next) /\ Backward(L, prev) /\ headers \subseteq Blocks
      /\ \A x \in Blocks : In(L, x) => x \in headers
      /\ \A s \in Scales : \A i \in 1..Len(L[s]) : scale[L[s][i]] = s
  BY <1>1 DEF State, ListsInv, BackInv, Typed
<1>3. \A x \in headers : Settled(L, x)
  BY <1>1 DEF State, SettledInv, Busy, RemovePoints, AddPoints
<1>4. /\ \A s \in Scales : ToSet(Walk(s)) = {L[s][i] : i \in 1..Len(L[s])}
      /\ \A x : x \in Listed <=> In(L, x)
  BY <1>2, ListedIs
<1>5. ASSUME NEW s \in Scales, NEW i \in 0..Len(L[s]), ~is_end_of_list(Place(L, s, i))
      PROVE  prev[next[Place(L, s, i)]] = Place(L, s, i)
  <2>1. i # Len(L[s]) /\ next[Place(L, s, i)] = L[s][i + 1]
    BY <1>2, <1>5 DEF Forward, is_end_of_list
  <2>2. i + 1 \in 1..Len(L[s]) /\ (i + 1) - 1 = i
    BY <2>1, <1>2, ShapeType
  <2>3. L[s][i + 1] # NoBlock
    BY <2>2, <1>2, ShapeType, NodesAre
  <2>4. prev[L[s][i + 1]] = Place(L, s, (i + 1) - 1)
    BY <2>2, <2>3, <1>2 DEF Backward, BackwardBut
  <2> QED
    BY <2>1, <2>2, <2>4
<1>6. ASSUME NEW n \in Scales \cup Listed, ~is_end_of_list(n) PROVE prev[next[n]] = n
  <2>1. CASE n \in Scales
    <3>1. 0 \in 0..Len(L[n]) /\ Place(L, n, 0) = n
      BY <2>1, <1>2, ShapeType DEF Place
    <3> QED
      BY <2>1, <3>1, <1>5, <1>6
  <2>2. CASE In(L, n)
    <3>1. PICK s \in Scales : \E i \in 1..Len(L[s]) : L[s][i] = n
      BY <2>2 DEF In
    <3>2. PICK i \in 1..Len(L[s]) : L[s][i] = n
      BY <3>1
    <3>3. i \in 0..Len(L[s]) /\ Place(L, s, i) = n
      BY <3>2, <1>2, ShapeType DEF Place
    <3> QED
      BY <3>3, <1>5, <1>6
  <2> QED
    BY <2>1, <2>2, <1>4
<1>7. \A s \in Scales : \A b \in ToSet(Walk(s)) : scale[b] = s
  BY <1>2, <1>4
<1>8. Listed \subseteq headers
  <2>1. \A x : In(L, x) => x \in Blocks
    BY <1>2, ShapeType DEF In
  <2> QED
    BY <2>1, <1>2, <1>4
<1>9. ASSUME NEW b \in headers
      PROVE  /\ is_free[b] <=> b \in Listed
             /\ LooksGranted(b) <=> b \notin Listed
             /\ grants[b] = IF b \in Listed THEN 0 ELSE 1
  <2>1. Settled(L, b) /\ (b \in Listed <=> In(L, b))
    BY <1>3, <1>4
  <2>2. In(L, b) => prev[b] # b
    BY <1>2, ListedIsRefused
  <2> QED
    BY <2>1, <2>2 DEF Settled, LooksGranted
<1> QED
  BY <1>6, <1>7, <1>8, <1>9

\* heap.c:46 and heap.c:81: whatever calls have been made, between calls every
\* free list can be walked forth and back, holds the blocks of its scale, and
\* tells with the headers which blocks are free and which are granted, once.
THEOREM ListsStayLinked ==
  ASSUME Interrupts = FALSE
  PROVE  Spec => []WellLinked
<1>1. FreeListIInv => WellLinked
  BY StateIsWellLinked DEF FreeListIInv
<1> QED
  BY <1>1, FreeListInvariance, PTL

LEMMA MovesAreOperations ==
  ASSUME NEW L, Shape(L), NEW M, Moves(L, M), lists = L, lists' = M
  PROVE  [Contract!Next]_lists
<1>1. CASE M = L
  BY <1>1
<1>2. ASSUME NEW b \in Blocks, NEW s \in Scales, ~In(L, b), Added(L, M, b, s)
      PROVE  Contract!Next
  <2>1. ~Contract!IsListed(b)
    <3>1. \A u \in Scales : DOMAIN L[u] = 1..Len(L[u])
      BY ShapeType
    <3> QED
      BY <3>1, <1>2 DEF Contract!IsListed, Contract!Scales, Scales, Contract!ToSet, In
  <2>2. Contract!AddToFreeList(b, s)
    BY <2>1, <1>2 DEF Contract!AddToFreeList, Contract!Cons, Added, Cons
  <2>3. s \in Contract!Scales
    BY DEF Contract!Scales, Scales
  <2> QED
    BY <2>2, <2>3 DEF Contract!Next
<1>3. ASSUME NEW s \in Scales, NEW i \in 1..Len(L[s]), L[s][i] \in Blocks, Removed(L, M, s, i)
      PROVE  Contract!Next
  <2>1. i \in DOMAIN lists[s]
    BY ShapeType
  <2>2. Contract!RemoveFromFreeList(L[s][i], s)
    BY <2>1, <1>3 DEF Contract!RemoveFromFreeList, Contract!RemoveAt, Removed, RemoveAt
  <2>3. s \in Contract!Scales
    BY DEF Contract!Scales, Scales
  <2> QED
    BY <2>2, <2>3, <1>3 DEF Contract!Next
<1> QED
  BY <1>1, <1>2, <1>3 DEF Moves

\* heap.c:46 and heap.c:81: each add and each remove changes the sequences that
\* a walk meets at one of its stores, as the operation on sequences does.
THEOREM PointersImplementLists ==
  ASSUME Interrupts = FALSE
  PROVE  Spec => ImplementsLists
<1>1. Init => Contract!Init
  <2>1. SUFFICES ASSUME Init PROVE Contract!Init
    OBVIOUS
  <2>2. PICK b \in Blocks :
          \E L : /\ L = [s \in Scales |-> IF s = MaxScale THEN <<b>> ELSE <<>>]
                 /\ Typed /\ State(L)
    BY <2>1, InitState
  <2>3. PICK L : /\ L = [s \in Scales |-> IF s = MaxScale THEN <<b>> ELSE <<>>]
                 /\ Typed /\ State(L)
    BY <2>2
  <2>4. lists = L
    BY <2>3, ListsAre DEF State, ListsInv
  <2> QED
    BY <2>3, <2>4 DEF Contract!Init, Contract!Scales, Scales
<1>2. FreeListIInv /\ [Next]_vars => [Contract!Next]_lists
  <2>1. SUFFICES ASSUME FreeListIInv, [Next]_vars PROVE [Contract!Next]_lists
    OBVIOUS
  <2>2. PICK L : State(L)
    BY <2>1 DEF FreeListIInv
  <2>3. PICK M : State(M)' /\ Moves(L, M)
    BY <2>1, <2>2, NextState DEF FreeListIInv
  <2>4. Shape(L) /\ Forward(L, next) /\ Shape(M) /\ Forward(M, next')
    BY <2>2, <2>3 DEF State, ListsInv
  <2>5. lists = L /\ lists' = M
    BY <2>4, ListsAre
  <2> QED
    BY <2>3, <2>4, <2>5, MovesAreOperations
<1> QED
  BY <1>1, <1>2, FreeListInvariance, PTL DEF Spec, ImplementsLists, Contract!Spec

=============================================================================
