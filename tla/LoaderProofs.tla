----------------------------- MODULE LoaderProofs -----------------------------
(***************************************************************************)
(* What Loader promises, for every size of the address space, of the file  *)
(* and of its headers: the block spans the segments, nothing beyond it is  *)
(* written, what stands there is the last segment copied over each of its  *)
(* bytes, and a call that fails keeps nothing.                             *)
(***************************************************************************)
EXTENDS Loader, WellFoundedInduction, TLAPS

LoadPoints == {"check", "scan", "allocate", "copy", "stack", "start", "running",
               "halted", "error"}

\* The points at which the block for the program is there.
HasBlock == {"copy", "stack", "start", "running"}

LoaderTyped ==
    /\ entry \in Nat
    /\ header \in UNION {[1..n -> Headers] : n \in 0..MaxHeaders}
    /\ pc \in LoadPoints /\ i \in Nat \ {0}
    /\ size \in Addresses /\ min_vaddr \in Addresses

\* What the heap counts as in use, by how far the call is.
HeldInv ==
    /\ pc \in {"check", "scan", "allocate", "error"} => held = {}
    /\ pc \in {"copy", "stack"} => held = {"text"}
    /\ pc \in {"start", "running", "halted"} => held = {"text", "stack"}

LoadedAmong(N) == {h \in {header[n] : n \in N} : h.load}

\* The headers that the pass over them has seen, and their segments.
SeenHeaders == {n \in DOMAIN header : n < i}
Seen == LoadedAmong(SeenHeaders)

End(h) == h.vaddr + h.memsz

\* What min_vaddr and size are after a pass over S: the block begins with the
\* lowest segment, holds each that takes memory, and ends with one.
Spanned(S, base, room) ==
    /\ S = {} => room = 0 /\ base = AddressSpace - 1
    /\ S # {} => \E h \in S : base = h.vaddr
    /\ \A h \in S : base <= h.vaddr /\ (h.memsz > 0 => End(h) <= base + room)
    /\ room > 0 => \E h \in S : End(h) = base + room

SpanInv ==
    /\ pc = "check" => Spanned({}, min_vaddr, size)
    /\ pc = "scan" => Spanned(Seen, min_vaddr, size)
    /\ pc \in HasBlock \cup {"allocate"} => Spanned(Segments, min_vaddr, size)
    /\ pc \in HasBlock => size > 0 /\ TextSpace + size <= AddressSpace

Unwritten == [a \in Memory |-> IF a < FileLen THEN a + 1 ELSE Other]

\* The segments of the headers N have been copied, one over the other.
CopiedOver(N) ==
    \A n \in N : \A k \in 0..(header[n].memsz - 1) :
        LastWith(N, n, k) => memory[TextSpace + k] = ImageByte(header[n], k)

\* During the second pass those that have had their turn have been.
ImageInv ==
    /\ pc \in {"check", "scan", "allocate"} => memory = Unwritten
    /\ pc \in HasBlock =>
         /\ memory = [a \in Memory |-> memory[a]]
         /\ StaysInBlock
         /\ CopiedOver(IF pc = "copy" THEN SeenHeaders ELSE DOMAIN header)
    /\ pc = "running" => start = Wrap(TextSpace + entry - min_vaddr)

LoaderIInv ==
    /\ LoaderTyped /\ HeldInv
    /\ WellFormed => SpanInv /\ ImageInv

-----------------------------------------------------------------------------
(* Numbers and memories.                                                   *)

\* A set of numbers has a least one.
LEMMA Least ==
  ASSUME NEW T \in SUBSET Nat, T # {}
  PROVE  \E n \in T : \A k \in T : n <= k
<1> DEFINE R == OpToRel(<, Nat)
<1>1. IsWellFoundedOn(R, Nat)
  BY NatLessThanWellFounded
<1>2. \E x \in T : \A y \in T : <<y, x>> \notin R
  <2> HIDE DEF R
  <2> QED
    BY <1>1, WFMin
<1>3. \A x \in T, y \in T : <<y, x>> \notin R => x <= y
  BY DEF OpToRel
<1> QED
  BY <1>2, <1>3

\* A sum wraps to itself as long as it is an address.
LEMMA WrapInside ==
  ASSUME NEW n \in Addresses
  PROVE  Wrap(n) = n
BY LoaderAssumption DEF Wrap, Addresses

LEMMA WrapIsAddress ==
  ASSUME NEW n \in Int
  PROVE  Wrap(n) \in Addresses
BY LoaderAssumption DEF Wrap, Addresses

\* m with the n bytes from src on at dest too.
Overlaid(m, dest, src, n) ==
    [a \in DOMAIN m |-> IF a \in dest..(dest + n - 1) THEN m[src + (a - dest)] ELSE m[a]]

\* memcpy of string.c copies byte by byte, from the first: to a place below its
\* source or past its end, that is the same as all bytes at once.
LEMMA MemcpyCopies ==
  ASSUME NEW m, NEW D \in SUBSET Int, m = [a \in D |-> m[a]],
         NEW dest \in Int, NEW src \in Int, NEW n \in Nat,
         src..(src + n - 1) \subseteq D, dest <= src \/ src + n <= dest
  PROVE  memcpy(m, dest, src, n) = Overlaid(m, dest, src, n)
<1> DEFINE Byte(f, k) == IF k = 0 THEN m
                         ELSE [f[k - 1] EXCEPT ![dest + k - 1] = f[k - 1][src + k - 1]]
           Step(f) == [k \in 0..n |-> Byte(f, k)]
           goal == [k \in 0..n |-> Overlaid(m, dest, src, k)]
           after == CHOOSE f : f = Step(f)
           Bad == {k \in 0..n : after[k] # goal[k]}
<1>1. DOMAIN m = D
  OBVIOUS
<1>2. \A k \in 1..n : Overlaid(m, dest, src, k)
          = [Overlaid(m, dest, src, k - 1) EXCEPT ![dest + k - 1] =
                Overlaid(m, dest, src, k - 1)[src + k - 1]]
  <2> TAKE k \in 1..n
  <2> DEFINE old == Overlaid(m, dest, src, k - 1)
  <2>1. src + k - 1 \in D /\ src + k - 1 \notin dest..(dest + (k - 1) - 1)
    OBVIOUS
  <2>2. old[src + k - 1] = m[src + k - 1]
    BY <2>1, <1>1 DEF Overlaid
  <2>3. DOMAIN old = D
    BY <1>1 DEF Overlaid
  <2>4. ASSUME NEW a \in D
        PROVE  Overlaid(m, dest, src, k)[a]
                   = [old EXCEPT ![dest + k - 1] = m[src + k - 1]][a]
    <3>1. CASE a = dest + k - 1
      BY <3>1, <1>1, <2>3 DEF Overlaid
    <3>2. CASE a # dest + k - 1
      BY <3>2, <1>1, <2>3 DEF Overlaid
    <3> QED
      BY <3>1, <3>2
  <2> QED
    BY <2>2, <2>3, <2>4, <1>1 DEF Overlaid
<1>3. Overlaid(m, dest, src, 0) = m
  BY <1>1 DEF Overlaid
<1>4. goal = Step(goal)
  <2>1. ASSUME NEW k \in 0..n
        PROVE  goal[k] = Byte(goal, k)
    <3>1. CASE k = 0
      BY <3>1, <1>3
    <3>2. CASE k # 0
      <4>1. k \in 1..n /\ k - 1 \in 0..n
        BY <3>2
      <4> QED
        BY <4>1, <1>2, <3>2
    <3> QED
      BY <3>1, <3>2
  <2> HIDE DEF Byte
  <2> QED
    BY <2>1
<1>5. after = Step(after)
  <2> HIDE DEF goal, Step
  <2> QED
    BY <1>4
<1>6. \A k \in 0..n : after[k] = Byte(after, k)
  <2> HIDE DEF Byte, after
  <2> QED
    BY <1>5
<1>7. Bad = {}
  <2> SUFFICES ASSUME Bad # {} PROVE FALSE
    OBVIOUS
  <2> HIDE DEF after
  <2>1. PICK k \in Bad : \A l \in Bad : k <= l
    <3> HIDE DEF goal
    <3>1. Bad \in SUBSET Nat
      OBVIOUS
    <3> HIDE DEF Bad
    <3> QED
      BY <3>1, Least
  <2>2. k \in 0..n /\ after[k] # Overlaid(m, dest, src, k)
    OBVIOUS
  <2>3. k # 0
    BY <2>2, <1>6, <1>3
  <2>4. k \in 1..n /\ k - 1 \in 0..n
    BY <2>2, <2>3
  <2>5. k - 1 \notin Bad
    BY <2>1, <2>4
  <2>6. after[k - 1] = Overlaid(m, dest, src, k - 1)
    BY <2>4, <2>5
  <2>7. after[k] = [after[k - 1] EXCEPT ![dest + k - 1] = after[k - 1][src + k - 1]]
    BY <1>6, <2>2, <2>3
  <2> QED
    BY <1>2, <2>2, <2>4, <2>6, <2>7
<1>8. after[n] = Overlaid(m, dest, src, n)
  <2> HIDE DEF after
  <2>1. n \in 0..n
    OBVIOUS
  <2> QED
    BY <1>7, <2>1
<1> QED
  BY <1>8 DEF memcpy

\* m with the last k of the n bytes from src on at their place in dest too.
Topped(m, dest, src, n, k) ==
    [a \in DOMAIN m |-> IF a \in (dest + n - k)..(dest + n - 1) THEN m[src + (a - dest)] ELSE m[a]]

\* The loop of memmove copies from the last byte: to a place above its source,
\* that too is the same as all bytes at once.
LEMMA CopyDownCopies ==
  ASSUME NEW m, NEW D \in SUBSET Int, m = [a \in D |-> m[a]],
         NEW dest \in Int, NEW src \in Int, NEW n \in Nat,
         src..(src + n - 1) \subseteq D, src <= dest
  PROVE  CopyDown(m, dest, src, n) = Overlaid(m, dest, src, n)
<1> DEFINE Byte(f, k) == IF k = 0 THEN m
                         ELSE [f[k - 1] EXCEPT ![dest + n - k] = f[k - 1][src + n - k]]
           Step(f) == [k \in 0..n |-> Byte(f, k)]
           goal == [k \in 0..n |-> Topped(m, dest, src, n, k)]
           after == CHOOSE f : f = Step(f)
           Bad == {k \in 0..n : after[k] # goal[k]}
<1>1. DOMAIN m = D
  OBVIOUS
<1>2. \A k \in 1..n : Topped(m, dest, src, n, k)
          = [Topped(m, dest, src, n, k - 1) EXCEPT ![dest + n - k] =
                Topped(m, dest, src, n, k - 1)[src + n - k]]
  <2> TAKE k \in 1..n
  <2> DEFINE old == Topped(m, dest, src, n, k - 1)
  <2>1. src + n - k \in D /\ src + n - k \notin (dest + n - (k - 1))..(dest + n - 1)
    OBVIOUS
  <2>2. old[src + n - k] = m[src + n - k]
    BY <2>1, <1>1 DEF Topped
  <2>3. DOMAIN old = D
    BY <1>1 DEF Topped
  <2>4. ASSUME NEW a \in D
        PROVE  Topped(m, dest, src, n, k)[a]
                   = [old EXCEPT ![dest + n - k] = m[src + n - k]][a]
    <3>1. CASE a = dest + n - k
      BY <3>1, <1>1, <2>3 DEF Topped
    <3>2. CASE a # dest + n - k
      BY <3>2, <1>1, <2>3 DEF Topped
    <3> QED
      BY <3>1, <3>2
  <2> QED
    BY <2>2, <2>3, <2>4, <1>1 DEF Topped
<1>3. Topped(m, dest, src, n, 0) = m
  BY <1>1 DEF Topped
<1>4. goal = Step(goal)
  <2>1. ASSUME NEW k \in 0..n
        PROVE  goal[k] = Byte(goal, k)
    <3>1. CASE k = 0
      BY <3>1, <1>3
    <3>2. CASE k # 0
      <4>1. k \in 1..n /\ k - 1 \in 0..n
        BY <3>2
      <4> QED
        BY <4>1, <1>2, <3>2
    <3> QED
      BY <3>1, <3>2
  <2> HIDE DEF Byte
  <2> QED
    BY <2>1
<1>5. after = Step(after)
  <2> HIDE DEF goal, Step
  <2> QED
    BY <1>4
<1>6. \A k \in 0..n : after[k] = Byte(after, k)
  <2> HIDE DEF Byte, after
  <2> QED
    BY <1>5
<1>7. Bad = {}
  <2> SUFFICES ASSUME Bad # {} PROVE FALSE
    OBVIOUS
  <2> HIDE DEF after
  <2>1. PICK k \in Bad : \A l \in Bad : k <= l
    <3> HIDE DEF goal
    <3>1. Bad \in SUBSET Nat
      OBVIOUS
    <3> HIDE DEF Bad
    <3> QED
      BY <3>1, Least
  <2>2. k \in 0..n /\ after[k] # Topped(m, dest, src, n, k)
    OBVIOUS
  <2>3. k # 0
    BY <2>2, <1>6, <1>3
  <2>4. k \in 1..n /\ k - 1 \in 0..n
    BY <2>2, <2>3
  <2>5. k - 1 \notin Bad
    BY <2>1, <2>4
  <2>6. after[k - 1] = Topped(m, dest, src, n, k - 1)
    BY <2>4, <2>5
  <2>7. after[k] = [after[k - 1] EXCEPT ![dest + n - k] = after[k - 1][src + n - k]]
    BY <1>6, <2>2, <2>3
  <2> QED
    BY <1>2, <2>2, <2>4, <2>6, <2>7
<1>8. after[n] = Topped(m, dest, src, n, n)
  <2> HIDE DEF after
  <2>1. n \in 0..n
    OBVIOUS
  <2> QED
    BY <1>7, <2>1
<1>9. Topped(m, dest, src, n, n) = Overlaid(m, dest, src, n)
  <2>1. dest + n - n = dest
    OBVIOUS
  <2> QED
    BY <2>1 DEF Topped, Overlaid
<1> QED
  BY <1>8, <1>9 DEF CopyDown

\* memmove leaves the bytes of the source at the destination and all others
\* alone, however the two overlap (string.c:53-69).
THEOREM MemmoveCopies ==
  ASSUME NEW m, NEW D \in SUBSET Int, m = [a \in D |-> m[a]],
         NEW dest \in Int, NEW src \in Int, NEW n \in Nat,
         src..(src + n - 1) \subseteq D
  PROVE  memmove(m, dest, src, n) = Overlaid(m, dest, src, n)
<1>1. CASE dest < src \/ dest >= src + n
  <2>1. dest <= src \/ src + n <= dest
    BY <1>1
  <2>2. memcpy(m, dest, src, n) = Overlaid(m, dest, src, n)
    BY <2>1, MemcpyCopies
  <2> QED
    BY <1>1, <2>2 DEF memmove
<1>2. CASE ~(dest < src \/ dest >= src + n)
  <2>1. src <= dest
    BY <1>2
  <2>2. CopyDown(m, dest, src, n) = Overlaid(m, dest, src, n)
    BY <2>1, CopyDownCopies
  <2> QED
    BY <1>2, <2>2 DEF memmove
<1> QED
  BY <1>1, <1>2

-----------------------------------------------------------------------------
(* The two passes.                                                         *)

\* The fields of a header are addresses.
LEMMA HeaderFields ==
  ASSUME NEW h \in Headers
  PROVE  /\ h.load \in BOOLEAN
         /\ h.vaddr \in Nat /\ h.memsz \in Nat /\ h.filesz \in Nat /\ h.offset \in Nat
         /\ h.memsz < AddressSpace /\ h.vaddr < AddressSpace
BY LoaderAssumption DEF Headers, Addresses

\* One header more: no sum wraps, and the block spans its segment too.
LEMMA ScannedSpans ==
  ASSUME NEW S \in SUBSET Headers, NEW g \in Headers,
         size \in Addresses, min_vaddr \in Addresses,
         \A h \in S \cup {g} : End(h) < AddressSpace,
         Spanned(S, min_vaddr, size)
  PROVE  Spanned(S \cup {g}, Scanned(g).base, Scanned(g).size)
<1> DEFINE lower == g.vaddr < min_vaddr
           base == IF lower THEN g.vaddr ELSE min_vaddr
           room == IF ~lower THEN size
                   ELSE IF size > 0 THEN GrownDown(g) ELSE g.memsz
           end == Wrap(g.vaddr + g.memsz)
           grown == IF end > Wrap(base + room) THEN Wrap(end - base) ELSE room
<1>1. /\ AddressSpace \in Nat \ {0}
      /\ size \in Nat /\ min_vaddr \in Nat /\ min_vaddr < AddressSpace
      /\ g.vaddr \in Nat /\ g.memsz \in Nat /\ g.vaddr + g.memsz < AddressSpace
  BY LoaderAssumption, HeaderFields DEF Addresses, End
<1>2. \A h \in S : h.vaddr \in Nat /\ h.memsz \in Nat /\ h.vaddr + h.memsz < AddressSpace
  BY HeaderFields DEF End
<1>3. min_vaddr + size < AddressSpace
  <2>1. CASE size > 0
    BY <2>1, <1>2 DEF Spanned, End
  <2>2. CASE size = 0
    BY <2>2, <1>1
  <2> QED
    BY <2>1, <2>2, <1>1
<1>4. end = End(g) /\ end \in Nat /\ end < AddressSpace
  BY <1>1, WrapInside DEF Addresses, End
<1>5. lower /\ size > 0 => room = size + (min_vaddr - g.vaddr)
  <2> SUFFICES ASSUME lower, size > 0 PROVE GrownDown(g) = size + (min_vaddr - g.vaddr)
    OBVIOUS
  <2>1. size + (min_vaddr - g.vaddr) \in Addresses
    BY <1>1, <1>3 DEF Addresses
  <2> QED
    BY <2>1, WrapInside DEF GrownDown
<1>6. /\ base \in Nat /\ room \in Nat /\ base + room \in Nat
      /\ base + room < AddressSpace /\ base <= end
  <2>1. CASE lower /\ size > 0
    BY <2>1, <1>1, <1>3, <1>4, <1>5 DEF End
  <2>2. CASE lower /\ size = 0
    BY <2>2, <1>1, <1>4 DEF End
  <2>3. CASE ~lower
    BY <2>3, <1>1, <1>3, <1>4 DEF End
  <2> QED
    BY <2>1, <2>2, <2>3, <1>1
<1>7. grown = IF end > base + room THEN end - base ELSE room
  <2>1. Wrap(base + room) = base + room
    BY <1>6, WrapInside, LoaderAssumption DEF Addresses
  <2>2. Wrap(end - base) = end - base
    BY <1>4, <1>6, WrapInside, LoaderAssumption DEF Addresses
  <2> QED
    BY <2>1, <2>2
<1>8. Scanned(g).base = base /\ Scanned(g).size = grown
  BY DEF Scanned
<1>9. \A h \in S : base <= h.vaddr
  BY <1>1, <1>2 DEF Spanned
<1>10. \A h \in S : h.memsz > 0 => End(h) <= base + room
  <2> SUFFICES ASSUME NEW h \in S, h.memsz > 0 PROVE End(h) <= base + room
    OBVIOUS
  <2>1. End(h) <= min_vaddr + size /\ min_vaddr <= h.vaddr
    BY DEF Spanned
  <2>2. size > 0
    BY <2>1, <1>1, <1>2 DEF End
  <2>3. base + room = min_vaddr + size
    BY <2>2, <1>1, <1>5
  <2> QED
    BY <2>1, <2>3
<1>11. end <= base + grown /\ base + room <= base + grown
  BY <1>4, <1>6, <1>7
<1>12. grown > 0 => \E h \in S \cup {g} : End(h) = base + grown
  <2> SUFFICES ASSUME grown > 0 PROVE \E h \in S \cup {g} : End(h) = base + grown
    OBVIOUS
  <2>1. CASE end > base + room
    BY <2>1, <1>4, <1>6, <1>7
  <2>2. CASE ~(end > base + room) /\ size > 0
    <3>1. grown = room /\ base + room = min_vaddr + size
      BY <2>2, <1>1, <1>5, <1>7
    <3> QED
      BY <3>1, <2>2 DEF Spanned
  <2>3. CASE ~(end > base + room) /\ size = 0
    BY <2>3, <1>1, <1>4, <1>6, <1>7 DEF End
  <2> QED
    BY <2>1, <2>2, <2>3, <1>1
<1>13. \E h \in S \cup {g} : base = h.vaddr
  <2>1. CASE lower
    BY <2>1
  <2>2. CASE ~lower /\ S # {}
    BY <2>2 DEF Spanned
  <2>3. CASE ~lower /\ S = {}
    BY <2>3, <1>1 DEF Spanned
  <2> QED
    BY <2>1, <2>2, <2>3
<1>14. \A h \in S \cup {g} : base <= h.vaddr /\ (h.memsz > 0 => End(h) <= base + grown)
  <2>1. base <= g.vaddr /\ End(g) <= base + grown
    BY <1>1, <1>4, <1>11
  <2>2. ASSUME NEW h \in S, h.memsz > 0 PROVE End(h) <= base + grown
    <3>1. End(h) \in Nat /\ grown \in Int
      BY <1>2, <1>4, <1>6, <1>7 DEF End
    <3> QED
      BY <3>1, <2>2, <1>10, <1>11, <1>6
  <2> QED
    BY <2>1, <2>2, <1>9
<1> HIDE DEF base, grown
<1> QED
  BY <1>8, <1>12, <1>13, <1>14 DEF Spanned

\* Segments that are all in the address space.
LEMMA SegmentsAreHeaders ==
  ASSUME LoaderTyped
  PROVE  /\ Segments \in SUBSET Headers
         /\ \A n \in DOMAIN header : header[n] \in Headers
         /\ Len(header) \in Nat /\ DOMAIN header = 1..Len(header)
<1>1. PICK n \in 0..MaxHeaders : header \in [1..n -> Headers]
  BY DEF LoaderTyped
<1>2. n \in Nat /\ header \in Seq(Headers) /\ Len(header) = n
  BY <1>1, LoaderAssumption
<1> QED
  BY <1>1, <1>2 DEF Segments

\* The lowest and the highest number of a set that has a bound are in it.
LEMMA Lowest ==
  ASSUME NEW T \in SUBSET Nat, T # {}
  PROVE  Min(T) \in T /\ \A k \in T : Min(T) <= k
<1>1. \E x \in T : \A y \in T : x <= y
  BY Least
<1>2. Min(T) \in T /\ \A y \in T : Min(T) <= y
  BY <1>1, Zenon DEF Min
<1> QED
  BY <1>2

LEMMA Highest ==
  ASSUME NEW T \in SUBSET Nat, T # {}, NEW bound \in Nat, \A k \in T : k <= bound
  PROVE  Max(T) \in T /\ \A k \in T : k <= Max(T)
<1> DEFINE U == {n \in Nat : \A k \in T : k <= n}
<1>1. PICK top \in U : \A k \in U : top <= k
  <2>1. U \in SUBSET Nat /\ bound \in U
    OBVIOUS
  <2> HIDE DEF U
  <2> QED
    BY <2>1, Least
<1>2. top \in T
  <2> SUFFICES ASSUME top \notin T PROVE FALSE
    OBVIOUS
  <2>1. top > 0
    <3>1. PICK t \in T : t <= top
      BY <1>1
    <3> QED
      BY <3>1, <1>1
  <2>2. top - 1 \in U
    BY <2>1, <1>1
  <2> QED
    BY <2>2, <1>1
<1>3. \E x \in T : \A y \in T : x >= y
  BY <1>1, <1>2
<1>4. Max(T) \in T /\ \A y \in T : Max(T) >= y
  BY <1>3, Zenon DEF Max
<1> QED
  BY <1>4

\* After the first pass the block is as large as the segments are apart.
LEMMA SpannedIsSpan ==
  ASSUME LoaderTyped, WellFormed, Spanned(Segments, min_vaddr, size)
  PROVE  SpansSegments
<1> DEFINE lows == {h.vaddr : h \in Segments}
           ends == {h.vaddr + h.memsz : h \in Segments}
<1>1. Segments # {}
  BY DEF WellFormed
<1>2. \A h \in Segments : h.vaddr \in Nat /\ h.memsz \in Nat /\ End(h) < AddressSpace
  BY SegmentsAreHeaders, HeaderFields DEF WellFormed, End
<1>3. AddressSpace \in Nat /\ size \in Nat /\ min_vaddr \in Nat
  BY LoaderAssumption DEF LoaderTyped, Addresses
<1>4. Min(lows) \in lows /\ \A k \in lows : Min(lows) <= k
  <2>1. lows \in SUBSET Nat /\ lows # {}
    BY <1>1, <1>2
  <2> HIDE DEF lows
  <2> QED
    BY <2>1, Lowest
<1>5. Max(ends) \in ends /\ \A k \in ends : k <= Max(ends)
  <2>1. ends \in SUBSET Nat /\ ends # {} /\ \A k \in ends : k <= AddressSpace
    BY <1>1, <1>2, <1>3 DEF End
  <2> HIDE DEF ends
  <2> QED
    BY <2>1, <1>3, Highest
<1>6. min_vaddr = Min(lows)
  <2>1. min_vaddr \in lows /\ \A k \in lows : min_vaddr <= k
    BY <1>1 DEF Spanned
  <2>2. Min(lows) \in Nat
    BY <1>2, <1>4
  <2> HIDE DEF lows
  <2> QED
    BY <2>1, <2>2, <1>3, <1>4
<1>7. size <= Max(ends) - Min(lows)
  <2>1. Max(ends) \in Nat /\ \A h \in Segments : End(h) <= Max(ends)
    BY <1>2, <1>5 DEF End
  <2>2. CASE size > 0
    <3>1. PICK h \in Segments : End(h) = min_vaddr + size
      BY <2>2 DEF Spanned
    <3> HIDE DEF ends, lows
    <3> QED
      BY <3>1, <2>1, <1>3, <1>6
  <2>3. CASE size = 0
    <3>1. PICK h \in Segments : min_vaddr = h.vaddr
      BY <1>1 DEF Spanned
    <3>2. End(h) <= Max(ends) /\ min_vaddr <= End(h)
      BY <3>1, <2>1, <1>2 DEF End
    <3> HIDE DEF ends, lows
    <3> QED
      BY <3>2, <2>1, <2>3, <1>2, <1>3, <1>6 DEF End
  <2> QED
    BY <2>2, <2>3, <1>3
<1>8. \A h \in Segments : h.memsz > 0 => h.vaddr + h.memsz - Min(lows) <= size
  <2> HIDE DEF lows, ends
  <2> QED
    BY <1>2, <1>3, <1>6 DEF Spanned, End
<1> HIDE DEF lows, ends
<1>9. min_vaddr = Min(lows) /\ size <= Max(ends) - Min(lows)
  BY <1>6, <1>7
<1> USE DEF lows, ends
<1> QED
  BY <1>8, <1>9, Zenon DEF SpansSegments

\* A segment of a well-formed file fits in the block.
LEMMA SegmentFits ==
  ASSUME LoaderTyped, WellFormed, Spanned(Segments, min_vaddr, size), NEW h \in Segments
  PROVE  /\ h \in Headers /\ h.memsz <= size
         /\ h.filesz <= h.memsz /\ h.offset + h.filesz <= FileLen
<1>1. h \in Headers
  BY SegmentsAreHeaders
<1>2. h.vaddr \in Nat /\ h.memsz \in Nat /\ size \in Nat /\ min_vaddr \in Nat
  BY <1>1, HeaderFields DEF LoaderTyped, Addresses
<1>3. h.memsz <= size
  BY <1>2 DEF Spanned, End
<1> QED
  BY <1>1, <1>3 DEF WellFormed

\* One segment copied into the block: its bytes, then NULs, and nothing else.
LEMMA CopiedBytes ==
  ASSUME LoaderTyped, WellFormed, Spanned(Segments, min_vaddr, size),
         TextSpace + size <= AddressSpace,
         memory = [a \in Memory |-> memory[a]], StaysInBlock,
         NEW h \in Segments
  PROVE  /\ Copied(h) = [a \in Memory |-> Copied(h)[a]]
         /\ \A a \in Memory : a >= TextSpace + h.memsz => Copied(h)[a] = memory[a]
         /\ \A a \in Memory \ Block : Copied(h)[a] = memory[a]
         /\ \A k \in 0..(h.memsz - 1) : Copied(h)[TextSpace + k] = ImageByte(h, k)
<1> DEFINE moved == memcpy(memory, TextSpace, h.offset, h.filesz)
<1>1. /\ h.memsz \in Nat /\ h.filesz \in Nat /\ h.offset \in Nat
      /\ h.filesz <= h.memsz /\ h.memsz <= size /\ h.offset + h.filesz <= FileLen
      /\ h.memsz < AddressSpace
  BY SegmentFits, HeaderFields
<1>2. /\ AddressSpace \in Nat \ {0} /\ FileLen \in Nat \ {0} /\ TextSpace = FileLen
      /\ size \in Nat
  BY LoaderAssumption DEF LoaderTyped, Addresses, TextSpace
<1>3. Memory \in SUBSET Int /\ \A a \in Int : 0 <= a /\ a <= AddressSpace => a \in Memory
  BY <1>2 DEF Memory
<1>4. moved = Overlaid(memory, TextSpace, h.offset, h.filesz)
  <2>1. h.offset..(h.offset + h.filesz - 1) \subseteq Memory
    BY <1>1, <1>2 DEF Memory
  <2> QED
    BY <2>1, <1>1, <1>2, <1>3, MemcpyCopies
<1>5. Wrap(h.memsz - h.filesz) = h.memsz - h.filesz
  <2>1. h.memsz - h.filesz \in Addresses
    BY <1>1, <1>2 DEF Addresses
  <2> QED
    BY <2>1, WrapInside
<1>6. Copied(h) = [a \in Memory |->
          IF a \in (TextSpace + h.filesz)..(TextSpace + h.memsz - 1) THEN NUL
          ELSE IF a \in TextSpace..(TextSpace + h.filesz - 1)
               THEN memory[h.offset + (a - TextSpace)] ELSE memory[a]]
  <2>1. TextSpace + h.filesz + (h.memsz - h.filesz) - 1 = TextSpace + h.memsz - 1
    BY <1>1, <1>2
  <2>2. DOMAIN moved = Memory
    BY <1>4 DEF Overlaid
  <2> QED
    BY <2>1, <2>2, <1>4, <1>5, <1>1, <1>2 DEF Copied, memset, Overlaid
<1>7. /\ \A a \in Memory \ Block : Copied(h)[a] = memory[a]
      /\ \A a \in Memory : a >= TextSpace + h.memsz => Copied(h)[a] = memory[a]
  BY <1>1, <1>2, <1>3, <1>6 DEF Block
<1>8. ASSUME NEW k \in 0..(h.memsz - 1)
      PROVE  Copied(h)[TextSpace + k] = ImageByte(h, k)
  <2>1. TextSpace + k \in Memory
    BY <1>1, <1>2, <1>3
  <2>2. CASE k < h.filesz
    <3>1. TextSpace + k \in TextSpace..(TextSpace + h.filesz - 1)
          /\ TextSpace + k \notin (TextSpace + h.filesz)..(TextSpace + h.memsz - 1)
      BY <2>2, <1>1, <1>2
    <3>2. Copied(h)[TextSpace + k] = memory[h.offset + ((TextSpace + k) - TextSpace)]
      <4>1. \A a \in Memory : /\ a \notin (TextSpace + h.filesz)..(TextSpace + h.memsz - 1)
                              /\ a \in TextSpace..(TextSpace + h.filesz - 1)
              => Copied(h)[a] = memory[h.offset + (a - TextSpace)]
        BY <1>6
      <4> QED
        BY <2>1, <3>1, <4>1
    <3>3. (TextSpace + k) - TextSpace = k
      BY <1>2
    <3>4. h.offset + k < FileLen /\ h.offset + k \in Memory /\ h.offset + k \notin Block
      <4>1. h.offset + k \in Nat /\ h.offset + k < FileLen
        BY <2>2, <1>1, <1>2
      <4> QED
        BY <4>1, <1>2 DEF Memory, Block
    <3>5. memory[h.offset + k] = h.offset + k + 1
      BY <3>4 DEF StaysInBlock
    <3> QED
      BY <3>2, <3>3, <3>5, <2>2 DEF ImageByte
  <2>3. CASE ~(k < h.filesz)
    <3>1. TextSpace + k \in (TextSpace + h.filesz)..(TextSpace + h.memsz - 1)
      BY <2>3, <1>1, <1>2
    <3> QED
      BY <2>1, <2>3, <3>1, <1>6 DEF ImageByte
  <2> QED
    BY <2>2, <2>3
<1>9. Copied(h) = [a \in Memory |-> Copied(h)[a]]
  BY <1>6
<1> QED
  BY <1>7, <1>8, <1>9

-----------------------------------------------------------------------------
(* The invariant.                                                          *)

LEMMA LoaderInitIInv == Init => LoaderIInv
<1> SUFFICES ASSUME Init PROVE LoaderIInv
  OBVIOUS
<1>1. LoaderTyped
  BY LoaderAssumption DEF Init, LoaderTyped, LoadPoints, Addresses
<1>2. HeldInv
  BY DEF Init, HeldInv
<1>3. SpanInv
  BY DEF Init, SpanInv, Spanned, HasBlock
<1>4. ImageInv
  BY DEF Init, ImageInv, HasBlock, Unwritten
<1> QED
  BY <1>1, <1>2, <1>3, <1>4 DEF LoaderIInv

\* No step changes the file, so nothing that is said of it alone changes.
LEMMA FileIsConstant ==
  ASSUME UNCHANGED file
  PROVE  /\ WellFormed' <=> WellFormed
         /\ Segments' = Segments
         /\ header' = header /\ entry' = entry
BY DEF file, WellFormed, Segments

\* Types and blocks held, for any file.
LEMMA StepTyped ==
  ASSUME LoaderTyped, HeldInv, Next
  PROVE  LoaderTyped' /\ HeldInv' /\ UNCHANGED file
<1> USE DEF LoadPoints, GoTo
<1>1. CASE IsReadable
  BY <1>1 DEF IsReadable, LoaderTyped, HeldInv, file
<1>2. CASE Scan
  <2>1. pc = "scan" /\ pc' \in {"scan", "allocate"} /\ held' = held /\ UNCHANGED file
    BY <1>2 DEF Scan
  <2>2. HeldInv'
    BY <2>1 DEF HeldInv
  <2>3. i' \in Nat \ {0}
    BY <1>2 DEF Scan, LoaderTyped
  <2>4. size' \in Addresses /\ min_vaddr' \in Addresses
    <3>1. CASE i > Len(header)
      BY <3>1, <1>2 DEF Scan, LoaderTyped
    <3>2. CASE ~(i > Len(header))
      <4>1. i \in Nat \ {0} /\ i \in DOMAIN header /\ header[i] \in Headers
        BY <3>2, SegmentsAreHeaders DEF LoaderTyped
      <4> DEFINE g == header[i]
      <4>2. g.memsz \in Addresses /\ g.vaddr \in Addresses
        BY <4>1, LoaderAssumption DEF Headers, Addresses
      <4>3. size \in Addresses /\ min_vaddr \in Addresses
        BY DEF LoaderTyped
      <4> HIDE DEF g
      <4>4. Scanned(g).base \in Addresses
        BY <4>2, <4>3 DEF Scanned
      <4>5. GrownDown(g) \in Addresses
        <5>1. size + (min_vaddr - g.vaddr) \in Int
          BY <4>2, <4>3 DEF Addresses
        <5> QED
          BY <5>1, WrapIsAddress DEF GrownDown
      <4>6. \A b \in Addresses : Wrap(Wrap(g.vaddr + g.memsz) - b) \in Addresses
        <5> SUFFICES ASSUME NEW b \in Addresses
                     PROVE  Wrap(Wrap(g.vaddr + g.memsz) - b) \in Addresses
          OBVIOUS
        <5>1. g.vaddr + g.memsz \in Int
          BY <4>2 DEF Addresses
        <5>2. Wrap(g.vaddr + g.memsz) - b \in Int
          BY <5>1, WrapIsAddress DEF Addresses
        <5> QED
          BY <5>2, WrapIsAddress
      <4>7. Scanned(g).size \in Addresses
        BY <4>2, <4>3, <4>5, <4>6 DEF Scanned
      <4> USE DEF g
      <4> QED
        BY <1>2, <3>2, <4>3, <4>4, <4>7 DEF Scan
    <3> QED
      BY <3>1, <3>2
  <2> QED
    BY <2>1, <2>2, <2>3, <2>4 DEF LoaderTyped, file
<1>3. CASE Allocate
  BY <1>3 DEF Allocate, LoaderTyped, HeldInv, file
<1>4. CASE Copy
  <2>1. /\ pc = "copy" /\ pc' \in {"copy", "stack"} /\ UNCHANGED <<file, held, size, min_vaddr>>
        /\ i' \in Nat \ {0}
    BY <1>4 DEF Copy, LoaderTyped
  <2> QED
    BY <2>1 DEF LoaderTyped, HeldInv, file
<1>5. CASE AllocateStack
  <2>1. /\ UNCHANGED <<file, size, min_vaddr>> /\ pc = "stack" /\ i' = 1
        /\ \/ pc' = "error" /\ held' = held \ {"text"}
           \/ pc' = "start" /\ held' = held \cup {"stack"}
    BY <1>5 DEF AllocateStack, FreeText
  <2>2. held = {"text"}
    BY <2>1 DEF HeldInv
  <2>3. HeldInv'
    BY <2>1, <2>2 DEF HeldInv
  <2> QED
    BY <2>1, <2>3 DEF LoaderTyped, file
<1>6. CASE Start
  BY <1>6 DEF Start, LoaderTyped, HeldInv, file
<1> QED
  BY <1>1, <1>2, <1>3, <1>4, <1>5, <1>6 DEF Next

\* The headers that a pass has seen after one step more.
LEMMA SeenGrows ==
  ASSUME LoaderTyped, ~(i > Len(header)), i' = i + 1, header' = header, WellFormed
  PROVE  /\ header[i] \in Headers
         /\ Skipped(header[i]) <=> ~header[i].load
         /\ SeenHeaders' = SeenHeaders \cup {i}
         /\ Seen' = IF Skipped(header[i]) THEN Seen ELSE Seen \cup {header[i]}
         /\ Seen \subseteq Segments
         /\ header[i].load => header[i] \in Segments
<1>1. i \in Nat \ {0} /\ i \in DOMAIN header /\ header[i] \in Headers
  BY SegmentsAreHeaders DEF LoaderTyped
<1>2. header[i].load \in BOOLEAN /\ header[i].memsz \in Nat
  BY <1>1, HeaderFields
<1>3. Skipped(header[i]) <=> ~header[i].load
  BY <1>1, <1>2 DEF WellFormed, Skipped
<1>4. SeenHeaders' = SeenHeaders \cup {i}
  <2>1. \A n \in DOMAIN header : n \in Nat /\ (n < i + 1 <=> n < i \/ n = i)
    BY <1>1, SegmentsAreHeaders
  <2> QED
    BY <1>1, <2>1 DEF SeenHeaders
<1>5. Seen' = LoadedAmong(SeenHeaders \cup {i})
  BY <1>4 DEF Seen, LoadedAmong
<1>6. Seen' = IF Skipped(header[i]) THEN Seen ELSE Seen \cup {header[i]}
  BY <1>3, <1>5 DEF Seen, LoadedAmong
<1>7. Seen \subseteq Segments /\ (header[i].load => header[i] \in Segments)
  BY <1>1 DEF Seen, SeenHeaders, LoadedAmong, Segments
<1> QED
  BY <1>1, <1>3, <1>4, <1>6, <1>7

\* At the end of a pass every segment has been seen.
LEMMA AllSeen ==
  ASSUME LoaderTyped, i > Len(header)
  PROVE  Segments = Seen /\ SeenHeaders = DOMAIN header
<1>1. \A n \in DOMAIN header : n < i
  BY SegmentsAreHeaders DEF LoaderTyped
<1>2. SeenHeaders = DOMAIN header
  BY <1>1 DEF SeenHeaders
<1> QED
  BY <1>2 DEF Segments, Seen, LoadedAmong

\* A step of the pass over the headers.
LEMMA ScanKeeps ==
  ASSUME LoaderIInv, WellFormed, Scan
  PROVE  SpanInv' /\ ImageInv'
<1>1. /\ pc = "scan" /\ UNCHANGED <<file, memory, held, start>>
      /\ pc' \in {"scan", "allocate"}
  BY DEF Scan, GoTo
<1>2. Spanned(Seen, min_vaddr, size)
  BY <1>1 DEF LoaderIInv, SpanInv
<1>3. header' = header /\ Segments' = Segments
  BY <1>1 DEF file, Segments
<1>4. ImageInv'
  <2>1. memory' = Unwritten
    BY <1>1 DEF LoaderIInv, ImageInv
  <2>2. Unwritten' = Unwritten
    BY DEF Unwritten
  <2> QED
    BY <1>1, <2>1, <2>2 DEF ImageInv, HasBlock
<1>5. CASE i > Len(header)
  <2>1. pc' = "allocate" /\ size' = size /\ min_vaddr' = min_vaddr
    BY <1>5 DEF Scan, GoTo
  <2>2. Segments = Seen
    BY <1>5, AllSeen DEF LoaderIInv
  <2>3. Spanned(Segments', min_vaddr', size')
    BY <1>2, <1>3, <2>1, <2>2
  <2> QED
    BY <1>4, <2>1, <2>3 DEF SpanInv, HasBlock
<1>6. CASE ~(i > Len(header))
  <2> DEFINE g == header[i]
  <2>1. i' = i + 1 /\ pc' = "scan"
    BY <1>1, <1>6 DEF Scan
  <2>2. /\ g \in Headers /\ (Skipped(g) <=> ~g.load)
        /\ Seen' = IF Skipped(g) THEN Seen ELSE Seen \cup {g}
        /\ Seen \subseteq Segments /\ (g.load => g \in Segments)
    BY <1>3, <1>6, <2>1, SeenGrows DEF LoaderIInv
  <2>3. CASE Skipped(g)
    <3>1. size' = size /\ min_vaddr' = min_vaddr /\ Seen' = Seen
      BY <1>6, <2>2, <2>3 DEF Scan
    <3> QED
      BY <1>2, <1>4, <2>1, <3>1 DEF SpanInv, HasBlock
  <2>4. CASE ~Skipped(g)
    <3>1. size' = Scanned(g).size /\ min_vaddr' = Scanned(g).base
      BY <1>6, <2>4 DEF Scan
    <3>2. Seen \cup {g} \subseteq Segments
      <4> HIDE DEF g
      <4> QED
        BY <2>2, <2>4, HeaderFields
    <3>3. \A h \in Seen \cup {g} : End(h) < AddressSpace
      BY <3>2 DEF WellFormed, End
    <3>4. Seen \in SUBSET Headers
      BY <3>2, SegmentsAreHeaders DEF LoaderIInv
    <3>5. Spanned(Seen \cup {g}, Scanned(g).base, Scanned(g).size)
      <4>1. size \in Addresses /\ min_vaddr \in Addresses
        BY DEF LoaderIInv, LoaderTyped
      <4> HIDE DEF g
      <4> QED
        BY <4>1, <1>2, <2>2, <3>3, <3>4, ScannedSpans
    <3>6. Seen' = Seen \cup {g}
      BY <2>2, <2>4
    <3> HIDE DEF g
    <3>7. Spanned(Seen', min_vaddr', size')
      BY <3>1, <3>5, <3>6
    <3> QED
      BY <1>4, <2>1, <3>7 DEF SpanInv, HasBlock
  <2> QED
    BY <2>3, <2>4
<1> QED
  BY <1>5, <1>6

\* A step of the pass that copies.
LEMMA CopyKeeps ==
  ASSUME LoaderIInv, WellFormed, Copy
  PROVE  SpanInv' /\ ImageInv'
<1>1. /\ pc = "copy" /\ UNCHANGED <<file, size, min_vaddr, held, start>>
      /\ pc' \in {"copy", "stack"}
  BY DEF Copy, GoTo
<1>2. /\ Spanned(Segments, min_vaddr, size)
      /\ size > 0 /\ TextSpace + size <= AddressSpace
      /\ memory = [a \in Memory |-> memory[a]] /\ StaysInBlock
      /\ CopiedOver(SeenHeaders)
  BY <1>1 DEF LoaderIInv, SpanInv, ImageInv, HasBlock
<1>3. header' = header /\ Segments' = Segments /\ Block' = Block
  BY <1>1 DEF file, Segments, Block
<1>4. SpanInv'
  BY <1>1, <1>2, <1>3 DEF SpanInv, HasBlock
<1>5. CASE i > Len(header)
  <2>1. pc' = "stack" /\ memory' = memory
    BY <1>5 DEF Copy, GoTo
  <2>2. SeenHeaders = DOMAIN header
    BY <1>5, AllSeen DEF LoaderIInv
  <2>3. StaysInBlock'
    BY <1>2, <1>3, <2>1 DEF StaysInBlock
  <2>4. CopiedOver(DOMAIN header)'
    BY <1>2, <1>3, <2>1, <2>2 DEF CopiedOver, LastWith
  <2> QED
    BY <1>2, <1>4, <2>1, <2>3, <2>4 DEF ImageInv, HasBlock
<1>6. CASE ~(i > Len(header))
  <2> DEFINE g == header[i]
  <2>1. i' = i + 1 /\ pc' = "copy"
    BY <1>1, <1>6 DEF Copy
  <2>2. /\ g \in Headers /\ (Skipped(g) <=> ~g.load)
        /\ SeenHeaders' = SeenHeaders \cup {i}
        /\ g.load => g \in Segments
    BY <1>3, <1>6, <2>1, SeenGrows DEF LoaderIInv
  <2>5. \A n \in SeenHeaders : n < i /\ header[n].memsz \in Nat
    <3>1. \A n \in DOMAIN header : header[n].memsz \in Nat
      BY SegmentsAreHeaders, HeaderFields DEF LoaderIInv
    <3> QED
      BY <3>1 DEF SeenHeaders
  <2>3. CASE Skipped(g)
    <3>1. memory' = memory
      BY <1>6, <2>2, <2>3 DEF Copy
    <3>2. StaysInBlock'
      BY <1>2, <1>3, <3>1 DEF StaysInBlock
    <3>3. CopiedOver(SeenHeaders)'
      <4> SUFFICES ASSUME NEW n \in SeenHeaders \cup {i}, NEW k \in 0..(header[n].memsz - 1),
                          LastWith(SeenHeaders \cup {i}, n, k)
                   PROVE  memory[TextSpace + k] = ImageByte(header[n], k)
        BY <1>3, <2>2, <3>1 DEF CopiedOver, LastWith
      <4>1. n \in SeenHeaders /\ LastWith(SeenHeaders, n, k)
        BY <2>2, <2>3 DEF LastWith
      <4> QED
        BY <1>2, <4>1 DEF CopiedOver
    <3> QED
      BY <1>2, <1>4, <2>1, <3>1, <3>2, <3>3 DEF ImageInv, HasBlock
  <2>4. CASE ~Skipped(g)
    <3>1. memory' = Copied(g)
      BY <1>6, <2>4 DEF Copy
    <3> HIDE DEF g
    <3>2. g \in Segments
      BY <2>2, <2>4, HeaderFields
    <3>3. /\ Copied(g) = [a \in Memory |-> Copied(g)[a]]
          /\ \A a \in Memory : a >= TextSpace + g.memsz => Copied(g)[a] = memory[a]
          /\ \A a \in Memory \ Block : Copied(g)[a] = memory[a]
          /\ \A k \in 0..(g.memsz - 1) : Copied(g)[TextSpace + k] = ImageByte(g, k)
      BY <1>2, <3>2, CopiedBytes DEF LoaderIInv
    <3>4. StaysInBlock'
      BY <1>2, <1>3, <3>1, <3>3 DEF StaysInBlock
    <3>5. CopiedOver(SeenHeaders)'
      <4> SUFFICES ASSUME NEW n \in SeenHeaders \cup {i}, NEW k \in 0..(header[n].memsz - 1),
                          LastWith(SeenHeaders \cup {i}, n, k)
                   PROVE  memory'[TextSpace + k] = ImageByte(header[n], k)
        BY <1>3, <2>2 DEF CopiedOver, LastWith
      <4>1. CASE n = i
        BY <3>1, <3>3, <4>1 DEF g
      <4>2. CASE n # i
        <5>1. n \in SeenHeaders /\ n < i /\ i \in Nat /\ n \in DOMAIN header
          BY <2>5, <4>2 DEF SeenHeaders, LoaderIInv, LoaderTyped
        <5>2. LastWith(SeenHeaders, n, k) /\ g.memsz <= k
          <6>1. n \in Nat /\ i > n /\ header[i].load
            BY <2>2, <2>4, <5>1, SegmentsAreHeaders DEF LoaderIInv, LoaderTyped, g
          <6> QED
            BY <5>1, <6>1 DEF LastWith, g
        <5>3. TextSpace + k \in Memory /\ TextSpace + k >= TextSpace + g.memsz
          <6>1. /\ header[n] \in Segments /\ header[n].memsz <= size /\ header[n].memsz \in Nat
                /\ size \in Nat /\ g.memsz \in Nat
            <7>1. header[n] \in Segments
              BY <5>1 DEF LastWith, Segments
            <7> QED
              BY <1>2, <2>2, <7>1, SegmentFits, HeaderFields DEF LoaderIInv, LoaderTyped, Addresses
          <6>2. AddressSpace \in Nat /\ FileLen \in Nat
            BY LoaderAssumption
          <6> QED
            BY <1>2, <5>2, <6>1, <6>2 DEF Memory, TextSpace
        <5>4. memory'[TextSpace + k] = memory[TextSpace + k]
          BY <3>1, <3>3, <5>3
        <5> QED
          BY <1>2, <5>1, <5>2, <5>4 DEF CopiedOver
      <4> QED
        BY <4>1, <4>2
    <3>6. memory' = [a \in Memory |-> memory'[a]]
      BY <3>1, <3>3
    <3> QED
      BY <1>4, <2>1, <3>4, <3>5, <3>6 DEF ImageInv, HasBlock
  <2> QED
    BY <2>3, <2>4
<1> QED
  BY <1>5, <1>6

LEMMA LoaderNextIInv == LoaderIInv /\ [Next]_vars => LoaderIInv'
<1> SUFFICES ASSUME LoaderIInv, [Next]_vars PROVE LoaderIInv'
  OBVIOUS
<1>1. CASE Next
  <2>1. LoaderTyped' /\ HeldInv' /\ UNCHANGED file
    BY <1>1, StepTyped DEF LoaderIInv
  <2>2. (WellFormed' <=> WellFormed) /\ Segments' = Segments /\ header' = header /\ entry' = entry
    BY <2>1, FileIsConstant
  <2>3. SUFFICES ASSUME WellFormed PROVE SpanInv' /\ ImageInv'
    BY <2>1, <2>2 DEF LoaderIInv
  <2>4. SpanInv /\ ImageInv
    BY <2>3 DEF LoaderIInv
  <2>5. CASE IsReadable
    <3>1. /\ pc = "check" /\ pc' \in {"scan", "error"} /\ i' = 1
          /\ UNCHANGED <<file, size, min_vaddr, memory, held, start>>
      BY <2>5 DEF IsReadable, GoTo
    <3>2. Seen' = {}
      <4>1. \A n \in DOMAIN header' : n \in Nat \ {0}
        BY <2>1, SegmentsAreHeaders, <2>2 DEF LoaderIInv
      <4>2. {n \in DOMAIN header' : n < i'} = {}
        BY <3>1, <4>1
      <4> QED
        BY <4>2 DEF Seen, SeenHeaders, LoadedAmong
    <3>3. SpanInv'
      BY <2>4, <3>1, <3>2 DEF SpanInv, HasBlock
    <3>4. ImageInv'
      BY <2>4, <3>1 DEF ImageInv, HasBlock, Unwritten
    <3> QED
      BY <3>3, <3>4
  <2>6. CASE Scan
    BY <2>3, <2>6, ScanKeeps
  <2>7. CASE Allocate
    <3>1. /\ pc = "allocate" /\ i' = 1
          /\ UNCHANGED <<file, size, min_vaddr, memory, start>>
          /\ \/ pc' = "error"
             \/ pc' = "copy" /\ size > 0 /\ TextSpace + size <= AddressSpace
      BY <2>7 DEF Allocate, GoTo
    <3>2. SpanInv'
      BY <2>2, <2>4, <3>1 DEF SpanInv, HasBlock
    <3>3. SeenHeaders' = {}
      <4>1. \A n \in DOMAIN header' : n \in Nat \ {0}
        BY SegmentsAreHeaders, <2>2 DEF LoaderIInv
      <4>2. {n \in DOMAIN header' : n < i'} = {}
        BY <3>1, <4>1
      <4> QED
        BY <4>2 DEF SeenHeaders
    <3>4. memory = Unwritten
      BY <2>4, <3>1 DEF ImageInv
    <3>5. StaysInBlock' /\ memory' = [a \in Memory |-> memory'[a]]
      BY <3>1, <3>4 DEF StaysInBlock, Unwritten
    <3>6. ImageInv'
      BY <3>1, <3>3, <3>5 DEF ImageInv, HasBlock, CopiedOver
    <3> QED
      BY <3>2, <3>6
  <2>8. CASE Copy
    BY <2>3, <2>8, CopyKeeps
  <2>9. CASE AllocateStack
    <3>1. /\ pc = "stack" /\ pc' \in {"error", "start"}
          /\ UNCHANGED <<file, size, min_vaddr, memory, start>>
      BY <2>9 DEF AllocateStack, GoTo
    <3>2. SpanInv'
      BY <2>2, <2>4, <3>1 DEF SpanInv, HasBlock
    <3>3. ImageInv'
      BY <2>2, <2>4, <3>1 DEF ImageInv, HasBlock, StaysInBlock, Block, CopiedOver, LastWith
    <3> QED
      BY <3>2, <3>3
  <2>10. CASE Start
    <3>1. /\ pc = "start" /\ UNCHANGED <<file, size, min_vaddr, memory, held>>
          /\ \/ pc' = "running" /\ start' = Wrap(TextSpace + entry - min_vaddr)
             \/ pc' = "halted"
      BY <2>10 DEF Start, GoTo
    <3>2. SpanInv'
      BY <2>2, <2>4, <3>1 DEF SpanInv, HasBlock
    <3>3. pc' = "running" => start' = Wrap(TextSpace + entry' - min_vaddr')
      BY <2>2, <3>1
    <3>4. pc' \in HasBlock => /\ memory' = [a \in Memory |-> memory'[a]] /\ StaysInBlock'
                             /\ CopiedOver(DOMAIN header)'
      BY <2>2, <2>4, <3>1 DEF ImageInv, HasBlock, StaysInBlock, Block, CopiedOver, LastWith
    <3>5. ImageInv'
      BY <3>1, <3>3, <3>4 DEF ImageInv
    <3> QED
      BY <3>2, <3>5
  <2> QED
    BY <1>1, <2>5, <2>6, <2>7, <2>8, <2>9, <2>10 DEF Next
<1>2. CASE UNCHANGED vars
  BY <1>2 DEF vars, file, LoaderIInv, LoaderTyped, HeldInv, WellFormed, Segments, SpanInv,
     ImageInv, Seen, SeenHeaders, LoadedAmong, StaysInBlock, Block, CopiedOver, LastWith,
     HasBlock
<1> QED
  BY <1>1, <1>2

-----------------------------------------------------------------------------
(* What the runs check.                                                    *)

\* The inductive invariant holds in every reachable state.
THEOREM LoaderInvariance == Spec => []LoaderIInv
<1> QED
  BY LoaderInitIInv, LoaderNextIInv, PTL DEF Spec

\* Only entry points within a segment are asked about: the sum that gives the
\* start address does not wrap, because the block is in the address space.
LEMMA LastCopies ==
  ASSUME LoaderIInv, WellFormed, pc \in {"stack", "start", "running"}
  PROVE  LastCopyStands
<1>1. /\ Spanned(Segments, min_vaddr, size) /\ TextSpace + size <= AddressSpace
      /\ LoaderTyped
      /\ CopiedOver(DOMAIN header)
      /\ pc = "running" => start = Wrap(TextSpace + entry - min_vaddr)
  BY DEF LoaderIInv, SpanInv, ImageInv, HasBlock
<1>2. ASSUME NEW n \in DOMAIN header, NEW k, LastWith(DOMAIN header, n, k)
      PROVE  memory[TextSpace + k] = ImageByte(header[n], k)
  BY <1>1, <1>2 DEF CopiedOver, LastWith
<1>3. ASSUME NEW n \in DOMAIN header, pc = "running",
             LastWith(DOMAIN header, n, entry - min_vaddr)
      PROVE  memory[start] = ImageByte(header[n], entry - min_vaddr)
  <2> DEFINE k == entry - min_vaddr
  <2>1. header[n] \in Segments
    BY <1>3 DEF LastWith, Segments
  <2>2. /\ header[n].memsz \in Nat /\ header[n].memsz <= size
        /\ AddressSpace \in Nat /\ TextSpace \in Nat /\ size \in Nat /\ entry \in Nat
        /\ min_vaddr \in Nat
    BY <1>1, <2>1, SegmentFits, HeaderFields, LoaderAssumption
       DEF TextSpace, LoaderTyped, Addresses
  <2>3. k \in 0..(header[n].memsz - 1)
    BY <1>3 DEF LastWith
  <2>4. TextSpace + k \in Addresses /\ TextSpace + entry - min_vaddr = TextSpace + k
    BY <1>1, <2>2, <2>3 DEF Addresses
  <2>5. start = TextSpace + k
    BY <1>1, <1>3, <2>4, WrapInside
  <2> QED
    BY <1>2, <1>3, <2>5
<1> QED
  BY <1>2, <1>3 DEF LastCopyStands

\* From the last copy on, for a well-formed file and whatever the order and the
\* sizes of its segments, the block is as large as they are apart, nothing else
\* has been written to, and each byte is that of the last segment with one at
\* its offset (elf.c:71): where the program looks for it, if it has only one.
THEOREM ProgramIsLoaded == Spec => []TextHoldsProgram
<1>1. LoaderIInv => TextHoldsProgram
  <2> SUFFICES ASSUME LoaderIInv, pc \in {"stack", "start", "running"}, WellFormed
               PROVE  SpansSegments /\ StaysInBlock /\ LastCopyStands
    BY DEF TextHoldsProgram
  <2>1. SpansSegments
    BY SpannedIsSpan DEF LoaderIInv, SpanInv, HasBlock
  <2>2. StaysInBlock
    BY DEF LoaderIInv, ImageInv, HasBlock
  <2> QED
    BY <2>1, <2>2, LastCopies
<1> QED
  BY <1>1, LoaderInvariance, PTL

\* A call that fails holds no block, one that succeeds its two, whatever the
\* file says.
THEOREM ErrorsReleaseAll == Spec => []ErrorsHoldNothing
<1>1. LoaderIInv => ErrorsHoldNothing
  BY DEF LoaderIInv, HeldInv, ErrorsHoldNothing
<1> QED
  BY <1>1, LoaderInvariance, PTL
=============================================================================
