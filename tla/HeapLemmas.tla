------------------------------ MODULE HeapLemmas ------------------------------
(* Facts about block sizes, multiples and free lists on which the proofs of  *)
(* module HeapProofs rest.                                                   *)
EXTENDS Heap, SequenceTheorems, WellFoundedInduction, TLAPS

\* a is a whole number of times d.
Multiple(a, d) == \E k \in Int : a = k * d

-----------------------------------------------------------------------------
(* Multiples                                                               *)

LEMMA MultipleSum ==
  ASSUME NEW a \in Int, NEW b \in Int, NEW d \in Int, Multiple(a, d), Multiple(b, d)
  PROVE  Multiple(a + b, d) /\ Multiple(a - b, d)
<1>1. PICK k \in Int : a = k * d
  BY DEF Multiple
<1>2. PICK m \in Int : b = m * d
  BY DEF Multiple
<1>3. a + b = (k + m) * d /\ a - b = (k - m) * d
  BY <1>1, <1>2
<1>4. k + m \in Int /\ k - m \in Int
  OBVIOUS
<1> QED
  BY <1>3, <1>4 DEF Multiple

LEMMA MultipleTrans ==
  ASSUME NEW a \in Int, NEW b \in Int, NEW d \in Int, Multiple(a, b), Multiple(b, d)
  PROVE  Multiple(a, d)
<1>1. PICK k \in Int : a = k * b
  BY DEF Multiple
<1>2. PICK m \in Int : b = m * d
  BY DEF Multiple
<1>3. a = (k * m) * d
  BY <1>1, <1>2
<1>4. k * m \in Int
  OBVIOUS
<1> QED
  BY <1>3, <1>4 DEF Multiple

\* Two different multiples of d are at least d apart.
LEMMA MultipleApart ==
  ASSUME NEW a \in Int, NEW b \in Int, NEW d \in Nat \ {0},
         Multiple(a, d), Multiple(b, d), a < b
  PROVE  a + d <= b
<1>1. PICK k \in Int : a = k * d
  BY DEF Multiple
<1>2. PICK m \in Int : b = m * d
  BY DEF Multiple
<1>3. k < m
  <2>1. SUFFICES ASSUME m <= k PROVE FALSE
    OBVIOUS
  <2>2. PICK j \in Nat : k = m + j
    BY <2>1
  <2>3. k * d = m * d + j * d /\ j * d >= 0
    BY <2>2
  <2> QED
    BY <1>1, <1>2, <2>3
<1>4. PICK j \in Nat : m = k + 1 + j
  BY <1>3
<1>5. m * d = k * d + d + j * d /\ j * d >= 0
  BY <1>4
<1> QED
  BY <1>1, <1>2, <1>5

LEMMA MultipleSelf ==
  ASSUME NEW d \in Int
  PROVE  Multiple(d, d) /\ Multiple(0, d)
<1>1. d = 1 * d /\ 0 = 0 * d
  OBVIOUS
<1> QED
  BY <1>1 DEF Multiple

\* The remainder the code computes tells multiples from the rest.
LEMMA RemainderTest ==
  ASSUME NEW a \in Nat, NEW d \in Nat \ {0}
  PROVE  a % d = 0 <=> Multiple(a, d)
<1>1. a = d * (a \div d) + (a % d) /\ a % d \in 0..(d - 1) /\ a \div d \in Int
  OBVIOUS
<1>2. ASSUME a % d = 0 PROVE Multiple(a, d)
  <2>1. a = (a \div d) * d
    BY <1>1, <1>2
  <2> QED
    BY <1>1, <2>1 DEF Multiple
<1>3. ASSUME Multiple(a, d) PROVE a % d = 0
  <2>1. Multiple(d * (a \div d), d)
    <3>1. d * (a \div d) = (a \div d) * d
      BY <1>1
    <3> QED
      BY <1>1, <3>1 DEF Multiple
  <2>2. d * (a \div d) \in Int /\ a % d \in Int
    BY <1>1
  <2>3. CASE d * (a \div d) < a
    <3>1. d * (a \div d) + d <= a
      BY <2>1, <2>2, <2>3, <1>3, MultipleApart
    <3> QED
      BY <3>1, <1>1, <2>2
  <2>4. CASE d * (a \div d) >= a
    BY <2>4, <1>1, <2>2
  <2> QED
    BY <2>2, <2>3, <2>4
<1> QED
  BY <1>2, <1>3

-----------------------------------------------------------------------------
(* Block sizes                                                             *)

LEMMA SizeType ==
  ASSUME NEW s \in Scales
  PROVE  s \in Nat /\ BlockSize[s] \in Nat \ {0}
BY ScaleAssumption, BlockSizeAssumption DEF Scales

\* A non-empty set of naturals has a smallest element.
LEMMA Smallest ==
  ASSUME NEW S, S \subseteq Nat, S # {}
  PROVE  \E n \in S : \A m \in S : n <= m
<1>1. PICK n \in S : \A m \in S : ~(<<m, n>> \in OpToRel(<, Nat))
  BY NatLessThanWellFounded, WFMin
<1>2. ASSUME NEW m \in S PROVE n <= m
  <2>1. m \in Nat /\ n \in Nat
    OBVIOUS
  <2>2. ~(m < n)
    BY <1>1, <2>1 DEF OpToRel
  <2> QED
    BY <2>1, <2>2
<1> QED
  BY <1>2

\* A larger block is a whole number of smaller ones.
LEMMA SizeMultiple ==
  ASSUME NEW s \in Scales, NEW t \in Scales, s <= t
  PROVE  Multiple(BlockSize[t], BlockSize[s]) /\ BlockSize[s] <= BlockSize[t]
<1> DEFINE bad == {u \in Scales : s <= u /\ ~Multiple(BlockSize[u], BlockSize[s])}
<1>1. bad = {}
  <2> SUFFICES ASSUME bad # {} PROVE FALSE
    OBVIOUS
  <2>1. bad \subseteq Nat
    BY SizeType
  <2>2. PICK u \in bad : \A v \in bad : u <= v
    BY <2>1, Smallest
  <2>3. u # s
    BY <2>2, SizeType, MultipleSelf
  <2>4. u - 1 \in Scales /\ s <= u - 1 /\ u - 1 \notin bad
    BY <2>2, <2>3, ScaleAssumption DEF Scales
  <2>5. Multiple(BlockSize[u - 1], BlockSize[s])
    BY <2>4
  <2>6. BlockSize[u] = 2 * BlockSize[u - 1]
    <3>1. (u - 1) + 1 = u /\ u \in Scales
      BY <2>1
    <3> QED
      BY <3>1, <2>4, BlockSizeAssumption
  <2>7. Multiple(BlockSize[u], BlockSize[u - 1])
    BY <2>6 DEF Multiple
  <2>8. Multiple(BlockSize[u], BlockSize[s])
    BY <2>4, <2>5, <2>7, SizeType, MultipleTrans
  <2> QED
    BY <2>2, <2>8
<1>2. Multiple(BlockSize[t], BlockSize[s])
  BY <1>1
<1>3. 0 + BlockSize[s] <= BlockSize[t]
  BY <1>2, SizeType, MultipleSelf, MultipleApart
<1> QED
  BY <1>2, <1>3, SizeType

\* size_to_scale gives a scale whose block holds the header and the request.
LEMMA ScaleFits ==
  ASSUME NEW size \in Nat, ValidSize(size)
  PROVE  size_to_scale(size) \in Scales /\ size_to_scale(size) \in Fits(size)
<1>1. MaxScale \in Scales
  BY ScaleAssumption DEF Scales
<1>2. MaxScale \in Fits(size)
  BY <1>1, HeaderAssumption, SizeType DEF Fits, ValidSize, MaxSize
<1>3. Fits(size) \subseteq Nat /\ Fits(size) \subseteq Scales
  BY SizeType DEF Fits
<1>4. \E s \in Fits(size) : \A t \in Fits(size) : s <= t
  BY <1>2, <1>3, Smallest
<1> QED
  BY <1>3, <1>4 DEF size_to_scale

\* So does every larger scale.
LEMMA LargerFits ==
  ASSUME NEW size \in Nat, ValidSize(size), NEW s \in Scales, size_to_scale(size) <= s
  PROVE  HeaderSize + size <= BlockSize[s]
BY ScaleFits, SizeMultiple, SizeType, HeaderAssumption DEF Fits

-----------------------------------------------------------------------------
(* Free lists                                                              *)

LEMMA ConsFacts ==
  ASSUME NEW l \in Seq(Nat), NEW b \in Nat, IsInjective(l), b \notin ToSet(l)
  PROVE  /\ Cons(b, l) \in Seq(Nat) /\ IsInjective(Cons(b, l))
         /\ ToSet(Cons(b, l)) = ToSet(l) \cup {b}
<1> DEFINE c == Cons(b, l)
<1>1. /\ c \in Seq(Nat) /\ DOMAIN c = 1..(Len(l) + 1) /\ Len(l) \in Nat
      /\ c[1] = b /\ DOMAIN l = 1..Len(l)
      /\ \A i \in 2..(Len(l) + 1) : c[i] = l[i - 1]
  BY DEF Cons
<1>2. \A i \in 1..Len(l) : l[i] \in ToSet(l) /\ c[i + 1] = l[i]
  BY <1>1 DEF ToSet
<1>3. ToSet(c) = ToSet(l) \cup {b}
  <2>1. ASSUME NEW x \in ToSet(c) PROVE x \in ToSet(l) \cup {b}
    <3>1. PICK i \in 1..(Len(l) + 1) : x = c[i]
      BY <1>1 DEF ToSet
    <3>2. i = 1 \/ (i - 1 \in 1..Len(l) /\ c[i] = l[i - 1])
      BY <1>1, <3>1
    <3> QED
      BY <3>1, <3>2, <1>1, <1>2
  <2>2. b \in ToSet(c)
    BY <1>1 DEF ToSet
  <2>3. ASSUME NEW x \in ToSet(l) PROVE x \in ToSet(c)
    <3>1. PICK i \in 1..Len(l) : x = l[i]
      BY <1>1 DEF ToSet
    <3>2. i + 1 \in DOMAIN c /\ c[i + 1] = x
      BY <1>1, <1>2, <3>1
    <3> QED
      BY <3>2 DEF ToSet
  <2> QED
    BY <2>1, <2>2, <2>3
<1>4. IsInjective(c)
  <2> SUFFICES ASSUME NEW i \in 1..(Len(l) + 1), NEW j \in 1..(Len(l) + 1), c[i] = c[j]
               PROVE  i = j
    BY <1>1 DEF IsInjective
  <2>1. \A k \in 1..(Len(l) + 1) :
          k # 1 => k - 1 \in DOMAIN l /\ c[k] = l[k - 1] /\ c[k] # b
    BY <1>1, <1>2
  <2>2. CASE i = 1 \/ j = 1
    BY <2>1, <2>2, <1>1
  <2>3. CASE i # 1 /\ j # 1
    <3>1. i - 1 = j - 1
      BY <2>1, <2>3 DEF IsInjective
    <3> QED
      BY <3>1, <1>1
  <2> QED
    BY <2>2, <2>3
<1> QED
  BY <1>1, <1>3, <1>4

LEMMA RemoveAtFacts ==
  ASSUME NEW l \in Seq(Nat), NEW i \in DOMAIN l, IsInjective(l)
  PROVE  /\ RemoveAt(l, i) \in Seq(Nat) /\ IsInjective(RemoveAt(l, i))
         /\ ToSet(RemoveAt(l, i)) = ToSet(l) \ {l[i]}
<1> DEFINE c == RemoveAt(l, i)
           n == Len(l)
<1> DEFINE left == SubSeq(l, 1, i - 1)
           right == SubSeq(l, i + 1, n)
<1>1. n \in Nat /\ i \in 1..n /\ DOMAIN l = 1..n /\ \A j \in 1..n : l[j] \in Nat
  OBVIOUS
<1>c. c = left \o right
  BY DEF RemoveAt
<1> HIDE DEF c, n
<1>2. /\ left \in Seq(Nat) /\ Len(left) = i - 1
      /\ \A j \in 1..(i - 1) : left[j] = l[j]
  <2>1. 1 \in Int /\ i - 1 \in Int /\ \A j \in 1..(i - 1) : l[j] \in Nat
    BY <1>1
  <2>2. /\ left \in Seq(Nat)
        /\ Len(left) = IF 1 <= i - 1 THEN (i - 1) - 1 + 1 ELSE 0
        /\ \A j \in 1..((i - 1) - 1 + 1) : left[j] = l[1 + j - 1]
    BY <2>1, SubSeqProperties
  <2> HIDE DEF left
  <2>3. Len(left) = i - 1
    BY <1>1, <2>2
  <2>4. ASSUME NEW j \in 1..(i - 1) PROVE left[j] = l[j]
    <3>1. j \in 1..((i - 1) - 1 + 1) /\ 1 + j - 1 = j
      BY <1>1
    <3>2. left[j] = l[1 + j - 1]
      BY <2>2, <3>1
    <3> QED
      BY <3>1, <3>2
  <2> QED
    BY <2>2, <2>3, <2>4
<1>3. /\ right \in Seq(Nat) /\ Len(right) = n - i
      /\ \A j \in 1..(n - i) : right[j] = l[i + j]
  <2>1. i + 1 \in Int /\ n \in Int /\ \A j \in (i + 1)..n : l[j] \in Nat
    BY <1>1
  <2>2. /\ right \in Seq(Nat)
        /\ Len(right) = IF i + 1 <= n THEN n - (i + 1) + 1 ELSE 0
        /\ \A j \in 1..(n - (i + 1) + 1) : right[j] = l[(i + 1) + j - 1]
    BY <2>1, SubSeqProperties
  <2> HIDE DEF right
  <2>3. Len(right) = n - i
    BY <1>1, <2>2
  <2>4. ASSUME NEW j \in 1..(n - i) PROVE right[j] = l[i + j]
    <3>1. j \in 1..(n - (i + 1) + 1) /\ (i + 1) + j - 1 = i + j
      BY <1>1
    <3>2. right[j] = l[(i + 1) + j - 1]
      BY <2>2, <3>1
    <3> QED
      BY <3>1, <3>2
  <2> QED
    BY <2>2, <2>3, <2>4
<1> HIDE DEF left, right
<1>4. /\ c \in Seq(Nat) /\ DOMAIN c = 1..(n - 1)
      /\ \A j \in 1..(i - 1) : c[j] = l[j]
      /\ \A j \in i..(n - 1) : c[j] = l[j + 1]
  <2>1. /\ c \in Seq(Nat) /\ Len(c) = Len(left) + Len(right)
        /\ \A j \in 1..(Len(left) + Len(right)) :
             c[j] = IF j <= Len(left) THEN left[j] ELSE right[j - Len(left)]
    BY <1>c, <1>2, <1>3, ConcatProperties
  <2>2. Len(left) + Len(right) = n - 1
    BY <1>1, <1>2, <1>3
  <2>3. DOMAIN c = 1..(n - 1)
    BY <2>1, <2>2
  <2>4. ASSUME NEW j \in 1..(i - 1) PROVE c[j] = l[j]
    <3>1. j \in 1..(n - 1) /\ j <= Len(left)
      BY <1>1, <1>2
    <3> QED
      BY <2>1, <2>2, <3>1, <1>2
  <2>5. ASSUME NEW j \in i..(n - 1) PROVE c[j] = l[j + 1]
    <3>1. j \in 1..(n - 1) /\ ~(j <= i - 1)
      BY <1>1
    <3>2. c[j] = right[j - (i - 1)]
      BY <2>1, <2>2, <3>1, <1>2
    <3>3. j - (i - 1) \in 1..(n - i) /\ i + (j - (i - 1)) = j + 1
      BY <1>1
    <3>4. right[j - (i - 1)] = l[i + (j - (i - 1))]
      BY <3>3, <1>3
    <3> QED
      BY <3>2, <3>3, <3>4
  <2> QED
    BY <2>1, <2>3, <2>4, <2>5
<1>5. ToSet(c) = ToSet(l) \ {l[i]}
  <2>1. ASSUME NEW x \in ToSet(c) PROVE x \in ToSet(l) \ {l[i]}
    <3>1. PICK j \in 1..(n - 1) : x = c[j]
      BY <1>4 DEF ToSet
    <3>2. \E k \in 1..n : k # i /\ x = l[k]
      <4>1. CASE j < i
        <5>1. j \in 1..(i - 1) /\ j \in 1..n /\ j # i
          BY <4>1, <1>1
        <5>2. x = l[j]
          BY <5>1, <3>1, <1>4
        <5> QED
          BY <5>1, <5>2
      <4>2. CASE j >= i
        <5>1. j + 1 \in 1..n /\ j + 1 # i /\ x = l[j + 1]
          BY <4>2, <3>1, <1>1, <1>4
        <5> QED
          BY <5>1
      <4> QED
        BY <4>1, <4>2, <1>1
    <3> QED
      BY <3>2, <1>1 DEF ToSet, IsInjective
  <2>2. ASSUME NEW x \in ToSet(l), x # l[i] PROVE x \in ToSet(c)
    <3>1. PICK k \in 1..n : x = l[k] /\ k # i
      BY <2>2, <1>1 DEF ToSet
    <3>2. \E j \in 1..(n - 1) : x = c[j]
      <4>1. CASE k < i
        <5>1. k \in 1..(i - 1) /\ k \in 1..(n - 1)
          BY <4>1, <1>1
        <5>2. x = c[k]
          BY <5>1, <3>1, <1>4
        <5> QED
          BY <5>1, <5>2
      <4>2. CASE k > i
        <5>1. k - 1 \in i..(n - 1) /\ (k - 1) + 1 = k
          BY <4>2, <3>1, <1>1
        <5>2. x = c[k - 1] /\ k - 1 \in 1..(n - 1)
          BY <5>1, <3>1, <1>1, <1>4
        <5> QED
          BY <5>2
      <4> QED
        BY <4>1, <4>2, <3>1, <1>1
    <3> QED
      BY <3>2, <1>4 DEF ToSet
  <2> QED
    BY <2>1, <2>2
<1>6. IsInjective(c)
  <2> SUFFICES ASSUME NEW j \in 1..(n - 1), NEW k \in 1..(n - 1), c[j] = c[k]
               PROVE  j = k
    BY <1>4 DEF IsInjective
  <2> DEFINE up(m) == IF m < i THEN m ELSE m + 1
  <2>1. ASSUME NEW m \in 1..(n - 1) PROVE up(m) \in 1..n /\ c[m] = l[up(m)]
    <3>1. CASE m < i
      <4>1. m \in 1..(i - 1) /\ m \in 1..n
        BY <3>1, <1>1
      <4> QED
        BY <3>1, <4>1, <1>4
    <3>2. CASE m >= i
      <4>1. m \in i..(n - 1) /\ m + 1 \in 1..n /\ ~(m < i)
        BY <3>2, <1>1
      <4> QED
        BY <4>1, <1>4
    <3> QED
      BY <3>1, <3>2, <1>1
  <2>2. up(j) = up(k)
    BY <2>1, <1>1 DEF IsInjective
  <2> QED
    BY <2>2, <1>1
<1> QED
  BY <1>4, <1>5, <1>6 DEF c

\* The buddy of an aligned block is the other half of an aligned block of
\* twice its size.
LEMMA BuddyAddress ==
  ASSUME NEW b \in Nat, NEW s \in Scales, s + 1 \in Scales, Multiple(b, BlockSize[s])
  PROVE  /\ b % BlockSize[s + 1] # 0 =>
              /\ Multiple(b - BlockSize[s], BlockSize[s + 1])
              /\ b - BlockSize[s] \in Nat
         /\ b % BlockSize[s + 1] = 0 => Multiple(b, BlockSize[s + 1])
<1>1. /\ BlockSize[s] \in Nat \ {0} /\ BlockSize[s + 1] \in Nat \ {0}
      /\ BlockSize[s + 1] = 2 * BlockSize[s]
  BY BlockSizeAssumption
<1>2. b % BlockSize[s + 1] = 0 <=> Multiple(b, BlockSize[s + 1])
  BY <1>1, RemainderTest
<1>3. ASSUME b % BlockSize[s + 1] # 0
      PROVE  Multiple(b - BlockSize[s], BlockSize[s + 1]) /\ b - BlockSize[s] \in Nat
  <2>1. PICK k \in Int : b = k * BlockSize[s]
    BY DEF Multiple
  <2>2. PICK m \in Int : k = 2 * m \/ k = 2 * m + 1
    <3>1. k \div 2 \in Int /\ (k = 2 * (k \div 2) \/ k = 2 * (k \div 2) + 1)
      OBVIOUS
    <3> QED
      BY <3>1
  <2>3. CASE k = 2 * m
    <3>1. b = m * BlockSize[s + 1]
      BY <2>1, <2>3, <1>1
    <3> QED
      BY <3>1, <1>2, <1>3 DEF Multiple
  <2>4. CASE k = 2 * m + 1
    <3>1. b - BlockSize[s] = m * BlockSize[s + 1]
      BY <2>1, <2>4, <1>1
    <3>2. Multiple(b - BlockSize[s], BlockSize[s + 1])
      BY <3>1 DEF Multiple
    <3>3. 0 < b /\ Multiple(0, BlockSize[s])
      <4>1. b # 0
        BY <1>2, <1>3, <1>1, MultipleSelf
      <4> QED
        BY <4>1, <1>1, MultipleSelf
    <3>4. 0 + BlockSize[s] <= b
      BY <3>3, <1>1, MultipleApart
    <3> QED
      BY <3>2, <3>4, <1>1
  <2> QED
    BY <2>2, <2>3, <2>4
<1> QED
  BY <1>2, <1>3

-----------------------------------------------------------------------------
(* The two list operations, seen as sets.                                  *)

LEMMA AddFacts ==
  ASSUME free_list \in [Scales -> Seq(Nat)], NEW s \in Scales, NEW b \in Nat,
         \A t \in Scales : IsInjective(free_list[t]),
         b \notin ToSet(free_list[s]), AddToFreeList(b, s)
  PROVE  /\ free_list' \in [Scales -> Seq(Nat)]
         /\ \A t \in Scales :
              /\ IsInjective(free_list'[t])
              /\ ToSet(free_list'[t]) = IF t = s THEN ToSet(free_list[t]) \cup {b}
                                        ELSE ToSet(free_list[t])
<1>1. free_list' = [free_list EXCEPT ![s] = Cons(b, free_list[s])]
  BY DEF AddToFreeList
<1>2. /\ Cons(b, free_list[s]) \in Seq(Nat) /\ IsInjective(Cons(b, free_list[s]))
      /\ ToSet(Cons(b, free_list[s])) = ToSet(free_list[s]) \cup {b}
  BY ConsFacts
<1>3. /\ free_list'[s] = Cons(b, free_list[s])
      /\ \A t \in Scales : t # s => free_list'[t] = free_list[t]
      /\ free_list' \in [Scales -> Seq(Nat)]
  BY <1>1, <1>2
<1> QED
  BY <1>2, <1>3

LEMMA RemoveFacts ==
  ASSUME free_list \in [Scales -> Seq(Nat)], NEW s \in Scales, NEW b,
         \A t \in Scales : IsInjective(free_list[t]),
         RemoveFromFreeList(b, s)
  PROVE  /\ b \in ToSet(free_list[s])
         /\ free_list' \in [Scales -> Seq(Nat)]
         /\ \A t \in Scales :
              /\ IsInjective(free_list'[t])
              /\ ToSet(free_list'[t]) = IF t = s THEN ToSet(free_list[t]) \ {b}
                                        ELSE ToSet(free_list[t])
<1>1. PICK i \in DOMAIN free_list[s] :
        /\ free_list[s][i] = b
        /\ free_list' = [free_list EXCEPT ![s] = RemoveAt(free_list[s], i)]
  BY DEF RemoveFromFreeList
<1>2. /\ RemoveAt(free_list[s], i) \in Seq(Nat)
      /\ IsInjective(RemoveAt(free_list[s], i))
      /\ ToSet(RemoveAt(free_list[s], i)) = ToSet(free_list[s]) \ {b}
  BY <1>1, RemoveAtFacts
<1>3. /\ free_list'[s] = RemoveAt(free_list[s], i)
      /\ \A t \in Scales : t # s => free_list'[t] = free_list[t]
      /\ free_list' \in [Scales -> Seq(Nat)]
  BY <1>1, <1>2
<1>4. b \in ToSet(free_list[s])
  BY <1>1 DEF ToSet
<1> QED
  BY <1>2, <1>3, <1>4
=============================================================================
