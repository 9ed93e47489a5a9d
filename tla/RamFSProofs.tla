----------------------------- MODULE RamFSProofs -----------------------------
(***************************************************************************)
(* The properties of RamFS for all directories, files, names and sizes.    *)
(* The arrays of files and the arrays of subdirectories are both families  *)
(* of sequences in which nothing stands twice; what the calls do to them   *)
(* is stated once for both.                                                *)
(***************************************************************************)
EXTENDS RamFS, SequenceTheorems, FiniteSetTheorems, WellFoundedInduction, TLAPS

-----------------------------------------------------------------------------
(* Numbers and searches.                                                   *)

\* A non-empty set of naturals has a smallest element.
LEMMA Least ==
  ASSUME NEW S \in SUBSET Nat, S # {}
  PROVE  \E n \in S : \A m \in S : n <= m
<1>1. PICK n \in S : \A m \in S : ~(<<m, n>> \in OpToRel(<, Nat))
  BY NatLessThanWellFounded, WFMin
<1>2. ASSUME NEW m \in S PROVE n <= m
  <2>1. m \in Nat /\ n \in Nat
    OBVIOUS
  <2>2. ~(m < n)
    BY <1>1, <2>1 DEF OpToRel
  <2> QED
    BY <2>1, <2>2
<1> QED
  BY <1>2

LEMMA MinIs ==
  ASSUME NEW S \in SUBSET Nat, S # {}
  PROVE  Min(S) \in S
<1>1. \E n \in S : \A m \in S : n =< m
  BY Least
<1> QED
  BY <1>1, Zenon DEF Min

LEMMA MinOfTwo ==
  ASSUME NEW a \in Int, NEW b \in Int
  PROVE  Min({a, b}) = IF a <= b THEN a ELSE b
BY DEF Min

LEMMA MaxOfTwo ==
  ASSUME NEW a \in Int, NEW b \in Int
  PROVE  Max({a, b}) = IF a >= b THEN a ELSE b
BY DEF Max

\* A search ends at an entry with the name, if there is one.
LEMMA FindIs ==
  ASSUME NEW ids, Len(ids) \in Nat, NEW table, NEW name, NEW i, i = Find(ids, table, name)
  PROVE  \/ i = 0 /\ \A k \in 1..Len(ids) : table[ids[k]].name # name
         \/ i \in 1..Len(ids) /\ table[ids[i]].name = name
<1> DEFINE I == {k \in 1..Len(ids) : table[ids[k]].name = name}
<1>1. i = IF I # {} THEN Min(I) ELSE 0
  BY DEF Find, SelectInSeq
<1>2. CASE I = {}
  BY <1>1, <1>2
<1>3. CASE I # {}
  <2>1. i \in I
    <3>1. I \in SUBSET Nat
      OBVIOUS
    <3> HIDE DEF I
    <3> QED
      BY <1>1, <1>3, <3>1, MinIs
  <2> QED
    BY <2>1
<1> QED
  BY <1>2, <1>3

-----------------------------------------------------------------------------
(* Arrays.                                                                 *)

\* Sequences over S, one for each element of D.
Arrays(D, S) == [D -> Seq(S)]

\* Nothing stands at two places.
Distinct(A) ==
    \A d, e \in DOMAIN A : \A i \in 1..Len(A[d]), j \in 1..Len(A[e]) :
        A[d][i] = A[e][j] => d = e /\ i = j

In(A, x) == \E d \in DOMAIN A : \E i \in 1..Len(A[d]) : A[d][i] = x

\* No two entries of one array have a name in common.
NamesDiffer(A, table) ==
    \A d \in DOMAIN A : \A i, j \in 1..Len(A[d]) :
        table[A[d][i]].name = table[A[d][j]].name => i = j

LEMMA ArrayType ==
  ASSUME NEW D, NEW S, NEW A \in Arrays(D, S), NEW d \in D
  PROVE  /\ A[d] \in Seq(S) /\ Len(A[d]) \in Nat /\ DOMAIN A[d] = 1..Len(A[d])
         /\ \A i \in 1..Len(A[d]) : A[d][i] \in S /\ In(A, A[d][i])
<1>1. A[d] \in Seq(S) /\ DOMAIN A = D
  BY DEF Arrays
<1>2. Len(A[d]) \in Nat /\ DOMAIN A[d] = 1..Len(A[d])
  BY <1>1, LenProperties
<1>3. ASSUME NEW i \in 1..Len(A[d]) PROVE A[d][i] \in S /\ In(A, A[d][i])
  BY <1>1, ElementOfSeq DEF In
<1> QED
  BY <1>1, <1>2, <1>3

\* B is A with x put at the end of the array of d, and perhaps new arrays.
Extended(A, B, d, x) ==
    /\ DOMAIN A \subseteq DOMAIN B /\ d \in DOMAIN A
    /\ B[d] = Append(A[d], x)
    /\ \A e \in DOMAIN A : e # d => B[e] = A[e]
    /\ \A e \in DOMAIN B \ DOMAIN A : B[e] = <<>>

LEMMA ExtendedFacts ==
  ASSUME NEW D, NEW S, NEW A \in Arrays(D, S), NEW E, NEW B \in Arrays(E, S),
         NEW d, NEW x \in S, Extended(A, B, d, x)
  PROVE  /\ Len(B[d]) = Len(A[d]) + 1 /\ B[d][Len(A[d]) + 1] = x
         /\ \A i \in 1..Len(A[d]) : B[d][i] = A[d][i]
         /\ \A y : In(B, y) <=> In(A, y) \/ y = x
         /\ \A e \in E : \A i \in 1..Len(B[e]) :
              \/ e = d /\ i = Len(A[d]) + 1 /\ B[e][i] = x
              \/ e \in D /\ i \in 1..Len(A[e]) /\ B[e][i] = A[e][i]
<1> DEFINE n == Len(A[d])
<1>1. DOMAIN A = D /\ DOMAIN B = E /\ d \in D /\ d \in E
  BY DEF Arrays, Extended
<1>2. A[d] \in Seq(S) /\ n \in Nat
  BY <1>1, ArrayType
<1>3. /\ B[d] \in Seq(S) /\ Len(B[d]) = n + 1 /\ B[d][n + 1] = x
      /\ \A i \in 1..n : B[d][i] = A[d][i]
  BY <1>2, AppendProperties DEF Extended
<1> HIDE DEF n
<1>4. ASSUME NEW e \in E, e \notin D PROVE B[e] = <<>> /\ Len(B[e]) = 0 /\ B[e] \in Seq(S)
  BY <1>1, <1>4, EmptySeq DEF Extended
<1>5. ASSUME NEW e \in D, e # d PROVE B[e] = A[e] /\ e \in E /\ B[e] \in Seq(S)
  BY <1>1, <1>5 DEF Extended, Arrays
<1>7. ASSUME NEW e \in E, NEW i \in 1..Len(B[e])
      PROVE  \/ e = d /\ i = n + 1 /\ B[e][i] = x
             \/ e \in D /\ i \in 1..Len(A[e]) /\ B[e][i] = A[e][i]
  <2>1. CASE e = d
    <3>1. i = n + 1 \/ i \in 1..n
      BY <1>2, <1>3, <2>1
    <3> QED
      BY <1>1, <1>3, <2>1, <3>1 DEF n
  <2>2. CASE e \in D /\ e # d
    BY <1>5, <2>2
  <2>3. CASE e \notin D
    BY <1>4, <2>3
  <2> QED
    BY <2>1, <2>2, <2>3
<1>8. ASSUME NEW y PROVE In(B, y) <=> In(A, y) \/ y = x
  <2>1. ASSUME In(B, y) PROVE In(A, y) \/ y = x
    <3>1. PICK e \in E : \E i \in 1..Len(B[e]) : B[e][i] = y
      BY <1>1, <2>1 DEF In
    <3>2. PICK i \in 1..Len(B[e]) : B[e][i] = y
      BY <3>1
    <3> QED
      BY <1>1, <1>7, <3>2 DEF In
  <2>2. ASSUME In(A, y) PROVE In(B, y)
    <3>1. PICK e \in D : \E i \in 1..Len(A[e]) : A[e][i] = y
      BY <1>1, <2>2 DEF In
    <3>2. PICK i \in 1..Len(A[e]) : A[e][i] = y
      BY <3>1
    <3>3. CASE e = d
      <4>1. i \in 1..n /\ i \in 1..Len(B[d])
        BY <1>2, <1>3, <3>3 DEF n
      <4> QED
        BY <1>1, <1>3, <3>2, <3>3, <4>1 DEF In
    <3>4. CASE e # d
      BY <1>1, <1>5, <3>2, <3>4 DEF In
    <3> QED
      BY <3>3, <3>4
  <2>3. In(B, x)
    <3>1. n + 1 \in 1..Len(B[d])
      BY <1>2, <1>3
    <3> QED
      BY <1>1, <1>3, <3>1 DEF In
  <2> QED
    BY <2>1, <2>2, <2>3
<1> QED
  BY <1>3, <1>7, <1>8 DEF n

\* Putting in what was nowhere keeps every entry the only one of its kind.
LEMMA ExtendedDistinct ==
  ASSUME NEW D, NEW S, NEW A \in Arrays(D, S), NEW E, NEW B \in Arrays(E, S),
         NEW d, NEW x \in S, Extended(A, B, d, x), Distinct(A), ~In(A, x)
  PROVE  Distinct(B)
<1>1. DOMAIN A = D /\ DOMAIN B = E
  BY DEF Arrays
<1>2. \A e \in E : \A i \in 1..Len(B[e]) :
              \/ e = d /\ i = Len(A[d]) + 1 /\ B[e][i] = x
              \/ e \in D /\ i \in 1..Len(A[e]) /\ B[e][i] = A[e][i]
  BY ExtendedFacts
<1>3. ASSUME NEW e \in E, NEW f \in E, NEW i \in 1..Len(B[e]), NEW j \in 1..Len(B[f]),
             B[e][i] = B[f][j]
      PROVE  e = f /\ i = j
  <2>1. \A g \in D : \A k \in 1..Len(A[g]) : A[g][k] # x
    BY <1>1 DEF In
  <2>2. CASE e = d /\ i = Len(A[d]) + 1 /\ B[e][i] = x
    BY <1>2, <1>3, <2>1, <2>2
  <2>3. CASE e \in D /\ i \in 1..Len(A[e]) /\ B[e][i] = A[e][i]
    <3>1. f \in D /\ j \in 1..Len(A[f]) /\ B[f][j] = A[f][j]
      BY <1>2, <1>3, <2>1, <2>3
    <3>2. A[e][i] = A[f][j]
      BY <1>3, <2>3, <3>1
    <3> QED
      BY <1>1, <2>3, <3>1, <3>2 DEF Distinct
  <2> QED
    BY <1>2, <2>2, <2>3
<1> QED
  BY <1>1, <1>3, Zenon DEF Distinct

\* Names still differ if the new one was not found in its array.
LEMMA ExtendedNames ==
  ASSUME NEW D, NEW S, NEW A \in Arrays(D, S), NEW E, NEW B \in Arrays(E, S),
         NEW d, NEW x \in S, Extended(A, B, d, x), NEW table, NEW new,
         NamesDiffer(A, table),
         \A y \in S : In(A, y) => new[y].name = table[y].name,
         \A i \in 1..Len(A[d]) : table[A[d][i]].name # new[x].name
  PROVE  NamesDiffer(B, new)
<1>1. DOMAIN A = D /\ DOMAIN B = E
  BY DEF Arrays
<1>2. \A e \in E : \A i \in 1..Len(B[e]) :
              \/ e = d /\ i = Len(A[d]) + 1 /\ B[e][i] = x
              \/ e \in D /\ i \in 1..Len(A[e]) /\ B[e][i] = A[e][i]
  BY ExtendedFacts
<1>3. \A e \in D : \A i \in 1..Len(A[e]) : new[A[e][i]].name = table[A[e][i]].name
  BY ArrayType
<1>4. ASSUME NEW e \in E, NEW i \in 1..Len(B[e]), NEW j \in 1..Len(B[e]),
             new[B[e][i]].name = new[B[e][j]].name
      PROVE  i = j
  <2>1. CASE i \in 1..Len(A[e]) /\ B[e][i] = A[e][i] /\ j \in 1..Len(A[e]) /\ B[e][j] = A[e][j]
             /\ e \in D
    <3>1. table[A[e][i]].name = table[A[e][j]].name
      BY <1>3, <1>4, <2>1
    <3> QED
      BY <1>1, <2>1, <3>1, Zenon DEF NamesDiffer
  <2>2. CASE e = d /\ i = Len(A[d]) + 1 /\ B[e][i] = x
    BY <1>2, <1>3, <1>4, <2>2
  <2>3. CASE e = d /\ j = Len(A[d]) + 1 /\ B[e][j] = x
    BY <1>2, <1>3, <1>4, <2>3
  <2> QED
    BY <1>2, <2>1, <2>2, <2>3
<1> QED
  BY <1>1, <1>4, Zenon DEF NamesDiffer

LEMMA RemoveAtIs ==
  ASSUME NEW S, NEW s \in Seq(S), NEW i \in 1..Len(s)
  PROVE  /\ RemoveAt(s, i) \in Seq(S) /\ Len(RemoveAt(s, i)) = Len(s) - 1
         /\ \A j \in 1..(i - 1) : RemoveAt(s, i)[j] = s[j]
         /\ \A j \in i..(Len(s) - 1) : RemoveAt(s, i)[j] = s[j + 1]
<1> DEFINE n == Len(s)
           left == SubSeq(s, 1, i - 1)
           right == SubSeq(s, i + 1, n)
<1>1. n \in Nat /\ i \in 1..n /\ \A j \in 1..n : s[j] \in S
  BY LenProperties, ElementOfSeq
<1>2. /\ left \in Seq(S) /\ Len(left) = i - 1
      /\ \A j \in 1..(i - 1) : left[j] = s[j]
  <2>1. 1 \in Int /\ i - 1 \in Int /\ \A j \in 1..(i - 1) : s[j] \in S
    BY <1>1
  <2>2. /\ left \in Seq(S)
        /\ Len(left) = IF 1 <= i - 1 THEN (i - 1) - 1 + 1 ELSE 0
        /\ \A j \in 1..((i - 1) - 1 + 1) : left[j] = s[1 + j - 1]
    BY <2>1, SubSeqProperties
  <2> HIDE DEF left
  <2>3. Len(left) = i - 1
    BY <1>1, <2>2
  <2>4. ASSUME NEW j \in 1..(i - 1) PROVE left[j] = s[j]
    <3>1. j \in 1..((i - 1) - 1 + 1) /\ 1 + j - 1 = j
      BY <1>1
    <3>2. left[j] = s[1 + j - 1]
      BY <2>2, <3>1
    <3> QED
      BY <3>1, <3>2
  <2> QED
    BY <2>2, <2>3, <2>4
<1>3. /\ right \in Seq(S) /\ Len(right) = n - i
      /\ \A j \in 1..(n - i) : right[j] = s[i + j]
  <2>1. i + 1 \in Int /\ n \in Int /\ \A j \in (i + 1)..n : s[j] \in S
    BY <1>1
  <2>2. /\ right \in Seq(S)
        /\ Len(right) = IF i + 1 <= n THEN n - (i + 1) + 1 ELSE 0
        /\ \A j \in 1..(n - (i + 1) + 1) : right[j] = s[(i + 1) + j - 1]
    BY <2>1, SubSeqProperties
  <2> HIDE DEF right
  <2>3. Len(right) = n - i
    BY <1>1, <2>2
  <2>4. ASSUME NEW j \in 1..(n - i) PROVE right[j] = s[i + j]
    <3>1. j \in 1..(n - (i + 1) + 1) /\ (i + 1) + j - 1 = i + j
      BY <1>1
    <3>2. right[j] = s[(i + 1) + j - 1]
      BY <2>2, <3>1
    <3> QED
      BY <3>1, <3>2
  <2> QED
    BY <2>2, <2>3, <2>4
<1>4. PICK c : c = left \o right
  OBVIOUS
<1>5. RemoveAt(s, i) = c
  BY <1>4 DEF RemoveAt
<1> HIDE DEF left, right
<1>6. /\ c \in Seq(S) /\ Len(c) = Len(left) + Len(right)
      /\ \A j \in 1..(Len(left) + Len(right)) :
           c[j] = IF j <= Len(left) THEN left[j] ELSE right[j - Len(left)]
  BY <1>2, <1>3, <1>4, ConcatProperties
<1>7. Len(c) = n - 1
  BY <1>1, <1>2, <1>3, <1>6
<1>8. ASSUME NEW j \in 1..(i - 1) PROVE c[j] = s[j]
  <2>1. j \in 1..(n - 1) /\ j <= Len(left) /\ Len(left) + Len(right) = n - 1
    BY <1>1, <1>2, <1>3
  <2> QED
    BY <1>2, <1>6, <2>1
<1>9. ASSUME NEW j \in i..(n - 1) PROVE c[j] = s[j + 1]
  <2>1. /\ j \in 1..(n - 1) /\ ~(j <= Len(left)) /\ Len(left) + Len(right) = n - 1
        /\ j - Len(left) \in 1..(n - i) /\ i + (j - Len(left)) = j + 1
    BY <1>1, <1>2, <1>3
  <2>2. c[j] = right[j - Len(left)]
    BY <1>6, <2>1
  <2>3. right[j - Len(left)] = s[i + (j - Len(left))]
    BY <1>3, <2>1
  <2> QED
    BY <2>1, <2>2, <2>3
<1> QED
  BY <1>5, <1>6, <1>7, <1>8, <1>9

\* B is A without the i-th entry of the array of d.
Shortened(A, B, d, i) ==
    /\ d \in DOMAIN A /\ DOMAIN B = DOMAIN A
    /\ B[d] = RemoveAt(A[d], i)
    /\ \A e \in DOMAIN A : e # d => B[e] = A[e]

\* Where an entry of B stood in A.
Before(d, i, e, j) == IF e = d /\ j >= i THEN j + 1 ELSE j

LEMMA ShortenedFacts ==
  ASSUME NEW D, NEW S, NEW A \in Arrays(D, S), NEW B \in Arrays(D, S),
         NEW d, NEW i \in 1..Len(A[d]), Shortened(A, B, d, i)
  PROVE  /\ Len(B[d]) = Len(A[d]) - 1
         /\ \A e \in D : e # d => B[e] = A[e]
         /\ \A e \in D : \A j \in 1..Len(B[e]) :
              /\ Before(d, i, e, j) \in 1..Len(A[e])
              /\ B[e][j] = A[e][Before(d, i, e, j)]
              /\ e = d => Before(d, i, e, j) # i
         /\ Distinct(A) => \A x : In(B, x) <=> In(A, x) /\ x # A[d][i]
<1> DEFINE n == Len(A[d])
           b == RemoveAt(A[d], i)
<1>1. DOMAIN A = D /\ DOMAIN B = D /\ d \in D
  BY DEF Arrays, Shortened
<1>2. A[d] \in Seq(S) /\ n \in Nat
  BY <1>1, ArrayType
<1>3. /\ b \in Seq(S) /\ Len(b) = n - 1
      /\ \A j \in 1..(i - 1) : b[j] = A[d][j]
      /\ \A j \in i..(n - 1) : b[j] = A[d][j + 1]
  BY <1>2, RemoveAtIs
<1>4. B[d] = b /\ \A e \in D : e # d => B[e] = A[e]
  BY <1>1 DEF Shortened
<1> HIDE DEF b
<1>6. ASSUME NEW e \in D, NEW j \in 1..Len(B[e])
      PROVE  /\ Before(d, i, e, j) \in 1..Len(A[e])
             /\ B[e][j] = A[e][Before(d, i, e, j)]
             /\ e = d => Before(d, i, e, j) # i
  <2>1. CASE e = d /\ j >= i
    <3>1. j \in i..(n - 1) /\ j + 1 \in 1..n /\ j + 1 # i /\ Before(d, i, e, j) = j + 1
      BY <1>2, <1>3, <1>4, <2>1 DEF Before
    <3> QED
      BY <1>3, <1>4, <2>1, <3>1
  <2>2. CASE e = d /\ ~(j >= i)
    <3>1. j \in 1..(i - 1) /\ j \in 1..n /\ j # i /\ Before(d, i, e, j) = j
      BY <1>2, <1>3, <1>4, <2>2 DEF Before
    <3> QED
      BY <1>3, <1>4, <2>2, <3>1
  <2>3. CASE e # d
    BY <1>4, <2>3 DEF Before
  <2> QED
    BY <2>1, <2>2, <2>3
<1>7. ASSUME Distinct(A), NEW x PROVE In(B, x) <=> In(A, x) /\ x # A[d][i]
  <2>1. ASSUME In(B, x) PROVE In(A, x) /\ x # A[d][i]
    <3>1. PICK e \in D : \E j \in 1..Len(B[e]) : B[e][j] = x
      BY <1>1, <2>1 DEF In
    <3>2. PICK j \in 1..Len(B[e]) : B[e][j] = x
      BY <3>1
    <3>3. PICK k \in 1..Len(A[e]) : x = A[e][k] /\ (e = d => k # i)
      BY <1>6, <3>2
    <3>4. x # A[d][i]
      BY <1>1, <1>7, <3>3 DEF Distinct
    <3> QED
      BY <1>1, <3>3, <3>4 DEF In
  <2>2. ASSUME In(A, x), x # A[d][i] PROVE In(B, x)
    <3>1. PICK e \in D : \E j \in 1..Len(A[e]) : A[e][j] = x
      BY <1>1, <2>2 DEF In
    <3>2. PICK j \in 1..Len(A[e]) : A[e][j] = x
      BY <3>1
    <3>3. CASE e # d
      BY <1>1, <1>4, <3>2, <3>3 DEF In
    <3>4. CASE e = d /\ j < i
      <4>1. j \in 1..(i - 1) /\ j \in 1..Len(B[d])
        BY <1>2, <1>3, <1>4, <3>4
      <4> QED
        BY <1>1, <1>3, <1>4, <3>2, <3>4, <4>1 DEF In
    <3>5. CASE e = d /\ j > i
      <4>1. j - 1 \in i..(n - 1) /\ j - 1 \in 1..Len(B[d]) /\ (j - 1) + 1 = j
        BY <1>2, <1>3, <1>4, <3>5
      <4>2. B[d][j - 1] = x
        BY <1>3, <1>4, <3>2, <3>5, <4>1
      <4> QED
        BY <1>1, <4>1, <4>2 DEF In
    <3> QED
      BY <2>2, <3>2, <3>3, <3>4, <3>5
  <2> QED
    BY <2>1, <2>2
<1> QED
  BY <1>3, <1>4, <1>6, <1>7

\* Taking an entry out keeps the others apart, and their names.
LEMMA ShortenedDistinct ==
  ASSUME NEW D, NEW S, NEW A \in Arrays(D, S), NEW B \in Arrays(D, S),
         NEW d, NEW i \in 1..Len(A[d]), Shortened(A, B, d, i), Distinct(A),
         NEW table, NEW new, NamesDiffer(A, table),
         \A y \in S : In(A, y) /\ y # A[d][i] => new[y].name = table[y].name
  PROVE  Distinct(B) /\ NamesDiffer(B, new)
<1> DEFINE at(e, j) == Before(d, i, e, j)
<1>1. DOMAIN A = D /\ DOMAIN B = D /\ d \in D
  BY DEF Arrays, Shortened
<1>2. /\ \A e \in D : \A j \in 1..Len(B[e]) :
           at(e, j) \in 1..Len(A[e]) /\ B[e][j] = A[e][at(e, j)] /\ (e = d => at(e, j) # i)
      /\ \A x : In(B, x) <=> In(A, x) /\ x # A[d][i]
  BY ShortenedFacts
<1>3. \A e \in D : \A j, k \in 1..Len(B[e]) : at(e, j) = at(e, k) => j = k
  <2>1. Len(A[d]) \in Nat
    BY <1>1, ArrayType
  <2> SUFFICES ASSUME NEW e \in D, NEW j \in 1..Len(B[e]), NEW k \in 1..Len(B[e]),
                      at(e, j) = at(e, k)
               PROVE  j = k
    OBVIOUS
  <2>2. j \in Int /\ k \in Int /\ i \in Int
    BY <2>1
  <2> QED
    BY <2>2 DEF Before
<1>4. Distinct(B)
  <2>1. ASSUME NEW e \in D, NEW f \in D, NEW j \in 1..Len(B[e]), NEW k \in 1..Len(B[f]),
               B[e][j] = B[f][k]
        PROVE  e = f /\ j = k
    <3>1. PICK a \in 1..Len(A[e]) : a = at(e, j) /\ B[e][j] = A[e][a]
      BY <1>2
    <3>2. PICK c \in 1..Len(A[f]) : c = at(f, k) /\ B[f][k] = A[f][c]
      BY <1>2
    <3> HIDE DEF at
    <3>3. A[e][a] = A[f][c]
      BY <2>1, <3>1, <3>2
    <3>4. e = f /\ a = c
      BY <1>1, <3>3 DEF Distinct
    <3> QED
      BY <1>3, <3>1, <3>2, <3>4
  <2> QED
    BY <1>1, <2>1 DEF Distinct
<1>5. NamesDiffer(B, new)
  <2>1. \A e \in D : \A j \in 1..Len(B[e]) : new[B[e][j]].name = table[B[e][j]].name
    <3> SUFFICES ASSUME NEW e \in D, NEW j \in 1..Len(B[e])
                 PROVE  new[B[e][j]].name = table[B[e][j]].name
      OBVIOUS
    <3>1. PICK y : y = B[e][j]
      OBVIOUS
    <3>2. y \in S /\ In(B, y)
      BY <1>2, <3>1, ArrayType
    <3> QED
      BY <1>2, <3>1, <3>2
  <2>2. ASSUME NEW e \in D, NEW j \in 1..Len(B[e]), NEW k \in 1..Len(B[e]),
               new[B[e][j]].name = new[B[e][k]].name
        PROVE  j = k
    <3>1. PICK a \in 1..Len(A[e]) : a = at(e, j) /\ B[e][j] = A[e][a]
      BY <1>2
    <3>2. PICK c \in 1..Len(A[e]) : c = at(e, k) /\ B[e][k] = A[e][c]
      BY <1>2
    <3> HIDE DEF at
    <3>3. table[A[e][a]].name = table[A[e][c]].name
      BY <2>1, <2>2, <3>1, <3>2
    <3>4. a = c
      BY <1>1, <3>3 DEF NamesDiffer
    <3> QED
      BY <1>3, <3>1, <3>2, <3>4
  <2> QED
    BY <1>1, <2>2 DEF NamesDiffer
<1> QED
  BY <1>4, <1>5

-----------------------------------------------------------------------------
(* Directories and files.                                                  *)

\* STRING again, with the literals of the model named: the provers do not know
\* that a literal is a string.
Strings == STRING \cup {Nul, Junk, "", "stdin", "stdout", "stderr", "FD-test", "W"}

LEMMA AreStrings ==
  ASSUME NEW s \in Seq(STRING)
  PROVE  s \in Seq(Strings)
<1>1. Len(s) \in Nat /\ s \in [1..Len(s) -> STRING]
  BY LenProperties, ElementOfSeq
<1>2. s \in [1..Len(s) -> Strings]
  BY <1>1 DEF Strings
<1> QED
  BY <1>1, <1>2, SeqDef

Flags == {ReadBit, WriteBit, AppendBit}
Entry == [file : FileIds, position : 0..MaxPosition, flags : SUBSET Flags]
Directory == [name : Seq(Strings), parent : DirIds \cup {None},
              files : Seq(FileIds), subdirs : Seq(DirIds)]
Document == [name : Seq(Strings), data : Seq(Strings)]

FilesOf(D) == [d \in DOMAIN D |-> D[d].files]
SubdirsOf(D) == [d \in DOMAIN D |-> D[d].subdirs]

DirsTyped(D) ==
    /\ D \in [DOMAIN D -> Directory]
    /\ DOMAIN D \subseteq DirIds /\ IsFiniteSet(DOMAIN D) /\ Root \in DOMAIN D
    /\ \A d \in DOMAIN D : Len(D[d].files) <= MaxFiles /\ Len(D[d].subdirs) <= MaxSubdirs

FilesTyped(F) ==
    /\ F \in [DOMAIN F -> Document]
    /\ DOMAIN F \subseteq FileIds /\ IsFiniteSet(DOMAIN F)
    /\ \A f \in DOMAIN F : Len(F[f].data) <= MaxData

\* Every file has one entry.
FilesHang(D, F) ==
    /\ Distinct(FilesOf(D))
    /\ \A x : In(FilesOf(D), x) <=> x \in DOMAIN F
    /\ NamesDiffer(FilesOf(D), F)

Reached(D) ==
    \A C \in SUBSET DOMAIN D :
        (Root \in C /\ \A d \in C : \A i \in 1..Len(D[d].subdirs) : D[d].subdirs[i] \in C)
            => C = DOMAIN D

\* Every directory but the root has one entry, in its parent.
DirsHang(D) ==
    /\ Distinct(SubdirsOf(D))
    /\ \A x : In(SubdirsOf(D), x) <=> x \in DOMAIN D \ {Root}
    /\ NamesDiffer(SubdirsOf(D), D)
    /\ \A d \in DOMAIN D : \A i \in 1..Len(D[d].subdirs) : D[D[d].subdirs[i]].parent = d
    /\ D[Root].parent = None
    /\ Reached(D)

WellFormed(D, F) == DirsTyped(D) /\ FilesTyped(F) /\ FilesHang(D, F) /\ DirsHang(D)

LEMMA DirType ==
  ASSUME NEW D, DirsTyped(D), NEW d \in DOMAIN D
  PROVE  /\ D[d] \in Directory
         /\ D[d].files \in Seq(FileIds) /\ Len(D[d].files) \in Nat
         /\ DOMAIN D[d].files = 1..Len(D[d].files)
         /\ D[d].subdirs \in Seq(DirIds) /\ Len(D[d].subdirs) \in Nat
         /\ DOMAIN D[d].subdirs = 1..Len(D[d].subdirs)
         /\ FilesOf(D) \in Arrays(DOMAIN D, FileIds) /\ FilesOf(D)[d] = D[d].files
         /\ SubdirsOf(D) \in Arrays(DOMAIN D, DirIds) /\ SubdirsOf(D)[d] = D[d].subdirs
<1>1. \A e \in DOMAIN D : D[e] \in Directory
  BY DEF DirsTyped
<1>2. \A e \in DOMAIN D : D[e].files \in Seq(FileIds) /\ D[e].subdirs \in Seq(DirIds)
  BY <1>1 DEF Directory
<1>3. /\ Len(D[d].files) \in Nat /\ DOMAIN D[d].files = 1..Len(D[d].files)
      /\ Len(D[d].subdirs) \in Nat /\ DOMAIN D[d].subdirs = 1..Len(D[d].subdirs)
  BY <1>2, LenProperties
<1> QED
  BY <1>1, <1>2, <1>3 DEF FilesOf, SubdirsOf, Arrays

\* D becomes E, and F becomes G: the files of d are changed; a file, and a
\* directory in d, is put in; a file is taken out.
FilesSet(D, E, d, files) == E = [D EXCEPT ![d].files = files]

FilePutIn(F, G, f, name, data) ==
    G = [g \in DOMAIN F \cup {f} |-> IF g = f THEN [name |-> name, data |-> data] ELSE F[g]]

FileTakenOut(F, G, f) == G = [g \in DOMAIN F \ {f} |-> F[g]]

DirPutIn(D, E, d, e, name) ==
    E = [c \in DOMAIN D \cup {e} |->
            IF c = e THEN [name |-> name, parent |-> d, files |-> <<>>, subdirs |-> <<>>]
            ELSE IF c # d THEN D[c]
            ELSE [D[c] EXCEPT !.subdirs = Append(@, e)]]

Refiled(D, E, d, files) ==
    /\ E \in [DOMAIN E -> Directory] /\ DOMAIN E = DOMAIN D
    /\ E[d].files = files
    /\ \A e \in DOMAIN D : e # d => E[e].files = D[e].files
    /\ \A e \in DOMAIN D : /\ E[e].subdirs = D[e].subdirs /\ E[e].name = D[e].name
                           /\ E[e].parent = D[e].parent

LEMMA FilesSetFacts ==
  ASSUME NEW D, NEW d \in DOMAIN D, NEW files, NEW E, FilesSet(D, E, d, files),
         DirsTyped(D), files \in Seq(FileIds)
  PROVE  Refiled(D, E, d, files)
<1>1. \A e \in DOMAIN D : D[e] \in Directory
  BY DEF DirsTyped
<1>2. /\ E = [e \in DOMAIN D |-> E[e]] /\ DOMAIN E = DOMAIN D
      /\ \A e \in DOMAIN D : e # d => E[e] = D[e]
      /\ E[d] \in Directory /\ E[d].files = files
      /\ E[d].name = D[d].name /\ E[d].parent = D[d].parent /\ E[d].subdirs = D[d].subdirs
  BY <1>1 DEF Directory, FilesSet
<1>3. E \in [DOMAIN E -> Directory]
  BY <1>1, <1>2
<1> QED
  BY <1>2, <1>3 DEF Refiled

LEMMA FilePutInFacts ==
  ASSUME NEW F, NEW G, NEW f, NEW name \in Seq(Strings), NEW data \in Seq(Strings),
         FilePutIn(F, G, f, name, data), f \notin DOMAIN F, F \in [DOMAIN F -> Document]
  PROVE  /\ DOMAIN G = DOMAIN F \cup {f} /\ \A g \in DOMAIN F : G[g] = F[g]
         /\ G[f].name = name /\ G[f].data = data
         /\ G \in [DOMAIN G -> Document]
<1>1. /\ DOMAIN G = DOMAIN F \cup {f} /\ \A g \in DOMAIN F : G[g] = F[g]
      /\ G[f] \in Document /\ G[f].name = name /\ G[f].data = data
      /\ G = [g \in DOMAIN G |-> G[g]]
  BY DEF Document, FilePutIn
<1>2. \A g \in DOMAIN G : G[g] \in Document
  BY <1>1
<1> QED
  BY <1>1, <1>2

NewDir(D, E, d, e, name) ==
    /\ E \in [DOMAIN E -> Directory] /\ DOMAIN E = DOMAIN D \cup {e}
    /\ E[d].subdirs = Append(D[d].subdirs, e)
    /\ E[e].name = name /\ E[e].parent = d /\ E[e].files = <<>> /\ E[e].subdirs = <<>>
    /\ \A c \in DOMAIN D : c # d => E[c].subdirs = D[c].subdirs
    /\ \A c \in DOMAIN D : /\ E[c].name = D[c].name /\ E[c].parent = D[c].parent
                           /\ E[c].files = D[c].files

LEMMA DirPutInFacts ==
  ASSUME NEW D, NEW d \in DOMAIN D, NEW e \in DirIds \ DOMAIN D, NEW name \in Seq(Strings),
         NEW E, DirPutIn(D, E, d, e, name), DirsTyped(D)
  PROVE  NewDir(D, E, d, e, name)
<1>1. PICK subdirs : subdirs = Append(D[d].subdirs, e)
  OBVIOUS
<1>2. subdirs \in Seq(DirIds)
  <2>1. PICK was : was = D[d].subdirs
    OBVIOUS
  <2>2. was \in Seq(DirIds) /\ e \in DirIds
    BY <2>1, DirType
  <2> QED
    BY <1>1, <2>1, <2>2, AppendProperties
<1>3. \A c \in DOMAIN D : D[c] \in Directory
  BY DEF DirsTyped
<1> DEFINE new == [name |-> name, parent |-> d, files |-> <<>>, subdirs |-> <<>>]
           old == [D[d] EXCEPT !.subdirs = subdirs]
<1>4. /\ DOMAIN E = DOMAIN D \cup {e} /\ E = [c \in DOMAIN E |-> E[c]]
      /\ E[e] = new /\ E[d] = old
      /\ \A c \in DOMAIN D : c # d => E[c] = D[c]
  BY <1>1 DEF DirPutIn
<1>5. /\ old \in Directory /\ old.subdirs = subdirs
      /\ old.name = D[d].name /\ old.parent = D[d].parent /\ old.files = D[d].files
  BY <1>2, <1>3 DEF Directory
<1>6. /\ new \in Directory /\ new.name = name /\ new.parent = d
      /\ new.files = <<>> /\ new.subdirs = <<>>
  <2>1. <<>> \in Seq(FileIds) /\ <<>> \in Seq(DirIds) /\ d \in DirIds
    BY EmptySeq DEF DirsTyped
  <2> QED
    BY <2>1 DEF Directory
<1> HIDE DEF new, old
<1>7. \A c \in DOMAIN E : E[c] \in Directory
  BY <1>3, <1>4, <1>5, <1>6
<1>8. E \in [DOMAIN E -> Directory]
  BY <1>4, <1>7
<1> QED
  BY <1>1, <1>4, <1>5, <1>6, <1>8 DEF NewDir

\* What happens to files does not disturb the directories.
LEMMA SameDirs ==
  ASSUME NEW D, NEW E, DirsTyped(D), DOMAIN E = DOMAIN D,
         \A d \in DOMAIN D : /\ E[d].name = D[d].name /\ E[d].parent = D[d].parent
                             /\ E[d].subdirs = D[d].subdirs,
         DirsHang(D)
  PROVE  DirsHang(E)
<1>1. DOMAIN E = DOMAIN D
  OBVIOUS
<1>2. SubdirsOf(E) = SubdirsOf(D)
  BY <1>1, Zenon DEF SubdirsOf
<1>3. \A d \in DOMAIN D : \A i \in 1..Len(D[d].subdirs) : D[d].subdirs[i] \in DOMAIN D
  <2> SUFFICES ASSUME NEW d \in DOMAIN D, NEW i \in 1..Len(D[d].subdirs)
               PROVE  D[d].subdirs[i] \in DOMAIN D
    OBVIOUS
  <2>1. /\ SubdirsOf(D) \in Arrays(DOMAIN D, DirIds)
        /\ SubdirsOf(D)[d] = D[d].subdirs
    BY DirType
  <2>2. In(SubdirsOf(D), D[d].subdirs[i])
    BY <2>1, ArrayType
  <2> QED
    BY <2>2 DEF DirsHang
<1>4. NamesDiffer(SubdirsOf(D), E)
  <2>1. DOMAIN SubdirsOf(D) = DOMAIN D /\ \A d \in DOMAIN D : SubdirsOf(D)[d] = D[d].subdirs
    BY DEF SubdirsOf
  <2>2. ASSUME NEW d \in DOMAIN D, NEW i \in 1..Len(SubdirsOf(D)[d]),
               NEW j \in 1..Len(SubdirsOf(D)[d]),
               E[SubdirsOf(D)[d][i]].name = E[SubdirsOf(D)[d][j]].name
        PROVE  i = j
    <3>1. SubdirsOf(D)[d][i] \in DOMAIN D /\ SubdirsOf(D)[d][j] \in DOMAIN D
      BY <1>3, <2>1
    <3>2. D[SubdirsOf(D)[d][i]].name = D[SubdirsOf(D)[d][j]].name
      BY <2>2, <3>1
    <3> QED
      BY <2>1, <3>2 DEF DirsHang, NamesDiffer
  <2> QED
    BY <2>1, <2>2 DEF NamesDiffer
<1>5. \A d \in DOMAIN D : \A i \in 1..Len(E[d].subdirs) : E[E[d].subdirs[i]].parent = d
  BY <1>3 DEF DirsHang
<1>6. Reached(E)
  BY <1>1 DEF DirsHang, Reached
<1>7. E[Root].parent = None
  BY DEF DirsHang, DirsTyped
<1> QED
  BY <1>1, <1>2, <1>4, <1>5, <1>6, <1>7 DEF DirsHang

\* ramfs_create_file with room in the files array.
LEMMA FileIsCreated ==
  ASSUME NEW D, NEW F, WellFormed(D, F), NEW d \in DOMAIN D, Len(D[d].files) < MaxFiles,
         NEW f \in FileIds \ DOMAIN F,
         NEW name \in Seq(Strings), NEW data \in Seq(Strings), Len(data) <= MaxData,
         Find(D[d].files, F, name) = 0,
         NEW G, FilePutIn(F, G, f, name, data), NEW E, FilesSet(D, E, d, Append(D[d].files, f))
  PROVE  WellFormed(E, G)
<1> USE DEF WellFormed
<1> DEFINE A == FilesOf(D)
           B == FilesOf(E)
<1>1. /\ A \in Arrays(DOMAIN D, FileIds) /\ A[d] = D[d].files
      /\ D[d].files \in Seq(FileIds) /\ Len(D[d].files) \in Nat
  BY DirType
<1>2. PICK files : files = Append(D[d].files, f)
  OBVIOUS
<1>3. files \in Seq(FileIds) /\ Len(files) = Len(D[d].files) + 1
  <2>1. PICK old : old = D[d].files
    OBVIOUS
  <2>2. old \in Seq(FileIds) /\ f \in FileIds
    BY <1>1, <2>1
  <2>3. Append(old, f) \in Seq(FileIds) /\ Len(Append(old, f)) = Len(old) + 1
    BY <2>2, AppendProperties
  <2> QED
    BY <1>2, <2>1, <2>3
<1>4. \A k \in 1..Len(D[d].files) : F[D[d].files[k]].name # name
  <2>1. 0 \notin 1..Len(D[d].files)
    OBVIOUS
  <2> QED
    BY <1>1, <2>1, FindIs
<1>5. /\ E \in [DOMAIN E -> Directory] /\ DOMAIN E = DOMAIN D
      /\ E[d].files = files
      /\ \A e \in DOMAIN D : e # d => E[e].files = D[e].files
      /\ \A e \in DOMAIN D : E[e].subdirs = D[e].subdirs /\ E[e].name = D[e].name
                            /\ E[e].parent = D[e].parent
  <2>1. FilesSet(D, E, d, files) /\ files \in Seq(FileIds) /\ DirsTyped(D)
    BY <1>2, <1>3
  <2>2. Refiled(D, E, d, files)
    BY <2>1, FilesSetFacts
  <2> QED
    BY <2>2 DEF Refiled
<1>6. DirsTyped(E)
  <2>2. Len(E[d].files) <= MaxFiles
    BY <1>1, <1>3, <1>5, HeapAssumption
  <2> QED
    BY <1>5, <2>2 DEF DirsTyped
<1>7. DirsHang(E)
  BY <1>5, SameDirs
<1>8. /\ DOMAIN G = DOMAIN F \cup {f} /\ \A g \in DOMAIN F : G[g] = F[g]
      /\ G[f].name = name /\ G[f].data = data
      /\ G \in [DOMAIN G -> Document]
  BY FilePutInFacts DEF FilesTyped
<1>9. FilesTyped(G)
  <2>1. IsFiniteSet(DOMAIN G)
    BY <1>8, FS_AddElement DEF FilesTyped
  <2> QED
    BY <1>8, <2>1 DEF FilesTyped
<1>10. B \in Arrays(DOMAIN D, FileIds) /\ Extended(A, B, d, f)
  <2>1. B \in Arrays(DOMAIN D, FileIds)
    BY <1>5, <1>6, DirType
  <2>2. Extended(A, B, d, f)
    BY <1>2, <1>5 DEF FilesOf, Extended
  <2> QED
    BY <2>1, <2>2
<1>11. ~In(A, f) /\ Distinct(A) /\ NamesDiffer(A, F) /\ \A x : In(A, x) <=> x \in DOMAIN F
  BY DEF FilesHang
<1> HIDE DEF A, B
<1>12. Distinct(B) /\ \A x : In(B, x) <=> In(A, x) \/ x = f
  BY <1>1, <1>10, <1>11, ExtendedFacts, ExtendedDistinct
<1>13. NamesDiffer(B, G)
  <2>1. \A y \in FileIds : In(A, y) => G[y].name = F[y].name
    BY <1>8, <1>11
  <2>2. \A i \in 1..Len(A[d]) : F[A[d][i]].name # G[f].name
    BY <1>1, <1>4, <1>8
  <2>3. f \in FileIds /\ A \in Arrays(DOMAIN D, FileIds)
    BY <1>1
  <2> QED
    BY <1>10, <1>11, <2>1, <2>2, <2>3, ExtendedNames
<1>14. FilesHang(E, G)
  BY <1>8, <1>11, <1>12, <1>13 DEF FilesHang, B
<1> QED
  BY <1>6, <1>7, <1>9, <1>14

\* ramfs_delete_file.
LEMMA FileIsDeleted ==
  ASSUME NEW D, NEW F, WellFormed(D, F), NEW d \in DOMAIN D,
         NEW i \in 1..Len(D[d].files), NEW f, f = D[d].files[i],
         NEW G, FileTakenOut(F, G, f), NEW E, FilesSet(D, E, d, RemoveAt(D[d].files, i))
  PROVE  WellFormed(E, G)
<1> USE DEF WellFormed
<1> DEFINE A == FilesOf(D)
           B == FilesOf(E)
<1>1. /\ A \in Arrays(DOMAIN D, FileIds) /\ A[d] = D[d].files
      /\ D[d].files \in Seq(FileIds) /\ Len(D[d].files) \in Nat
  BY DirType
<1>2. PICK files : files = RemoveAt(D[d].files, i)
  OBVIOUS
<1>3. files \in Seq(FileIds) /\ Len(files) = Len(D[d].files) - 1
  BY <1>1, <1>2, RemoveAtIs
<1>5. /\ E \in [DOMAIN E -> Directory] /\ DOMAIN E = DOMAIN D
      /\ E[d].files = files
      /\ \A e \in DOMAIN D : e # d => E[e].files = D[e].files
      /\ \A e \in DOMAIN D : E[e].subdirs = D[e].subdirs /\ E[e].name = D[e].name
                            /\ E[e].parent = D[e].parent
  <2>1. FilesSet(D, E, d, files) /\ files \in Seq(FileIds) /\ DirsTyped(D)
    BY <1>2, <1>3
  <2>2. Refiled(D, E, d, files)
    BY <2>1, FilesSetFacts
  <2> QED
    BY <2>2 DEF Refiled
<1>6. DirsTyped(E)
  <2>2. Len(D[d].files) <= MaxFiles
    BY DEF DirsTyped
  <2>3. Len(E[d].files) <= MaxFiles
    BY <1>1, <1>3, <1>5, <2>2, HeapAssumption
  <2> QED
    BY <1>5, <2>3 DEF DirsTyped
<1>7. DirsHang(E)
  BY <1>5, SameDirs
<1>8. /\ DOMAIN G = DOMAIN F \ {f} /\ \A g \in DOMAIN F : g # f => G[g] = F[g]
      /\ G = [g \in DOMAIN G |-> G[g]]
  BY DEF FileTakenOut
<1>9. FilesTyped(G)
  <2>1. \A g \in DOMAIN F : F[g] \in Document
    BY DEF FilesTyped
  <2>2. G \in [DOMAIN G -> Document]
    BY <1>8, <2>1
  <2>3. IsFiniteSet(DOMAIN G)
    BY <1>8, FS_RemoveElement DEF FilesTyped
  <2> QED
    BY <1>8, <2>2, <2>3 DEF FilesTyped
<1>10. B \in Arrays(DOMAIN D, FileIds) /\ Shortened(A, B, d, i)
  <2>1. B \in Arrays(DOMAIN D, FileIds)
    BY <1>5, <1>6, DirType
  <2>2. Shortened(A, B, d, i)
    BY <1>2, <1>5 DEF FilesOf, Shortened
  <2> QED
    BY <2>1, <2>2
<1>11. Distinct(A) /\ NamesDiffer(A, F) /\ \A x : In(A, x) <=> x \in DOMAIN F
  BY DEF FilesHang
<1> HIDE DEF A, B
<1>12. \A x : In(B, x) <=> In(A, x) /\ x # f
  BY <1>1, <1>10, <1>11, ShortenedFacts
<1>13. Distinct(B) /\ NamesDiffer(B, G)
  <2>1. \A y \in FileIds : In(A, y) /\ y # A[d][i] => G[y].name = F[y].name
    BY <1>1, <1>8, <1>11
  <2> QED
    BY <1>1, <1>10, <1>11, <2>1, ShortenedDistinct
<1>14. FilesHang(E, G)
  BY <1>8, <1>11, <1>12, <1>13 DEF FilesHang, B
<1> QED
  BY <1>6, <1>7, <1>9, <1>14

\* New arrays that are empty change nothing.
LEMMA GrownFacts ==
  ASSUME NEW D, NEW S, NEW A \in Arrays(D, S), NEW E, NEW B \in Arrays(E, S),
         D \subseteq E, \A e \in D : B[e] = A[e], \A e \in E \ D : B[e] = <<>>,
         Distinct(A), NEW table, NamesDiffer(A, table)
  PROVE  Distinct(B) /\ NamesDiffer(B, table) /\ \A x : In(B, x) <=> In(A, x)
<1>1. DOMAIN A = D /\ DOMAIN B = E
  BY DEF Arrays
<1>2. \A e \in E : \A i \in 1..Len(B[e]) : e \in D
  BY EmptySeq
<1>3. Distinct(B)
  BY <1>1, <1>2 DEF Distinct
<1>4. NamesDiffer(B, table)
  BY <1>1, <1>2 DEF NamesDiffer
<1>5. ASSUME NEW x PROVE In(B, x) <=> In(A, x)
  BY <1>1, <1>2 DEF In
<1> QED
  BY <1>3, <1>4, <1>5

\* ramfs_create_dir with room in the subdirs array.
LEMMA DirIsCreated ==
  ASSUME NEW D, NEW F, WellFormed(D, F), NEW d \in DOMAIN D, Len(D[d].subdirs) < MaxSubdirs,
         NEW e \in DirIds \ DOMAIN D, NEW name \in Seq(Strings),
         Find(D[d].subdirs, D, name) = 0,
         NEW E, DirPutIn(D, E, d, e, name)
  PROVE  WellFormed(E, F)
<1> USE DEF WellFormed
<1> DEFINE A == SubdirsOf(D)
           B == SubdirsOf(E)
<1>1. /\ A \in Arrays(DOMAIN D, DirIds) /\ A[d] = D[d].subdirs
      /\ D[d].subdirs \in Seq(DirIds) /\ Len(D[d].subdirs) \in Nat
      /\ e \in DirIds /\ e \notin DOMAIN D /\ e # d
  BY DirType
<1>2. PICK subdirs : subdirs = Append(D[d].subdirs, e)
  OBVIOUS
<1>3. subdirs \in Seq(DirIds) /\ Len(subdirs) = Len(D[d].subdirs) + 1
  <2>1. PICK old : old = D[d].subdirs
    OBVIOUS
  <2>2. old \in Seq(DirIds) /\ e \in DirIds
    BY <1>1, <2>1
  <2>3. Append(old, e) \in Seq(DirIds) /\ Len(Append(old, e)) = Len(old) + 1
    BY <2>2, AppendProperties
  <2> QED
    BY <1>2, <2>1, <2>3
<1>4. \A k \in 1..Len(D[d].subdirs) : D[D[d].subdirs[k]].name # name
  <2>1. 0 \notin 1..Len(D[d].subdirs)
    OBVIOUS
  <2> QED
    BY <1>1, <2>1, FindIs
<1>5. /\ E \in [DOMAIN E -> Directory] /\ DOMAIN E = DOMAIN D \cup {e}
      /\ E[d].subdirs = Append(D[d].subdirs, e)
      /\ E[e].name = name /\ E[e].parent = d /\ E[e].files = <<>> /\ E[e].subdirs = <<>>
      /\ \A c \in DOMAIN D : c # d => E[c].subdirs = D[c].subdirs
      /\ \A c \in DOMAIN D : /\ E[c].name = D[c].name /\ E[c].parent = D[c].parent
                             /\ E[c].files = D[c].files
  <2>1. DirsTyped(D)
    OBVIOUS
  <2>2. NewDir(D, E, d, e, name)
    BY <2>1, DirPutInFacts
  <2> QED
    BY <2>2 DEF NewDir
<1>6. DOMAIN E = DOMAIN D \cup {e} /\ E[d].subdirs = subdirs
  BY <1>2, <1>5
<1> USE <1>6
<1>7. /\ \A c \in DOMAIN D : c # d => E[c].subdirs = D[c].subdirs
      /\ \A c \in DOMAIN D : /\ E[c].name = D[c].name /\ E[c].parent = D[c].parent
                             /\ E[c].files = D[c].files
  BY <1>5, Zenon
<1>8. DirsTyped(E)
  <2>3. IsFiniteSet(DOMAIN E)
    BY FS_AddElement DEF DirsTyped
  <2>4. \A c \in DOMAIN E : Len(E[c].files) <= MaxFiles /\ Len(E[c].subdirs) <= MaxSubdirs
    <3>1. Len(<<>>) = 0 /\ MaxFiles \in Nat /\ MaxSubdirs \in Nat
      BY EmptySeq, HeapAssumption
    <3>2. Len(subdirs) <= MaxSubdirs
      BY <1>1, <1>3, <3>1
    <3>3. Len(E[e].files) <= MaxFiles /\ Len(E[e].subdirs) <= MaxSubdirs
      BY <1>5, <3>1
    <3>4. ASSUME NEW c \in DOMAIN D
          PROVE  Len(E[c].files) <= MaxFiles /\ Len(E[c].subdirs) <= MaxSubdirs
      BY <1>5, <1>7, <3>2 DEF DirsTyped
    <3> QED
      BY <3>3, <3>4
  <2> QED
    BY <1>1, <1>5, <2>3, <2>4 DEF DirsTyped
<1>9. B \in Arrays(DOMAIN E, DirIds) /\ Extended(A, B, d, e)
  <2>1. B \in Arrays(DOMAIN E, DirIds)
    BY <1>8, DirType
  <2>2. DOMAIN A = DOMAIN D /\ DOMAIN B = DOMAIN E /\ \A c \in DOMAIN D : A[c] = D[c].subdirs
    BY DEF SubdirsOf
  <2>3. \A c \in DOMAIN E : B[c] = E[c].subdirs
    BY DEF SubdirsOf
  <2> HIDE DEF A, B
  <2>4. B[d] = Append(A[d], e)
    BY <1>2, <1>5, <2>2, <2>3
  <2>5. \A c \in DOMAIN D : c # d => B[c] = A[c]
    BY <1>7, <2>2, <2>3
  <2>6. \A c \in DOMAIN E \ DOMAIN D : B[c] = <<>>
    BY <1>5, <2>3
  <2> QED
    BY <2>1, <2>2, <2>4, <2>5, <2>6 DEF Extended
<1>10. Distinct(A) /\ NamesDiffer(A, D) /\ \A x : In(A, x) <=> x \in DOMAIN D \ {Root}
  BY DEF DirsHang
<1>11. /\ \A c \in DOMAIN D : A[c] = D[c].subdirs
       /\ \A c \in DOMAIN E : B[c] = E[c].subdirs
  BY DEF SubdirsOf
<1> HIDE DEF A, B
<1>12. /\ \A x : In(B, x) <=> In(A, x) \/ x = e
       /\ B[d][Len(A[d]) + 1] = e /\ Len(B[d]) = Len(A[d]) + 1
       /\ \A c \in DOMAIN E : \A i \in 1..Len(B[c]) :
            \/ c = d /\ i = Len(A[d]) + 1 /\ B[c][i] = e
            \/ c \in DOMAIN D /\ i \in 1..Len(A[c]) /\ B[c][i] = A[c][i]
       /\ \A i \in 1..Len(A[d]) : B[d][i] = A[d][i]
  <2>1. \A x : In(B, x) <=> In(A, x) \/ x = e
    BY <1>1, <1>9, ExtendedFacts
  <2>2. B[d][Len(A[d]) + 1] = e /\ Len(B[d]) = Len(A[d]) + 1
    BY <1>1, <1>9, ExtendedFacts
  <2>3. \A c \in DOMAIN E : \A i \in 1..Len(B[c]) :
            \/ c = d /\ i = Len(A[d]) + 1 /\ B[c][i] = e
            \/ c \in DOMAIN D /\ i \in 1..Len(A[c]) /\ B[c][i] = A[c][i]
    BY <1>1, <1>9, ExtendedFacts
  <2>4. \A i \in 1..Len(A[d]) : B[d][i] = A[d][i]
    BY <1>1, <1>9, ExtendedFacts
  <2> QED
    BY <2>1, <2>2, <2>3, <2>4
<1>13. Distinct(B)
  BY <1>1, <1>9, <1>10, ExtendedDistinct
<1>14. NamesDiffer(B, E)
  <2>1. \A y \in DirIds : In(A, y) => E[y].name = D[y].name
    BY <1>7, <1>10
  <2>2. \A i \in 1..Len(A[d]) : D[A[d][i]].name # E[e].name
    BY <1>1, <1>4, <1>5
  <2> QED
    BY <1>1, <1>9, <1>10, <2>1, <2>2, ExtendedNames
<1>15. \A c \in DOMAIN D : \A i \in 1..Len(A[c]) : A[c][i] \in DOMAIN D \ {Root}
  BY <1>1, <1>10, ArrayType
<1>16. \A c \in DOMAIN E : \A i \in 1..Len(B[c]) : E[B[c][i]].parent = c
  <2> SUFFICES ASSUME NEW c \in DOMAIN E, NEW i \in 1..Len(B[c])
               PROVE  E[B[c][i]].parent = c
    OBVIOUS
  <2>1. CASE c = d /\ i = Len(A[d]) + 1 /\ B[c][i] = e
    BY <1>5, <2>1
  <2>2. CASE c \in DOMAIN D /\ i \in 1..Len(A[c]) /\ B[c][i] = A[c][i]
    <3>1. D[D[c].subdirs[i]].parent = c
      BY <1>11, <2>2 DEF DirsHang
    <3> QED
      BY <1>7, <1>11, <1>15, <2>2, <3>1
  <2> QED
    BY <1>12, <2>1, <2>2
<1>17. E[Root].parent = None
  BY <1>7 DEF DirsTyped, DirsHang
<1>18. Reached(E)
  <2> SUFFICES ASSUME NEW C \in SUBSET DOMAIN E, Root \in C,
                      \A c \in C : \A i \in 1..Len(B[c]) : B[c][i] \in C
               PROVE  C = DOMAIN E
    BY <1>11 DEF Reached
  <2>1. ASSUME NEW c \in C \ {e}, NEW i \in 1..Len(A[c]) PROVE A[c][i] \in C \ {e}
    <3>1. c \in DOMAIN D /\ Len(A[c]) \in Nat
      BY <1>1, ArrayType
    <3>2. i \in 1..Len(B[c]) /\ B[c][i] = A[c][i]
      <4>1. CASE c = d
        BY <1>12, <3>1, <4>1
      <4>2. CASE c # d
        BY <1>7, <1>11, <3>1, <4>2
      <4> QED
        BY <4>1, <4>2
    <3> QED
      BY <1>1, <1>15, <3>1, <3>2
  <2>2. C \ {e} = DOMAIN D
    <3>1. C \ {e} \in SUBSET DOMAIN D /\ Root \in C \ {e}
      BY <1>1 DEF DirsTyped
    <3>2. Reached(D)
      BY DEF DirsHang
    <3>3. \A c \in C \ {e} : \A i \in 1..Len(D[c].subdirs) : D[c].subdirs[i] \in C \ {e}
      BY <1>11, <2>1, <3>1
    <3> QED
      BY <3>1, <3>2, <3>3 DEF Reached
  <2>3. e \in C
    <3>1. Len(A[d]) + 1 \in 1..Len(B[d])
      BY <1>1, <1>12
    <3> QED
      BY <1>12, <2>2, <3>1
  <2> QED
    BY <2>2, <2>3
<1>19. DirsHang(E)
  <2>1. \A x : In(B, x) <=> x \in DOMAIN E \ {Root}
    BY <1>1, <1>10, <1>12 DEF DirsTyped
  <2> QED
    BY <1>11, <1>13, <1>14, <1>16, <1>17, <1>18, <2>1 DEF DirsHang, B
<1>20. FilesHang(E, F)
  <2>1. /\ FilesOf(D) \in Arrays(DOMAIN D, FileIds) /\ FilesOf(E) \in Arrays(DOMAIN E, FileIds)
        /\ \A c \in DOMAIN D : FilesOf(E)[c] = FilesOf(D)[c]
        /\ \A c \in DOMAIN E \ DOMAIN D : FilesOf(E)[c] = <<>>
    <3>1. FilesOf(D) \in Arrays(DOMAIN D, FileIds) /\ FilesOf(E) \in Arrays(DOMAIN E, FileIds)
      BY <1>8, DirType
    <3>2. \A c \in DOMAIN D : FilesOf(D)[c] = D[c].files
      BY DEF FilesOf
    <3>3. \A c \in DOMAIN E : FilesOf(E)[c] = E[c].files
      BY DEF FilesOf
    <3> QED
      BY <1>5, <1>7, <3>1, <3>2, <3>3
  <2>2. Distinct(FilesOf(D)) /\ NamesDiffer(FilesOf(D), F)
    BY DEF FilesHang
  <2>3. /\ Distinct(FilesOf(E)) /\ NamesDiffer(FilesOf(E), F)
        /\ \A x : In(FilesOf(E), x) <=> In(FilesOf(D), x)
    BY <2>1, <2>2, GrownFacts
  <2> QED
    BY <2>3 DEF FilesHang
<1> QED
  BY <1>8, <1>19, <1>20

-----------------------------------------------------------------------------
(* Paths.                                                                  *)

\* f is the directory after 0, 1, ... n parts of the path.
Found(f, path, n) == f = [k \in 0..n |-> IF k = 0 THEN Root ELSE Step(f[k - 1], path[k])]

\* There is such an f for each n: else for a least one, and it is one longer.
LEMMA FoundExists ==
  ASSUME NEW path, NEW n \in Nat
  PROVE  \E f : Found(f, path, n)
<1> DEFINE Bad == {m \in Nat : ~\E f : Found(f, path, m)}
<1>1. SUFFICES Bad = {}
  OBVIOUS
<1> SUFFICES ASSUME Bad # {} PROVE FALSE
  OBVIOUS
<1>2. PICK m \in Bad : \A l \in Bad : m <= l
  <2>1. Bad \in SUBSET Nat
    OBVIOUS
  <2> HIDE DEF Bad
  <2> QED
    BY <2>1, Least
<1>3. m \in Nat /\ ~\E f : Found(f, path, m)
  OBVIOUS
<1>4. m # 0
  <2> DEFINE f == [k \in 0..0 |-> Root]
  <2>1. f = [k \in 0..0 |-> IF k = 0 THEN Root ELSE Step(f[k - 1], path[k])]
    OBVIOUS
  <2>2. Found(f, path, 0)
    BY <2>1 DEF Found
  <2> QED
    BY <1>3, <2>2
<1>5. m - 1 \in Nat /\ m - 1 \notin Bad
  BY <1>2, <1>3, <1>4
<1>6. PICK f : Found(f, path, m - 1)
  BY <1>5
<1> DEFINE g == [k \in 0..m |-> IF k < m THEN f[k] ELSE Step(f[m - 1], path[m])]
           h == [k \in 0..m |-> IF k = 0 THEN Root ELSE Step(g[k - 1], path[k])]
<1>7. ASSUME NEW k \in 0..m PROVE g[k] = h[k]
  <2>1. CASE k = m
    BY <2>1, <1>3, <1>4
  <2>2. CASE k < m
    <3>1. k \in 0..(m - 1)
      BY <2>2, <1>3
    <3>2. f[k] = IF k = 0 THEN Root ELSE Step(f[k - 1], path[k])
      BY <3>1, <1>6 DEF Found
    <3>3. k # 0 => k - 1 \in 0..m /\ k - 1 < m
      BY <3>1, <1>3
    <3> QED
      BY <2>2, <3>2, <3>3
  <2> QED
    BY <2>1, <2>2, <1>3
<1>8. g = h
  BY <1>7
<1>9. Found(g, path, m)
  <2> HIDE DEF g
  <2> QED
    BY <1>8 DEF Found
<1> QED
  BY <1>3, <1>9

LEMMA FindDirRecursion ==
  ASSUME NEW path, Len(path) \in Nat
  PROVE  \E f : /\ ramfs_find_dir(path) = f[Len(path)]
                /\ f[0] = Root
                /\ \A k \in 1..Len(path) : f[k] = Step(f[k - 1], path[k])
<1> DEFINE Onward(f) == [k \in 0..Len(path) |->
                            IF k = 0 THEN Root ELSE Step(f[k - 1], path[k])]
           after == CHOOSE f : f = Onward(f)
<1>1. after = Onward(after)
  <2>1. PICK f : Found(f, path, Len(path))
    BY FoundExists
  <2>2. f = Onward(f)
    BY <2>1, Zenon DEF Found
  <2> HIDE DEF Onward
  <2> QED
    BY <2>2
<1>2. ramfs_find_dir(path) = after[Len(path)]
  BY DEF ramfs_find_dir
<1> HIDE DEF after
<1>3. after[0] = Root
  BY <1>1
<1>4. ASSUME NEW k \in 1..Len(path) PROVE after[k] = Step(after[k - 1], path[k])
  <2>1. k \in 0..Len(path) /\ k # 0
    OBVIOUS
  <2> QED
    BY <1>1, <2>1
<1> QED
  BY <1>2, <1>3, <1>4

\* A subdirectory that Step goes on to is there, and has the name it looks for.
LEMMA StepIs ==
  ASSUME DirsTyped(dir), DirsHang(dir), NEW d \in DOMAIN dir, NEW part, IsToken(part),
         NEW c, c = Step(d, part)
  PROVE  \/ /\ c = None
            /\ \A k \in 1..Len(dir[d].subdirs) : dir[dir[d].subdirs[k]].name # <<part>>
         \/ c \in DOMAIN dir /\ c # Root /\ dir[c].name = <<part>> /\ dir[c].parent = d
<1>1. PICK ids : ids = dir[d].subdirs
  OBVIOUS
<1>2. PICK i : i = Find(ids, dir, <<part>>)
  OBVIOUS
<1>3. d # None
  BY BoundAssumption DEF DirsTyped, None
<1>4. c = IF i = 0 THEN None ELSE ids[i]
  BY <1>1, <1>2, <1>3 DEF Step
<1>5. Len(ids) \in Nat /\ \A k \in 1..Len(ids) : ids[k] \in DOMAIN dir \ {Root}
  <2>1. /\ SubdirsOf(dir) \in Arrays(DOMAIN dir, DirIds) /\ SubdirsOf(dir)[d] = ids
        /\ Len(ids) \in Nat
    BY <1>1, DirType
  <2>2. \A k \in 1..Len(ids) : In(SubdirsOf(dir), ids[k])
    BY <2>1, ArrayType
  <2> QED
    BY <2>1, <2>2 DEF DirsHang
<1>6. \/ i = 0 /\ \A k \in 1..Len(ids) : dir[ids[k]].name # <<part>>
      \/ i \in 1..Len(ids) /\ dir[ids[i]].name = <<part>>
  BY <1>2, <1>5, FindIs
<1>7. \A k \in 1..Len(ids) : dir[ids[k]].parent = d
  BY <1>1 DEF DirsHang
<1>8. CASE i = 0
  BY <1>1, <1>4, <1>6, <1>8
<1>9. CASE i \in 1..Len(ids)
  <2>1. i # 0
    BY <1>5, <1>9
  <2> QED
    BY <1>4, <1>5, <1>6, <1>7, <1>9, <2>1
<1> QED
  BY <1>6, <1>8, <1>9

LEMMA StepTyped ==
  ASSUME DirsTyped(dir), DirsHang(dir), NEW d \in DOMAIN dir \cup {None}, NEW part
  PROVE  Step(d, part) \in DOMAIN dir \cup {None}
<1>1. CASE d = None \/ ~IsToken(part)
  BY <1>1 DEF Step
<1>2. CASE d \in DOMAIN dir /\ IsToken(part)
  BY <1>2, StepIs
<1> QED
  BY <1>1, <1>2

\* A path leads to a directory that is there, or nowhere.
LEMMA FindDirTyped ==
  ASSUME DirsTyped(dir), DirsHang(dir), NEW path, Len(path) \in Nat
  PROVE  ramfs_find_dir(path) \in DOMAIN dir \cup {None}
<1>1. PICK f : /\ ramfs_find_dir(path) = f[Len(path)]
               /\ f[0] = Root
               /\ \A k \in 1..Len(path) : f[k] = Step(f[k - 1], path[k])
  BY FindDirRecursion
<1> DEFINE Bad == {k \in 0..Len(path) : f[k] \notin DOMAIN dir \cup {None}}
<1>2. Bad = {}
  <2> SUFFICES ASSUME Bad # {} PROVE FALSE
    OBVIOUS
  <2>1. PICK k \in Bad : \A l \in Bad : k <= l
    <3>1. Bad \in SUBSET Nat
      OBVIOUS
    <3> HIDE DEF Bad
    <3> QED
      BY <3>1, Least
  <2>2. k # 0
    BY <1>1 DEF DirsTyped
  <2>3. k \in 1..Len(path) /\ k - 1 \in 0..Len(path) /\ k - 1 \notin Bad
    BY <2>1, <2>2
  <2>4. f[k - 1] \in DOMAIN dir \cup {None} /\ f[k] = Step(f[k - 1], path[k])
    BY <1>1, <2>3
  <2> QED
    BY <2>4, StepTyped
<1> QED
  BY <1>1, <1>2

\* ramfs_open finds a file of a directory, or none.
LEMMA LookupTyped ==
  ASSUME DirsTyped(dir), DirsHang(dir), FilesHang(dir, file), NEW path
  PROVE  Lookup(path) \in DOMAIN file \cup {0}
<1>1. PICK d : d = ramfs_find_dir(DirPart(path))
  OBVIOUS
<1>2. d \in DOMAIN dir \cup {None}
  <2>1. Len(DirPart(path)) \in Nat
    BY DEF DirPart
  <2> QED
    BY <1>1, <2>1, FindDirTyped
<1>3. PICK i : i = IF d = None THEN 0 ELSE Find(dir[d].files, file, NamePart(path))
  OBVIOUS
<1>4. Lookup(path) = IF i = 0 THEN 0 ELSE dir[d].files[i]
  BY <1>1, <1>3 DEF Lookup
<1>5. CASE i = 0
  BY <1>4, <1>5
<1>6. CASE i # 0
  <2>1. d \in DOMAIN dir /\ i = Find(dir[d].files, file, NamePart(path))
    BY <1>2, <1>3, <1>6
  <2>2. /\ FilesOf(dir) \in Arrays(DOMAIN dir, FileIds) /\ FilesOf(dir)[d] = dir[d].files
        /\ Len(dir[d].files) \in Nat
    BY <2>1, DirType
  <2>3. i \in 1..Len(dir[d].files)
    BY <1>6, <2>1, <2>2, FindIs
  <2>4. In(FilesOf(dir), dir[d].files[i])
    BY <2>1, <2>2, <2>3, ArrayType
  <2> QED
    BY <1>4, <1>6, <2>4 DEF FilesHang
<1> QED
  BY <1>5, <1>6

-----------------------------------------------------------------------------
(* Descriptors.                                                            *)

TableTyped(T) == T \in [Fds -> Entry \cup {NULL}]
Opened(T) == {fd \in Fds : T[fd] # NULL}

LEMMA OpenedIs ==
  /\ OpenFds = Opened(fd_table)
  /\ NULL \notin Entry
  /\ \A fd : fd \in OpenFds <=> fd \in Fds /\ IsOpen(fd)
<1>1. \A e \in Entry : e.file \in FileIds
  BY DEF Entry
<1>2. NULL.file = 0 /\ 0 \notin FileIds
  BY BoundAssumption DEF NULL
<1> QED
  BY <1>1, <1>2 DEF OpenFds, IsOpen, Opened

LEMMA OpenedFinite ==
  ASSUME NEW T
  PROVE  /\ IsFiniteSet(Fds) /\ Cardinality(Fds) = MaxFds
         /\ IsFiniteSet(Opened(T)) /\ Cardinality(Opened(T)) \in 0..MaxFds
<1>1. IsFiniteSet(Fds) /\ Cardinality(Fds) = MaxFds
  <2>1. 0 \in Int /\ MaxFds - 1 \in Int /\ ~(0 > MaxFds - 1) /\ (MaxFds - 1) - 0 + 1 = MaxFds
    BY TableAssumption
  <2> QED
    BY <2>1, FS_Interval DEF Fds
<1>2. IsFiniteSet(Opened(T)) /\ Cardinality(Opened(T)) <= Cardinality(Fds)
  BY <1>1, FS_Subset DEF Opened
<1>3. Cardinality(Opened(T)) \in Nat
  BY <1>2, FS_CardinalityType
<1> QED
  BY <1>1, <1>2, <1>3, TableAssumption

LEMMA OpenEntry ==
  ASSUME NEW T, TableTyped(T), NEW fd \in Opened(T)
  PROVE  /\ fd \in Fds /\ T[fd] \in Entry /\ T[fd].file \in FileIds
         /\ T[fd].position \in 0..MaxPosition /\ T[fd].flags \in SUBSET Flags
<1>1. fd \in Fds /\ T[fd] \in Entry
  BY DEF Opened, TableTyped
<1> QED
  BY <1>1 DEF Entry

\* What reads, writes and seeks, and what opening and closing do to the table.
Moved(T, U, fd, p) == U = [T EXCEPT ![fd].position = p]
Assigned(T, U, fd, e) == U = [T EXCEPT ![fd] = e]

LEMMA PositionMoved ==
  ASSUME NEW T, TableTyped(T), NEW fd \in Opened(T), NEW p \in 0..MaxPosition,
         NEW U, Moved(T, U, fd, p)
  PROVE  /\ TableTyped(U) /\ Opened(U) = Opened(T)
         /\ \A g \in Fds : g # fd => U[g] = T[g]
         /\ U[fd].file = T[fd].file /\ U[fd].flags = T[fd].flags /\ U[fd].position = p
<1>1. fd \in Fds /\ T[fd] \in Entry
  BY OpenEntry
<1>2. /\ U[fd] \in Entry /\ U[fd].file = T[fd].file /\ U[fd].flags = T[fd].flags
      /\ U[fd].position = p
  BY <1>1 DEF Entry, TableTyped, Moved
<1>3. \A g \in Fds : g # fd => U[g] = T[g]
  BY DEF TableTyped, Moved
<1>4. U = [g \in Fds |-> U[g]]
  BY DEF TableTyped, Moved
<1>5. TableTyped(U)
  <2>1. \A g \in Fds : U[g] \in Entry \cup {NULL}
    BY <1>2, <1>3 DEF TableTyped
  <2> QED
    BY <1>4, <2>1 DEF TableTyped
<1>6. Opened(U) = Opened(T)
  BY <1>2, <1>3, OpenedIs DEF Opened
<1> QED
  BY <1>2, <1>3, <1>5, <1>6

LEMMA EntrySet ==
  ASSUME NEW T, TableTyped(T), NEW fd \in Fds, NEW e \in Entry \cup {NULL},
         NEW U, Assigned(T, U, fd, e)
  PROVE  /\ TableTyped(U) /\ U[fd] = e
         /\ \A g \in Fds : g # fd => U[g] = T[g]
         /\ e \in Entry => Opened(U) = Opened(T) \cup {fd}
         /\ e = NULL => Opened(U) = Opened(T) \ {fd}
<1>1. U[fd] = e /\ \A g \in Fds : g # fd => U[g] = T[g]
  BY DEF TableTyped, Assigned
<1>2. TableTyped(U)
  BY DEF TableTyped, Assigned
<1>3. e \in Entry => Opened(U) = Opened(T) \cup {fd}
  BY <1>1, OpenedIs DEF Opened
<1>4. e = NULL => Opened(U) = Opened(T) \ {fd}
  BY <1>1 DEF Opened
<1> QED
  BY <1>1, <1>2, <1>3, <1>4

-----------------------------------------------------------------------------
(* The invariant.                                                          *)

WithFiles(D) == {d \in DOMAIN D : D[d].files # <<>>}
WithSubdirs(D) == {d \in DOMAIN D : D[d].subdirs # <<>>}

TreeIInv ==
    WellFormed(dir, file) /\ current_dir \in DOMAIN dir

TableIInv == TableTyped(fd_table) /\ lost \in 0..MaxLost

RamFSIInv == TreeIInv /\ TableIInv /\ BlocksBalanced

Blocks(D, F, T) ==
    3 * Cardinality(DOMAIN F) + Cardinality(Opened(T)) + 2 * Cardinality(DOMAIN D)
    + Cardinality(WithFiles(D)) + Cardinality(WithSubdirs(D))

LEMMA OwnedIs ==
  /\ Owned = Blocks(dir, file, fd_table) /\ OpenFds = Opened(fd_table)
  /\ Owned' = Blocks(dir', file', fd_table') /\ OpenFds' = Opened(fd_table')
BY DEF Owned, FileBlocks, DirBlocks, WithFiles, WithSubdirs, Blocks, OpenFds, IsOpen, Opened

\* The summands are numbers.
LEMMA Summands ==
  ASSUME NEW D, NEW F, NEW T, DirsTyped(D), FilesTyped(F)
  PROVE  /\ Cardinality(DOMAIN F) \in Nat /\ Cardinality(DOMAIN D) \in Nat
         /\ Cardinality(Opened(T)) \in Nat
         /\ Cardinality(WithFiles(D)) \in Nat /\ IsFiniteSet(WithFiles(D))
         /\ Cardinality(WithSubdirs(D)) \in Nat /\ IsFiniteSet(WithSubdirs(D))
         /\ Blocks(D, F, T) \in Nat
<1>1. IsFiniteSet(DOMAIN F) /\ IsFiniteSet(DOMAIN D)
  BY DEF FilesTyped, DirsTyped
<1>2. IsFiniteSet(WithFiles(D)) /\ IsFiniteSet(WithSubdirs(D))
  BY <1>1, FS_Subset DEF WithFiles, WithSubdirs
<1>3. /\ Cardinality(DOMAIN F) \in Nat /\ Cardinality(DOMAIN D) \in Nat
      /\ Cardinality(WithFiles(D)) \in Nat /\ Cardinality(WithSubdirs(D)) \in Nat
  BY <1>1, <1>2, FS_CardinalityType
<1>4. Cardinality(Opened(T)) \in Nat
  BY OpenedFinite
<1>5. Blocks(D, F, T) \in Nat
  BY <1>3, <1>4 DEF Blocks
<1> QED
  BY <1>2, <1>3, <1>4, <1>5

\* A call that leaves directories, and files but for their data, alone.
LEMMA TreeStays ==
  ASSUME TreeIInv, UNCHANGED <<dir, current_dir>>, FilesTyped(file'),
         DOMAIN file' = DOMAIN file, \A f \in DOMAIN file : file'[f].name = file[f].name
  PROVE  TreeIInv'
<1> USE DEF WellFormed
<1>1. NamesDiffer(FilesOf(dir), file')
  <2>1. \A d \in DOMAIN dir : \A i \in 1..Len(FilesOf(dir)[d]) : FilesOf(dir)[d][i] \in DOMAIN file
    <3> SUFFICES ASSUME NEW d \in DOMAIN dir, NEW i \in 1..Len(FilesOf(dir)[d])
                 PROVE  FilesOf(dir)[d][i] \in DOMAIN file
      OBVIOUS
    <3>1. FilesOf(dir) \in Arrays(DOMAIN dir, FileIds)
      BY DirType DEF TreeIInv
    <3>2. In(FilesOf(dir), FilesOf(dir)[d][i])
      BY <3>1, ArrayType
    <3> QED
      BY <3>2 DEF TreeIInv, FilesHang
  <2>2. DOMAIN FilesOf(dir) = DOMAIN dir /\ NamesDiffer(FilesOf(dir), file)
    BY DEF FilesOf, TreeIInv, FilesHang
  <2>3. ASSUME NEW d \in DOMAIN dir, NEW i \in 1..Len(FilesOf(dir)[d]),
               NEW j \in 1..Len(FilesOf(dir)[d]),
               file'[FilesOf(dir)[d][i]].name = file'[FilesOf(dir)[d][j]].name
        PROVE  i = j
    <3>1. file[FilesOf(dir)[d][i]].name = file[FilesOf(dir)[d][j]].name
      BY <2>1, <2>3
    <3> QED
      BY <2>2, <3>1 DEF NamesDiffer
  <2> QED
    BY <2>2, <2>3 DEF NamesDiffer
<1>2. FilesHang(dir, file')
  BY <1>1 DEF TreeIInv, FilesHang
<1>3. /\ DirsTyped(dir)' /\ DirsHang(dir)' /\ FilesHang(dir, file)' /\ FilesTyped(file)'
      /\ current_dir' \in DOMAIN dir'
  BY <1>2 DEF TreeIInv
<1> QED
  BY <1>3 DEF TreeIInv

-----------------------------------------------------------------------------
(* The calls keep it.                                                      *)

LEMMA ShortSequences ==
  ASSUME NEW S, NEW a \in S, NEW b \in S
  PROVE  <<>> \in Seq(S) /\ <<a>> \in Seq(S) /\ <<a, b>> \in Seq(S)
OBVIOUS

LEMMA InitMeetsIInv ==
  ASSUME Init
  PROVE  RamFSIInv
<1>1. /\ DOMAIN dir = {0} /\ DOMAIN file = 1..4 /\ current_dir = 0 /\ lost = 0 /\ fd_count = 4
      /\ held = 19 /\ file = [f \in 1..4 |-> file[f]]
  <2>1. DOMAIN dir = {0} /\ current_dir = 0 /\ lost = 0 /\ fd_count = 4
    BY DEF Init, Root
  <2>2. held = 19
    <3>1. held = DirBlocks + 1 + 4 * FileBlocks + 4
      BY Zenon DEF Init
    <3> QED
      BY <3>1 DEF DirBlocks, FileBlocks
  <2>3. \E a, b, c, d : file = <<a, b, c, d>>
    BY Zenon DEF Init
  <2>4. DOMAIN file = 1..4 /\ file = [f \in 1..4 |-> file[f]]
    BY <2>3
  <2> QED
    BY <2>1, <2>2, <2>4
<1>2. /\ dir[0].name = <<"", "">> /\ dir[0].parent = -1 /\ dir[0].files = <<1, 2, 3, 4>>
      /\ dir[0].subdirs = <<>>
      /\ dir[0] = [name |-> <<"", "">>, parent |-> -1, files |-> <<1, 2, 3, 4>>, subdirs |-> <<>>]
  BY DEF Init, Root, None
<1>3. /\ file[1] = [name |-> <<"stdin">>, data |-> <<>>]
      /\ file[2] = [name |-> <<"stdout">>, data |-> <<>>]
      /\ file[3] = [name |-> <<"stderr">>, data |-> <<>>]
      /\ file[4] = [name |-> <<"FD-test">>, data |-> <<"W">>]
  BY DEF Init
<1>4. 1..4 \subseteq FileIds
  BY BoundAssumption
<1>5. DirsTyped(dir)
  <2>1. dir[0] \in Directory
    <3>1. <<"", "">> \in Seq(Strings)
      <4>1. "" \in Strings
        BY DEF Strings
      <4> QED
        BY <4>1, ShortSequences
    <3>2. <<1, 2, 3, 4>> \in Seq(FileIds)
      <4>1. 1 \in FileIds /\ 2 \in FileIds /\ 3 \in FileIds /\ 4 \in FileIds
        BY <1>4
      <4> QED
        BY <4>1
    <3>3. <<>> \in Seq(DirIds)
      OBVIOUS
    <3> QED
      BY <1>2, <3>1, <3>2, <3>3 DEF Directory, None
  <2>2. dir \in [DOMAIN dir -> Directory]
    <3>1. dir = [d \in {0} |-> dir[d]]
      BY DEF Init, Root
    <3> QED
      BY <1>1, <2>1, <3>1
  <2>3. IsFiniteSet({0}) /\ {0} \subseteq DirIds
    BY FS_Singleton, BoundAssumption DEF Root
  <2>4. Len(<<1, 2, 3, 4>>) = 4 /\ Len(<<>>) = 0
    OBVIOUS
  <2>5. Len(dir[0].files) <= MaxFiles /\ Len(dir[0].subdirs) <= MaxSubdirs
    <3>1. 4 <= MaxFiles /\ 0 <= MaxSubdirs
      BY HeapAssumption
    <3> QED
      BY <1>2, <2>4, <3>1
  <2> QED
    BY <1>1, <2>2, <2>3, <2>5 DEF DirsTyped, Root
<1>6. FilesTyped(file)
  <2>1. \A f \in 1..4 : file[f] \in Document
    <3>1. /\ <<"stdin">> \in Seq(Strings) /\ <<"stdout">> \in Seq(Strings)
          /\ <<"stderr">> \in Seq(Strings) /\ <<"FD-test">> \in Seq(Strings)
          /\ <<>> \in Seq(Strings) /\ <<"W">> \in Seq(Strings)
      <4>1. /\ "stdin" \in Strings /\ "stdout" \in Strings /\ "stderr" \in Strings
            /\ "FD-test" \in Strings /\ "W" \in Strings
        BY DEF Strings
      <4> QED
        BY <4>1, ShortSequences
    <3>2. file[1] \in Document /\ file[2] \in Document /\ file[3] \in Document
          /\ file[4] \in Document
      BY <1>3, <3>1 DEF Document
    <3> QED
      BY <3>2
  <2>2. \A f \in 1..4 : Len(file[f].data) <= MaxData
    <3>1. Len(<<>>) = 0 /\ Len(<<"W">>) = 1 /\ 0 <= MaxData /\ 1 <= MaxData
      BY HeapAssumption
    <3>2. /\ Len(file[1].data) <= MaxData /\ Len(file[2].data) <= MaxData
          /\ Len(file[3].data) <= MaxData /\ Len(file[4].data) <= MaxData
      BY <1>3, <3>1
    <3> QED
      BY <3>2
  <2>3. IsFiniteSet(1..4)
    <3>1. 1 \in Int /\ 4 \in Int
      OBVIOUS
    <3> QED
      BY <3>1, FS_Interval
  <2>4. file = [f \in 1..4 |-> file[f]]
    BY <1>1
  <2>5. file \in [1..4 -> Document]
    BY <2>1, <2>4
  <2> QED
    BY <1>1, <1>4, <2>2, <2>3, <2>5 DEF FilesTyped
<1>7. FilesHang(dir, file)
  <2>1. DOMAIN FilesOf(dir) = {0} /\ FilesOf(dir)[0] = <<1, 2, 3, 4>>
    BY <1>1, <1>2 DEF FilesOf
  <2>2. Len(<<1, 2, 3, 4>>) = 4 /\ \A i \in 1..4 : <<1, 2, 3, 4>>[i] = i
    OBVIOUS
  <2>3. /\ file[1].name = <<"stdin">> /\ file[2].name = <<"stdout">>
        /\ file[3].name = <<"stderr">> /\ file[4].name = <<"FD-test">>
    BY <1>3
  <2>4. \A i, j \in 1..4 : file[i].name = file[j].name => i = j
    <3>1. /\ file[1].name # file[2].name /\ file[1].name # file[3].name
          /\ file[1].name # file[4].name /\ file[2].name # file[3].name
          /\ file[2].name # file[4].name /\ file[3].name # file[4].name
      <4>1. /\ <<"stdin">>[1] = "stdin" /\ <<"stdout">>[1] = "stdout"
            /\ <<"stderr">>[1] = "stderr" /\ <<"FD-test">>[1] = "FD-test"
        OBVIOUS
      <4>2. /\ "stdin" # "stdout" /\ "stdin" # "stderr" /\ "stdin" # "FD-test"
            /\ "stdout" # "stderr" /\ "stdout" # "FD-test" /\ "stderr" # "FD-test"
        OBVIOUS
      <4> QED
        BY <2>3, <4>1, <4>2
    <3> QED
      BY <3>1
  <2>5. Distinct(FilesOf(dir)) /\ \A x : In(FilesOf(dir), x) <=> x \in 1..4
    BY <2>1, <2>2 DEF Distinct, In
  <2>6. NamesDiffer(FilesOf(dir), file)
    <3>1. \A i \in 1..4 : FilesOf(dir)[0][i] = i
      BY <2>1, <2>2
    <3>2. Len(FilesOf(dir)[0]) = 4
      BY <2>1, <2>2
    <3> QED
      BY <2>1, <2>4, <3>1, <3>2 DEF NamesDiffer
  <2> QED
    BY <1>1, <2>5, <2>6 DEF FilesHang
<1>8. DirsHang(dir)
  <2>1. DOMAIN SubdirsOf(dir) = {0} /\ SubdirsOf(dir)[0] = <<>> /\ Len(<<>>) = 0
    BY <1>1, <1>2 DEF SubdirsOf
  <2>2. Distinct(SubdirsOf(dir)) /\ NamesDiffer(SubdirsOf(dir), dir)
        /\ \A x : ~In(SubdirsOf(dir), x)
    BY <2>1 DEF Distinct, NamesDiffer, In
  <2>3. Reached(dir)
    BY <1>1 DEF Reached, Root
  <2>4. dir[Root].parent = None
    BY <1>2 DEF Root, None
  <2>5. \A d \in DOMAIN dir : \A i \in 1..Len(dir[d].subdirs) :
           dir[dir[d].subdirs[i]].parent = d
    <3>1. Len(<<>>) = 0 /\ 1..0 = {}
      BY <2>1
    <3>2. 1..Len(dir[0].subdirs) = {}
      BY <1>2, <3>1, Zenon
    <3> QED
      BY <1>1, <3>2
  <2> QED
    BY <1>1, <2>2, <2>3, <2>4, <2>5 DEF DirsHang, Root
<1>9. TableTyped(fd_table) /\ Opened(fd_table) = 0..3
  <2>1. /\ ReadBit = 1 /\ WriteBit = 2 /\ AppendBit = 4 /\ 0 \in 0..MaxPosition
        /\ 1 \in 0..MaxPosition /\ 1 \in FileIds /\ 2 \in FileIds /\ 3 \in FileIds
        /\ 4 \in FileIds /\ 0..3 \subseteq Fds
    BY <1>4, TableAssumption, HeapAssumption, BoundAssumption
       DEF Fds, ReadBit, WriteBit, AppendBit
  <2> DEFINE e0 == [file |-> 1, position |-> 0, flags |-> O_RDWR \cup O_APPEND]
             e1 == [file |-> 2, position |-> 0, flags |-> O_WRONLY]
             e2 == [file |-> 3, position |-> 0, flags |-> O_WRONLY]
             e3 == [file |-> 4, position |-> 1, flags |-> O_RDWR \cup O_APPEND]
  <2>2. /\ fd_table[0] = [file |-> 1, position |-> 0, flags |-> O_RDWR \cup O_APPEND]
        /\ fd_table[1] = [file |-> 2, position |-> 0, flags |-> O_WRONLY]
        /\ fd_table[2] = [file |-> 3, position |-> 0, flags |-> O_WRONLY]
        /\ fd_table[3] = [file |-> 4, position |-> 1, flags |-> O_RDWR \cup O_APPEND]
        /\ \A fd \in Fds \ 0..3 : fd_table[fd] = NULL
        /\ fd_table = [fd \in Fds |-> fd_table[fd]]
    <3>1. fd_table = [fd \in Fds |->
             CASE fd = 0 -> e0 [] fd = 1 -> e1 [] fd = 2 -> e2 [] fd = 3 -> e3 [] OTHER -> NULL]
      BY Zenon DEF Init
    <3> HIDE DEF e0, e1, e2, e3
    <3>2. fd_table[0] = e0 /\ fd_table[1] = e1 /\ fd_table[2] = e2 /\ fd_table[3] = e3
          /\ \A fd \in Fds \ 0..3 : fd_table[fd] = NULL
      BY <2>1, <3>1
    <3>3. fd_table = [fd \in Fds |-> fd_table[fd]]
      BY <3>1
    <3> QED
      BY <3>2, <3>3 DEF e0, e1, e2, e3
  <2>3. O_RDWR \cup O_APPEND \in SUBSET Flags /\ O_WRONLY \in SUBSET Flags
    BY DEF O_RDWR, O_APPEND, O_WRONLY, Flags
  <2>4. \A fd \in 0..3 : fd_table[fd] \in Entry
    <3>1. /\ fd_table[0] \in Entry /\ fd_table[1] \in Entry /\ fd_table[2] \in Entry
          /\ fd_table[3] \in Entry
      BY <2>1, <2>2, <2>3 DEF Entry
    <3> QED
      BY <3>1
  <2>5. TableTyped(fd_table)
    <3>1. \A fd \in Fds : fd_table[fd] \in Entry \cup {NULL}
      BY <2>2, <2>4
    <3> QED
      BY <2>2, <3>1 DEF TableTyped
  <2>6. Opened(fd_table) = 0..3
    BY <2>1, <2>2, <2>4, OpenedIs DEF Opened
  <2> QED
    BY <2>5, <2>6
<1>10. BlocksBalanced
  <2>1. Cardinality({0}) = 1 /\ Cardinality(1..4) = 4 /\ Cardinality(0..3) = 4
        /\ Cardinality({}) = 0
    <3>1. Cardinality(1..4) = 4 - 1 + 1 /\ Cardinality(0..3) = 3 - 0 + 1
      <4>1. 0 \in Int /\ 1 \in Int /\ 3 \in Int /\ 4 \in Int /\ ~(1 > 4) /\ ~(0 > 3)
        OBVIOUS
      <4> QED
        BY <4>1, FS_Interval
    <3> QED
      BY <3>1, FS_Singleton, FS_EmptySet
  <2>2. WithFiles(dir) = {0} /\ WithSubdirs(dir) = {}
    <3>1. <<1, 2, 3, 4>> # <<>>
      OBVIOUS
    <3> QED
      BY <1>1, <1>2, <3>1 DEF WithFiles, WithSubdirs
  <2> QED
    BY <1>1, <1>9, <2>1, <2>2, OwnedIs DEF BlocksBalanced, Blocks
<1> QED
  <2>1. TreeIInv
    BY <1>1, <1>5, <1>6, <1>7, <1>8 DEF TreeIInv, WellFormed, Root
  <2>2. TableIInv
    BY <1>1, <1>9, BoundAssumption DEF TableIInv
  <2> QED
    BY <1>10, <2>1, <2>2 DEF RamFSIInv

LEMMA touchKeeps ==
  ASSUME RamFSIInv, NEW name \in Names, touch(name)
  PROVE  RamFSIInv'
<1>1. /\ WellFormed(dir, file) /\ DirsTyped(dir) /\ FilesTyped(file)
      /\ current_dir \in DOMAIN dir /\ TableTyped(fd_table) /\ lost \in 0..MaxLost
      /\ BlocksBalanced
  BY DEF RamFSIInv, TreeIInv, TableIInv, WellFormed
<1>2. /\ IsNewFile(current_dir, name) /\ ramfs_create_file(current_dir, name, <<Nul>>)
      /\ UNCHANGED <<fd_table, fd_count, current_dir, lost>>
  BY DEF touch
<1>3. TableIInv'
  BY <1>1, <1>2 DEF TableIInv, TableTyped
<1>4. PICK d : d = current_dir
  OBVIOUS
<1>5. CASE Len(dir[d].files) < MaxFiles
  <2>1. PICK f : f = Min(FileIds \ DOMAIN file)
    OBVIOUS
  <2>2. /\ FileIds \ DOMAIN file # {}
        /\ file' = [g \in DOMAIN file \cup {f} |->
                      IF g = f THEN [name |-> name, data |-> <<Nul>>] ELSE file[g]]
        /\ dir' = [dir EXCEPT ![d].files = Append(@, f)]
        /\ held' = held + FileBlocks + 1 - ArrayBlocks(dir[d].files)
    BY <1>2, <1>4, <1>5, <2>1, Zenon DEF ramfs_create_file
  <2>3. f \in FileIds \ DOMAIN file
    <3>1. FileIds \ DOMAIN file \in SUBSET Nat
      BY BoundAssumption
    <3> QED
      BY <2>1, <2>2, <3>1, MinIs
  <2>4. name \in Seq(Strings) /\ <<Nul>> \in Seq(Strings) /\ Len(<<Nul>>) <= MaxData
    <3>1. Nul \in Strings
      BY DEF Strings
    <3>2. Len(<<Nul>>) = 1
      OBVIOUS
    <3>3. 1 <= MaxData
      BY HeapAssumption
    <3> QED
      BY <3>1, <3>2, <3>3, InputAssumption, AreStrings, ShortSequences
  <2>5. Find(dir[d].files, file, name) = 0
    BY <1>2, <1>4 DEF IsNewFile
  <2>6. PICK G, E : G = file' /\ E = dir'
    OBVIOUS
  <2>7. FilePutIn(file, G, f, name, <<Nul>>)
    BY <2>2, <2>6, Zenon DEF FilePutIn
  <2>8. d \in DOMAIN dir /\ FilesSet(dir, E, d, Append(dir[d].files, f))
    BY <1>1, <1>4, <2>2, <2>6 DEF FilesSet
  <2>9. WellFormed(E, G)
    BY <1>1, <1>5, <2>3, <2>4, <2>5, <2>7, <2>8, FileIsCreated
  <2>10. /\ DOMAIN E = DOMAIN dir /\ DOMAIN G = DOMAIN file \cup {f}
         /\ E[d].files # <<>>
         /\ \A x \in DOMAIN dir : x # d => E[x].files = dir[x].files
         /\ \A x \in DOMAIN dir : E[x].subdirs = dir[x].subdirs
    <3>1. PICK files : files = Append(dir[d].files, f)
      OBVIOUS
    <3>2. files \in Seq(FileIds) /\ files # <<>>
      <4>1. PICK old : old = dir[d].files
        OBVIOUS
      <4>2. old \in Seq(FileIds) /\ f \in FileIds
        BY <1>1, <2>3, <2>8, <4>1, DirType
      <4> QED
        BY <3>1, <4>1, <4>2, AppendProperties
    <3>3. DOMAIN G = DOMAIN file \cup {f}
      BY <2>7 DEF FilePutIn
    <3>4. FilesSet(dir, E, d, files) /\ DirsTyped(dir) /\ d \in DOMAIN dir
      BY <1>1, <2>8, <3>1
    <3>5. Refiled(dir, E, d, files)
      BY <3>2, <3>4, FilesSetFacts
    <3> QED
      BY <3>2, <3>3, <3>5 DEF Refiled
  <2>11. TreeIInv'
    BY <1>1, <1>2, <2>6, <2>9, <2>10 DEF TreeIInv
  <2>12. BlocksBalanced'
    <3>1. WithSubdirs(E) = WithSubdirs(dir) /\ WithFiles(E) = WithFiles(dir) \cup {d}
          /\ (d \in WithFiles(dir) <=> dir[d].files # <<>>)
      <4>1. d \in DOMAIN dir
        BY <2>8
      <4>2. WithSubdirs(E) = WithSubdirs(dir)
        <5>1. DOMAIN E = DOMAIN dir /\ \A x \in DOMAIN dir : E[x].subdirs = dir[x].subdirs
          BY <2>10
        <5> QED
          BY <5>1 DEF WithSubdirs
      <4>3. WithFiles(E) = WithFiles(dir) \cup {d} /\ (d \in WithFiles(dir) <=> dir[d].files # <<>>)
        BY <2>10, <4>1 DEF WithFiles
      <4> QED
        BY <4>2, <4>3
    <3>2. Cardinality(WithFiles(E)) + ArrayBlocks(dir[d].files) = Cardinality(WithFiles(dir)) + 1
      <4>1. IsFiniteSet(WithFiles(dir)) /\ Cardinality(WithFiles(dir)) \in Nat
        BY <1>1, Summands
      <4>2. Cardinality(WithFiles(dir) \cup {d}) =
              IF d \in WithFiles(dir) THEN Cardinality(WithFiles(dir))
              ELSE Cardinality(WithFiles(dir)) + 1
        BY <4>1, FS_AddElement
      <4>3. ArrayBlocks(dir[d].files) = IF d \in WithFiles(dir) THEN 1 ELSE 0
        BY <3>1 DEF ArrayBlocks
      <4> QED
        BY <3>1, <4>1, <4>2, <4>3
    <3>3. Cardinality(DOMAIN G) = Cardinality(DOMAIN file) + 1
      <4>1. IsFiniteSet(DOMAIN file)
        BY <1>1 DEF FilesTyped
      <4> QED
        BY <2>3, <2>10, <4>1, FS_AddElement
    <3>4. PICK a, b, c, g, s, w : /\ a = Cardinality(DOMAIN file) /\ b = Cardinality(Opened(fd_table))
             /\ c = Cardinality(DOMAIN dir) /\ g = Cardinality(WithFiles(dir))
             /\ s = Cardinality(WithSubdirs(dir)) /\ w = ArrayBlocks(dir[d].files)
      OBVIOUS
    <3>5. a \in Nat /\ b \in Nat /\ c \in Nat /\ g \in Nat /\ s \in Nat /\ w \in Nat
      BY <1>1, <3>4, Summands DEF ArrayBlocks
    <3>6. Cardinality(WithFiles(E)) = g + 1 - w
      <4>1. Cardinality(WithFiles(E)) \in Nat
        BY <2>9, Summands DEF WellFormed
      <4> QED
        BY <3>2, <3>4, <3>5, <4>1
    <3>7. held = 3 * a + b + 2 * c + g + s + lost /\ fd_count = b
      BY <1>1, <3>4, OwnedIs DEF BlocksBalanced, Blocks
    <3>8. Owned' = 3 * (a + 1) + b + 2 * c + (g + 1 - w) + s
      <4>1. Owned' = Blocks(E, G, fd_table)
        BY <1>2, <2>6, OwnedIs
      <4> QED
        BY <2>10, <3>1, <3>3, <3>4, <3>6, <4>1 DEF Blocks
    <3>9. held' = held + 3 + 1 - w
      BY <2>2, <3>4 DEF FileBlocks
    <3>10. held' = Owned' + lost'
      BY <1>1, <1>2, <3>5, <3>7, <3>8, <3>9
    <3>11. fd_count' = Cardinality(OpenFds')
      BY <1>2, <3>4, <3>7, OwnedIs
    <3> QED
      BY <3>10, <3>11 DEF BlocksBalanced
  <2> QED
    BY <1>3, <2>11, <2>12 DEF RamFSIInv
<1>6. CASE ~(Len(dir[d].files) < MaxFiles)
  <2>1. UNCHANGED <<dir, file>> /\ held' = held + FileBlocks - Undone
    BY <1>2, <1>4, <1>6 DEF ramfs_create_file
  <2>2. TreeIInv'
    BY <1>1, <1>2, <2>1 DEF TreeIInv
  <2>3. held' = held
    <3>1. Owned \in Nat /\ held = Owned + lost
      BY <1>1, OwnedIs, Summands DEF BlocksBalanced
    <3> QED
      BY <1>1, <2>1, <3>1 DEF FileBlocks, Undone
  <2>4. BlocksBalanced'
    BY <1>1, <1>2, <2>1, <2>3, OwnedIs DEF BlocksBalanced
  <2> QED
    BY <1>3, <2>2, <2>4 DEF RamFSIInv
<1> QED
  BY <1>5, <1>6

LEMMA mkdirKeeps ==
  ASSUME RamFSIInv, NEW name \in Names, mkdir(name)
  PROVE  RamFSIInv'
<1>1. /\ WellFormed(dir, file) /\ DirsTyped(dir) /\ FilesTyped(file)
      /\ current_dir \in DOMAIN dir /\ TableTyped(fd_table) /\ lost \in 0..MaxLost
      /\ BlocksBalanced
  BY DEF RamFSIInv, TreeIInv, TableIInv, WellFormed
<1>2. PICK d : d = current_dir
  OBVIOUS
<1>3. Find(dir[d].subdirs, dir, name) = 0 /\ UNCHANGED <<file, fd_table, fd_count, current_dir>>
  BY <1>2 DEF mkdir
<1>4. PICK a, b, c, g, s, w :
        /\ a = Cardinality(DOMAIN file) /\ b = Cardinality(Opened(fd_table))
        /\ c = Cardinality(DOMAIN dir) /\ g = Cardinality(WithFiles(dir))
        /\ s = Cardinality(WithSubdirs(dir)) /\ w = ArrayBlocks(dir[d].subdirs)
  OBVIOUS
<1>5. a \in Nat /\ b \in Nat /\ c \in Nat /\ g \in Nat /\ s \in Nat /\ w \in Nat
  BY <1>1, <1>4, Summands DEF ArrayBlocks
<1>6. held = 3 * a + b + 2 * c + g + s + lost /\ fd_count = b
  BY <1>1, <1>4, OwnedIs DEF BlocksBalanced, Blocks
<1>7. fd_count' = Cardinality(OpenFds')
  BY <1>3, <1>4, <1>6, OwnedIs
<1>8. CASE Len(dir[d].subdirs) < MaxSubdirs
  <2>1. PICK e : e = Min(DirIds \ DOMAIN dir)
    OBVIOUS
  <2>2. /\ DirIds \ DOMAIN dir # {}
        /\ dir' = [c0 \in DOMAIN dir \cup {e} |->
                     IF c0 = e THEN [name |-> name, parent |-> d, files |-> <<>>, subdirs |-> <<>>]
                     ELSE IF c0 # d THEN dir[c0]
                     ELSE [dir[c0] EXCEPT !.subdirs = Append(@, e)]]
        /\ held' = held + DirBlocks + 1 - ArrayBlocks(dir[d].subdirs)
        /\ UNCHANGED lost
    BY <1>2, <1>8, <2>1, Zenon DEF mkdir
  <2>3. e \in DirIds \ DOMAIN dir
    <3>1. DirIds \ DOMAIN dir \in SUBSET Nat
      BY BoundAssumption
    <3> QED
      BY <2>1, <2>2, <3>1, MinIs
  <2>4. name \in Seq(Strings)
    BY InputAssumption, AreStrings
  <2>5. PICK E : E = dir'
    OBVIOUS
  <2>6. DirPutIn(dir, E, d, e, name)
    BY <2>2, <2>5, Zenon DEF DirPutIn
  <2>7. d \in DOMAIN dir
    BY <1>1, <1>2
  <2>8. WellFormed(E, file)
    BY <1>1, <1>3, <1>8, <2>3, <2>4, <2>6, <2>7, DirIsCreated
  <2>9. NewDir(dir, E, d, e, name)
    BY <1>1, <2>3, <2>4, <2>6, <2>7, DirPutInFacts
  <2>10. /\ DOMAIN E = DOMAIN dir \cup {e} /\ e # d /\ E[d].subdirs # <<>>
         /\ E[e].files = <<>> /\ E[e].subdirs = <<>>
         /\ \A x \in DOMAIN dir : x # d => E[x].subdirs = dir[x].subdirs
         /\ \A x \in DOMAIN dir : E[x].files = dir[x].files
    <3>1. PICK old : old = dir[d].subdirs
      OBVIOUS
    <3>2. old \in Seq(DirIds) /\ e \in DirIds
      BY <1>1, <2>3, <2>7, <3>1, DirType
    <3>3. Append(old, e) # <<>>
      BY <3>2, AppendProperties
    <3> QED
      BY <2>3, <2>7, <2>9, <3>1, <3>3 DEF NewDir
  <2>11. WithFiles(E) = WithFiles(dir) /\ WithSubdirs(E) = WithSubdirs(dir) \cup {d}
         /\ (d \in WithSubdirs(dir) <=> dir[d].subdirs # <<>>)
    BY <2>3, <2>7, <2>10 DEF WithSubdirs, WithFiles
  <2>12. Cardinality(WithSubdirs(E)) = s + 1 - w
    <3>1. IsFiniteSet(WithSubdirs(dir)) /\ Cardinality(WithSubdirs(dir)) \in Nat
      BY <1>1, Summands
    <3>2. Cardinality(WithSubdirs(dir) \cup {d}) =
            IF d \in WithSubdirs(dir) THEN Cardinality(WithSubdirs(dir))
            ELSE Cardinality(WithSubdirs(dir)) + 1
      BY <3>1, FS_AddElement
    <3>3. w = IF d \in WithSubdirs(dir) THEN 1 ELSE 0
      BY <1>4, <2>11 DEF ArrayBlocks
    <3> QED
      BY <1>4, <2>11, <3>1, <3>2, <3>3
  <2>13. Cardinality(DOMAIN E) = c + 1
    <3>1. IsFiniteSet(DOMAIN dir)
      BY <1>1 DEF DirsTyped
    <3> QED
      BY <1>4, <2>3, <2>10, <3>1, FS_AddElement
  <2>14. Owned' = 3 * a + b + 2 * (c + 1) + g + (s + 1 - w)
    <3>1. Owned' = Blocks(E, file, fd_table)
      BY <1>3, <2>5, OwnedIs
    <3> QED
      BY <1>4, <2>11, <2>12, <2>13, <3>1 DEF Blocks
  <2>15. held' = held + 2 + 1 - w
    BY <1>4, <2>2 DEF DirBlocks
  <2>16. BlocksBalanced'
    <3>1. lost' = lost /\ lost \in Int
      BY <1>1, <2>2
    <3>2. held' = Owned' + lost'
      BY <1>5, <1>6, <2>14, <2>15, <3>1
    <3> QED
      BY <1>7, <3>2 DEF BlocksBalanced
  <2>17. TreeIInv'
    BY <1>1, <1>3, <2>5, <2>8, <2>10 DEF TreeIInv
  <2>18. TableIInv'
    BY <1>1, <1>3, <2>2 DEF TableIInv, TableTyped
  <2> QED
    BY <2>16, <2>17, <2>18 DEF RamFSIInv
<1>9. CASE ~(Len(dir[d].subdirs) < MaxSubdirs)
  <2>1. lost < MaxLost /\ held' = held + 1 /\ lost' = lost + 1 /\ UNCHANGED dir
    BY <1>2, <1>9 DEF mkdir
  <2>2. TreeIInv'
    BY <1>1, <1>3, <2>1 DEF TreeIInv
  <2>3. TableIInv'
    <3>1. lost' \in 0..MaxLost
      BY <1>1, <2>1, BoundAssumption
    <3> QED
      BY <1>1, <1>3, <3>1 DEF TableIInv, TableTyped
  <2>4. Owned' = Owned
    BY <1>3, <2>1, OwnedIs
  <2>5. held' = Owned' + lost'
    <3>1. Owned \in Nat /\ held = Owned + lost /\ lost \in Int
      BY <1>1, OwnedIs, Summands DEF BlocksBalanced
    <3> QED
      BY <2>1, <2>4, <3>1
  <2>6. BlocksBalanced'
    BY <1>7, <2>5 DEF BlocksBalanced
  <2> QED
    BY <2>2, <2>3, <2>6 DEF RamFSIInv
<1> QED
  BY <1>8, <1>9

LEMMA rmKeeps ==
  ASSUME RamFSIInv, NEW name \in Names, rm(name)
  PROVE  RamFSIInv'
<1>1. /\ WellFormed(dir, file) /\ DirsTyped(dir) /\ FilesTyped(file)
      /\ current_dir \in DOMAIN dir /\ TableTyped(fd_table) /\ lost \in 0..MaxLost
      /\ BlocksBalanced
  BY DEF RamFSIInv, TreeIInv, TableIInv, WellFormed
<1>2. PICK d, ids, i, f : /\ d = current_dir /\ ids = dir[d].files
                          /\ i = Find(ids, file, name) /\ f = ids[i]
  OBVIOUS
<1>3. /\ i # 0
      /\ file' = [h \in DOMAIN file \ {f} |-> file[h]]
      /\ dir' = [dir EXCEPT ![d].files = RemoveAt(@, i)]
      /\ held' = held - FileBlocks - 1 + ArrayBlocks(Tail(ids))
      /\ UNCHANGED <<fd_table, fd_count, current_dir, lost>>
  BY <1>2, Zenon DEF rm, Shifted
<1>4. d \in DOMAIN dir /\ ids \in Seq(FileIds) /\ Len(ids) \in Nat
  BY <1>1, <1>2, DirType
<1>5. i \in 1..Len(ids)
  BY <1>2, <1>3, <1>4, FindIs
<1>6. PICK G, E : G = file' /\ E = dir'
  OBVIOUS
<1>7. FileTakenOut(file, G, f) /\ FilesSet(dir, E, d, RemoveAt(dir[d].files, i))
  <2>1. FileTakenOut(file, G, f)
    BY <1>3, <1>6, Zenon DEF FileTakenOut
  <2>2. FilesSet(dir, E, d, RemoveAt(dir[d].files, i))
    BY <1>3, <1>4, <1>6 DEF FilesSet
  <2> QED
    BY <2>1, <2>2
<1>8. WellFormed(E, G)
  <2>1. i \in 1..Len(dir[d].files) /\ f = dir[d].files[i]
    BY <1>2, <1>5
  <2> QED
    BY <1>1, <1>4, <1>7, <2>1, FileIsDeleted
<1>9. PICK files : files = RemoveAt(ids, i)
  OBVIOUS
<1>10. files \in Seq(FileIds) /\ Len(files) = Len(ids) - 1
  BY <1>4, <1>5, <1>9, RemoveAtIs
<1>11. Refiled(dir, E, d, files)
  <2>1. FilesSet(dir, E, d, files)
    BY <1>2, <1>7, <1>9
  <2> QED
    BY <1>1, <1>4, <1>10, <2>1, FilesSetFacts
<1>12. /\ DOMAIN E = DOMAIN dir /\ E[d].files = files
       /\ \A x \in DOMAIN dir : x # d => E[x].files = dir[x].files
       /\ \A x \in DOMAIN dir : E[x].subdirs = dir[x].subdirs
       /\ DOMAIN G = DOMAIN file \ {f}
  BY <1>7, <1>11 DEF Refiled, FileTakenOut
<1>13. ids # <<>> /\ (files = <<>> <=> Len(ids) = 1) /\ (Tail(ids) = <<>> <=> Len(ids) = 1)
  <2>1. ids # <<>> /\ (files = <<>> <=> Len(files) = 0)
    BY <1>4, <1>5, <1>10, EmptySeq
  <2>2. Len(Tail(ids)) = Len(ids) - 1 /\ Tail(ids) \in Seq(FileIds)
    BY <1>4, <2>1, HeadTailProperties
  <2>3. Tail(ids) = <<>> <=> Len(Tail(ids)) = 0
    BY <2>2, EmptySeq
  <2> QED
    BY <1>4, <1>10, <2>1, <2>2, <2>3
<1>14. PICK a, b, c, g, s, w :
        /\ a = Cardinality(DOMAIN file) /\ b = Cardinality(Opened(fd_table))
        /\ c = Cardinality(DOMAIN dir) /\ g = Cardinality(WithFiles(dir))
        /\ s = Cardinality(WithSubdirs(dir)) /\ w = ArrayBlocks(Tail(ids))
  OBVIOUS
<1>15. a \in Nat /\ b \in Nat /\ c \in Nat /\ g \in Nat /\ s \in Nat /\ w \in {0, 1}
       /\ (w = 0 <=> Len(ids) = 1)
  <2>1. a \in Nat /\ b \in Nat /\ c \in Nat /\ g \in Nat /\ s \in Nat
    BY <1>1, <1>14, Summands
  <2>2. w = IF Tail(ids) = <<>> THEN 0 ELSE 1
    BY <1>14 DEF ArrayBlocks
  <2>3. w \in {0, 1} /\ (w = 0 <=> Tail(ids) = <<>>)
    BY <2>2
  <2> QED
    BY <1>13, <2>1, <2>3
<1>16. held = 3 * a + b + 2 * c + g + s + lost /\ fd_count = b
  BY <1>1, <1>14, OwnedIs DEF BlocksBalanced, Blocks
<1>17. Cardinality(WithFiles(E)) = g - 1 + w /\ WithSubdirs(E) = WithSubdirs(dir)
  <2>1. WithSubdirs(E) = WithSubdirs(dir)
    BY <1>12 DEF WithSubdirs
  <2>2. d \in WithFiles(dir) /\ IsFiniteSet(WithFiles(dir)) /\ Cardinality(WithFiles(dir)) \in Nat
    BY <1>1, <1>2, <1>4, <1>13, Summands DEF WithFiles
  <2>3. CASE Len(ids) = 1
    <3>1. WithFiles(E) = WithFiles(dir) \ {d}
      BY <1>4, <1>12, <1>13, <2>3 DEF WithFiles
    <3>2. Cardinality(WithFiles(dir) \ {d}) = Cardinality(WithFiles(dir)) - 1
      BY <2>2, FS_RemoveElement
    <3>3. w = 0
      BY <1>15, <2>3
    <3> QED
      BY <1>14, <1>15, <2>1, <3>1, <3>2, <3>3
  <2>4. CASE Len(ids) # 1
    <3>1. WithFiles(E) = WithFiles(dir)
      BY <1>2, <1>12, <1>13, <2>4 DEF WithFiles
    <3>2. w = 1
      BY <1>15, <2>4
    <3> QED
      BY <1>14, <1>15, <2>1, <3>1, <3>2
  <2> QED
    BY <2>3, <2>4
<1>18. Cardinality(DOMAIN G) = a - 1
  <2>1. IsFiniteSet(DOMAIN file)
    BY <1>1 DEF FilesTyped
  <2>2. f \in DOMAIN file
    <3>1. FilesOf(dir) \in Arrays(DOMAIN dir, FileIds) /\ FilesOf(dir)[d] = ids
      BY <1>1, <1>2, <1>4, DirType
    <3>2. In(FilesOf(dir), f)
      BY <1>2, <1>4, <1>5, <3>1, ArrayType
    <3> QED
      BY <1>1, <3>2 DEF WellFormed, FilesHang
  <2> QED
    BY <1>12, <1>14, <2>1, <2>2, FS_RemoveElement
<1>19. BlocksBalanced'
  <2>1. Owned' = Blocks(E, G, fd_table)
    BY <1>3, <1>6, OwnedIs
  <2>2. Owned' = 3 * (a - 1) + b + 2 * c + (g - 1 + w) + s
    BY <1>12, <1>14, <1>17, <1>18, <2>1 DEF Blocks
  <2>3. held' = held - 3 - 1 + w /\ lost' = lost /\ lost \in Int
    BY <1>1, <1>3, <1>14 DEF FileBlocks
  <2>4. held' = Owned' + lost'
    BY <1>15, <1>16, <2>2, <2>3
  <2>5. fd_count' = Cardinality(OpenFds')
    BY <1>3, <1>14, <1>16, OwnedIs
  <2> QED
    BY <2>4, <2>5 DEF BlocksBalanced
<1>20. TreeIInv'
  BY <1>1, <1>3, <1>6, <1>8, <1>12 DEF TreeIInv
<1>21. TableIInv'
  BY <1>1, <1>3 DEF TableIInv, TableTyped
<1> QED
  BY <1>19, <1>20, <1>21 DEF RamFSIInv

LEMMA cdKeeps ==
  ASSUME RamFSIInv, NEW path \in Paths, cd(path)
  PROVE  RamFSIInv'
<1>1. /\ ramfs_find_dir(path) # None /\ current_dir' = ramfs_find_dir(path)
      /\ UNCHANGED <<dir, file, fd_table, fd_count, held, lost>>
  BY DEF cd
<1>2. WellFormed(dir, file) /\ TableIInv /\ BlocksBalanced
  BY DEF RamFSIInv, TreeIInv
<1>3. current_dir' \in DOMAIN dir
  <2>1. path \in Seq(STRING)
    BY InputAssumption
  <2>2. Len(path) \in Nat
    BY <2>1, LenProperties
  <2>3. ramfs_find_dir(path) \in DOMAIN dir \cup {None}
    BY <1>2, <2>2, FindDirTyped DEF WellFormed
  <2> QED
    BY <1>1, <2>3
<1>4. BlocksBalanced'
  <2>1. Owned' = Owned /\ OpenFds' = OpenFds
    BY <1>1, OwnedIs
  <2> QED
    BY <1>1, <1>2, <2>1 DEF BlocksBalanced
<1>5. TreeIInv'
  BY <1>1, <1>2, <1>3 DEF TreeIInv
<1>6. TableIInv'
  BY <1>1, <1>2 DEF TableIInv, TableTyped
<1> QED
  BY <1>4, <1>5, <1>6 DEF RamFSIInv

\* A call that moves positions and changes contents.
LEMMA DataKeeps ==
  ASSUME RamFSIInv, UNCHANGED <<dir, current_dir, fd_count, held, lost>>,
         FilesTyped(file'), DOMAIN file' = DOMAIN file,
         \A f \in DOMAIN file : file'[f].name = file[f].name,
         TableTyped(fd_table'), Opened(fd_table') = Opened(fd_table)
  PROVE  RamFSIInv'
<1>1. TreeIInv'
  BY TreeStays DEF RamFSIInv
<1>2. TableIInv'
  BY DEF RamFSIInv, TableIInv, TableTyped
<1>3. Blocks(dir', file', fd_table') = Blocks(dir, file, fd_table)
  BY DEF Blocks
<1>4. BlocksBalanced'
  BY <1>3, OwnedIs DEF RamFSIInv, BlocksBalanced
<1> QED
  BY <1>1, <1>2, <1>4 DEF RamFSIInv

\* The parts of the state a descriptor call looks at.
LEMMA FileIsThereFacts ==
  ASSUME RamFSIInv, NEW fd \in UsedFds, FileIsThere(fd)
  PROVE  /\ fd \in Opened(fd_table) /\ fd \in Fds /\ TableTyped(fd_table)
         /\ fd_table[fd].file \in DOMAIN file
         /\ fd_table[fd].position \in 0..MaxPosition /\ fd_table[fd].flags \in SUBSET Flags
         /\ file[fd_table[fd].file] \in Document
         /\ file[fd_table[fd].file].data \in Seq(Strings)
         /\ Len(file[fd_table[fd].file].data) \in 0..MaxData
<1>1. fd \in Fds /\ TableTyped(fd_table) /\ FilesTyped(file)
  BY InputAssumption DEF RamFSIInv, TableIInv, TreeIInv, WellFormed
<1>2. fd \in Opened(fd_table) /\ fd_table[fd].file \in DOMAIN file
  BY <1>1 DEF FileIsThere, IsOpen, Opened
<1>3. fd_table[fd].position \in 0..MaxPosition /\ fd_table[fd].flags \in SUBSET Flags
  BY <1>1, <1>2, OpenEntry
<1>4. PICK f : f = fd_table[fd].file
  OBVIOUS
<1>5. file[f] \in Document /\ Len(file[f].data) <= MaxData
  BY <1>1, <1>2, <1>4 DEF FilesTyped
<1>6. file[f].data \in Seq(Strings)
  BY <1>5 DEF Document
<1>7. Len(file[f].data) \in Nat
  BY <1>6, LenProperties
<1> QED
  BY <1>1, <1>2, <1>3, <1>4, <1>5, <1>6, <1>7, HeapAssumption

LEMMA openKeeps ==
  ASSUME RamFSIInv, NEW path \in Paths, NEW flags \in FlagSets, ramfs_open(path, flags)
  PROVE  RamFSIInv'
<1>1. UNCHANGED <<dir, file, current_dir, lost>> /\ WellFormed(dir, file)
      /\ TableTyped(fd_table) /\ lost \in 0..MaxLost /\ current_dir \in DOMAIN dir
      /\ BlocksBalanced
  BY DEF ramfs_open, tree, RamFSIInv, TreeIInv, TableIInv
<1>2. TreeIInv'
  BY <1>1 DEF TreeIInv
<1>3. CASE UNCHANGED <<fd_table, fd_count, held>>
  <2>1. TableIInv'
    BY <1>1, <1>3 DEF TableIInv, TableTyped
  <2>2. Owned' = Owned /\ OpenFds' = OpenFds
    BY <1>1, <1>3, OwnedIs
  <2>3. BlocksBalanced'
    BY <1>1, <1>3, <2>2 DEF BlocksBalanced
  <2> QED
    BY <1>2, <2>1, <2>3 DEF RamFSIInv
<1>4. CASE ~UNCHANGED <<fd_table, fd_count, held>>
  <2>1. PICK fd, e : fd = Min(FreeFds) /\ e = [file |-> Lookup(path), position |-> 0, flags |-> flags]
    OBVIOUS
  <2>2. /\ Lookup(path) # 0 /\ FreeFds # {}
        /\ fd_table' = [fd_table EXCEPT ![fd] = e]
        /\ fd_count' = fd_count + 1 /\ held' = held + 1
    BY <1>4, <2>1, Zenon DEF ramfs_open
  <2>3. fd \in Fds /\ fd \notin Opened(fd_table)
    <3>1. FreeFds \in SUBSET Nat
      BY TableAssumption DEF FreeFds, Fds
    <3>2. fd \in FreeFds
      BY <2>1, <2>2, <3>1, MinIs
    <3> QED
      BY <3>2, OwnedIs DEF FreeFds
  <2>4. e \in Entry
    <3>1. Lookup(path) \in FileIds
      BY <1>1, <2>2, LookupTyped DEF WellFormed, FilesTyped
    <3>2. flags \in SUBSET Flags
      BY InputAssumption DEF Flags
    <3>3. 0 \in 0..MaxPosition
      BY BoundAssumption
    <3> QED
      BY <2>1, <3>1, <3>2, <3>3 DEF Entry
  <2>5. PICK T : T = fd_table'
    OBVIOUS
  <2>6. TableTyped(T) /\ Opened(T) = Opened(fd_table) \cup {fd}
    <3>1. Assigned(fd_table, T, fd, e)
      BY <2>2, <2>5, Zenon DEF Assigned
    <3> QED
      BY <1>1, <2>3, <2>4, <3>1, EntrySet
  <2>7. PICK b : b = Cardinality(Opened(fd_table))
    OBVIOUS
  <2>8. Cardinality(Opened(T)) = b + 1 /\ b \in Nat
    <3>1. IsFiniteSet(Opened(fd_table)) /\ Cardinality(Opened(fd_table)) \in 0..MaxFds
      BY OpenedFinite
    <3>2. Cardinality(Opened(fd_table) \cup {fd}) = Cardinality(Opened(fd_table)) + 1
      BY <2>3, <3>1, FS_AddElement
    <3> QED
      BY <2>6, <2>7, <3>1, <3>2
  <2>9. BlocksBalanced'
    <3>1. PICK rest : rest = 3 * Cardinality(DOMAIN file) + 2 * Cardinality(DOMAIN dir)
                             + Cardinality(WithFiles(dir)) + Cardinality(WithSubdirs(dir))
      OBVIOUS
    <3>2. rest \in Nat /\ Owned = rest + b
      BY <1>1, <2>7, <2>8, <3>1, OwnedIs, Summands DEF Blocks, WellFormed
    <3>3. Owned' = rest + (b + 1)
      <4>1. Owned' = Blocks(dir, file, T)
        BY <1>1, <2>5, OwnedIs
      <4> QED
        BY <1>1, <2>8, <3>1, <4>1, Summands DEF Blocks, WellFormed
    <3>4. held = Owned + lost /\ fd_count = b /\ lost' = lost /\ lost \in Int
      BY <1>1, <2>7, OwnedIs DEF BlocksBalanced
    <3>5. held' = Owned' + lost'
      BY <2>2, <2>8, <3>2, <3>3, <3>4
    <3>6. fd_count' = Cardinality(OpenFds')
      BY <2>2, <2>5, <2>8, <3>4, OwnedIs
    <3> QED
      BY <3>5, <3>6 DEF BlocksBalanced
  <2>10. TableIInv'
    BY <1>1, <2>5, <2>6 DEF TableIInv
  <2> QED
    BY <1>2, <2>9, <2>10 DEF RamFSIInv
<1> QED
  BY <1>3, <1>4

LEMMA closeKeeps ==
  ASSUME RamFSIInv, NEW fd \in UsedFds, ramfs_close(fd)
  PROVE  RamFSIInv'
<1>1. /\ UNCHANGED <<dir, file, current_dir, held>> /\ WellFormed(dir, file)
      /\ TableTyped(fd_table) /\ lost \in 0..MaxLost /\ current_dir \in DOMAIN dir
      /\ BlocksBalanced
  BY DEF ramfs_close, tree, RamFSIInv, TreeIInv, TableIInv
<1>2. /\ IsOpen(fd) /\ lost < MaxLost /\ fd_table' = [fd_table EXCEPT ![fd] = NULL]
      /\ fd_count' = fd_count - 1 /\ lost' = lost + 1
  BY DEF ramfs_close
<1>3. fd \in Fds /\ fd \in Opened(fd_table)
  BY <1>2, InputAssumption DEF IsOpen, Opened
<1>4. PICK T : T = fd_table'
  OBVIOUS
<1>5. TableTyped(T) /\ Opened(T) = Opened(fd_table) \ {fd}
  <2>1. Assigned(fd_table, T, fd, NULL)
    BY <1>2, <1>4, Zenon DEF Assigned
  <2> QED
    BY <1>1, <1>3, <2>1, EntrySet
<1>6. PICK b : b = Cardinality(Opened(fd_table))
  OBVIOUS
<1>7. Cardinality(Opened(T)) = b - 1 /\ b \in Nat
  <2>1. IsFiniteSet(Opened(fd_table)) /\ Cardinality(Opened(fd_table)) \in 0..MaxFds
    BY OpenedFinite
  <2>2. Cardinality(Opened(fd_table) \ {fd}) = Cardinality(Opened(fd_table)) - 1
    BY <1>3, <2>1, FS_RemoveElement
  <2> QED
    BY <1>5, <1>6, <2>1, <2>2
<1>8. BlocksBalanced'
  <2>1. PICK rest : rest = 3 * Cardinality(DOMAIN file) + 2 * Cardinality(DOMAIN dir)
                           + Cardinality(WithFiles(dir)) + Cardinality(WithSubdirs(dir))
    OBVIOUS
  <2>2. rest \in Nat /\ Owned = rest + b
    BY <1>1, <1>6, <1>7, <2>1, OwnedIs, Summands DEF Blocks, WellFormed
  <2>3. Owned' = rest + (b - 1)
    <3>1. Owned' = Blocks(dir, file, T)
      BY <1>1, <1>4, OwnedIs
    <3> QED
      BY <1>1, <1>7, <2>1, <3>1, Summands DEF Blocks, WellFormed
  <2>4. held = Owned + lost /\ fd_count = b /\ held' = held /\ lost \in Int
    BY <1>1, <1>6, OwnedIs DEF BlocksBalanced
  <2>5. held' = Owned' + lost'
    BY <1>2, <1>7, <2>2, <2>3, <2>4
  <2>6. fd_count' = Cardinality(OpenFds')
    BY <1>2, <1>4, <1>7, <2>4, OwnedIs
  <2> QED
    BY <2>5, <2>6 DEF BlocksBalanced
<1>9. TableIInv'
  <2>1. lost' \in 0..MaxLost
    BY <1>1, <1>2, BoundAssumption
  <2> QED
    BY <1>4, <1>5, <2>1 DEF TableIInv
<1>10. TreeIInv'
  BY <1>1 DEF TreeIInv
<1> QED
  BY <1>8, <1>9, <1>10 DEF RamFSIInv

\* A call that moves one position and leaves the files alone.
LEMMA MoveKeeps ==
  ASSUME RamFSIInv, UNCHANGED <<dir, file, current_dir, fd_count, held, lost>>,
         NEW fd \in Opened(fd_table), NEW p \in 0..MaxPosition, Moved(fd_table, fd_table', fd, p)
  PROVE  RamFSIInv'
<1>1. TableTyped(fd_table) /\ FilesTyped(file)
  BY DEF RamFSIInv, TableIInv, TreeIInv, WellFormed
<1>2. PICK T : T = fd_table'
  OBVIOUS
<1>3. TableTyped(T) /\ Opened(T) = Opened(fd_table)
  <2>1. Moved(fd_table, T, fd, p)
    BY <1>2
  <2> QED
    BY <1>1, <2>1, PositionMoved
<1> QED
  BY <1>1, <1>2, <1>3, DataKeeps

LEMMA SameKeeps ==
  ASSUME RamFSIInv, UNCHANGED <<dir, file, current_dir, fd_table, fd_count, held, lost>>
  PROVE  RamFSIInv'
BY DataKeeps DEF RamFSIInv, TableIInv, TreeIInv, WellFormed

LEMMA readKeeps ==
  ASSUME RamFSIInv, NEW fd \in UsedFds, NEW count \in Counts, ramfs_read(fd, count)
  PROVE  RamFSIInv'
<1>1. UNCHANGED <<dir, file, current_dir, fd_count, held, lost>>
  BY DEF ramfs_read, tree
<1>2. CASE UNCHANGED fd_table
  BY <1>1, <1>2, SameKeeps
<1>3. CASE ~UNCHANGED fd_table
  <2>1. PICK e, available, n :
          /\ e = fd_table[fd] /\ available = Available(Len(file[e.file].data), e.position)
          /\ n = Min({count, available})
    OBVIOUS
  <2>2. /\ FileIsThere(fd) /\ e.position + n <= MaxPosition
        /\ fd_table' = [fd_table EXCEPT ![fd].position = @ + n]
    BY <1>3, <2>1, Zenon DEF ramfs_read
  <2>3. /\ fd \in Opened(fd_table) /\ e.position \in 0..MaxPosition
        /\ Len(file[e.file].data) \in 0..MaxData
    BY <2>1, <2>2, FileIsThereFacts
  <2>4. n \in Nat
    <3>1. available \in 0..(SizeMod - 1)
      <4>1. PICK size, position : size = Len(file[e.file].data) /\ position = e.position
        OBVIOUS
      <4>2. size - position \in Int /\ SizeMod \in Nat /\ SizeMod > 0
        BY <2>3, <4>1, HeapAssumption, BoundAssumption
      <4>3. available = (size - position) % SizeMod
        BY <2>1, <4>1 DEF Available
      <4> QED
        BY <4>2, <4>3
    <3>2. count \in Nat
      BY InputAssumption
    <3>3. available \in Nat
      BY <3>1, HeapAssumption
    <3>4. n = IF count <= available THEN count ELSE available
      BY <2>1, <3>2, <3>3, MinOfTwo
    <3> QED
      BY <3>2, <3>3, <3>4
  <2>5. PICK p : p = e.position + n
    OBVIOUS
  <2>6. p \in 0..MaxPosition
    BY <2>2, <2>3, <2>4, <2>5
  <2>7. Moved(fd_table, fd_table', fd, p)
    BY <2>1, <2>2, <2>5 DEF Moved
  <2> QED
    BY <1>1, <2>3, <2>6, <2>7, MoveKeeps
<1> QED
  BY <1>2, <1>3

\* Where a seek goes.
LEMMA SoughtPosition ==
  ASSUME RamFSIInv, NEW fd \in UsedFds, NEW offset \in Offsets, NEW origin \in Origins,
         IsOpen(fd), origin = "SEEK_END" => FileIsThere(fd),
         NEW p, p = CASE origin = "SEEK_SET" -> offset
                      [] origin = "SEEK_CUR" -> fd_table[fd].position + offset
                      [] origin = "SEEK_END" -> Len(file[fd_table[fd].file].data) + offset
                      [] OTHER -> -1
  PROVE  fd \in Opened(fd_table) /\ p \in Int
<1>1. fd \in Opened(fd_table) /\ fd_table[fd].position \in 0..MaxPosition
  <2>1. fd \in Opened(fd_table) /\ TableTyped(fd_table)
    BY InputAssumption DEF RamFSIInv, TableIInv, IsOpen, Opened
  <2> QED
    BY <2>1, OpenEntry
<1>2. offset \in Int
  BY InputAssumption
<1>3. PICK x, y : x = fd_table[fd].position /\ y = Len(file[fd_table[fd].file].data)
  OBVIOUS
<1>4. \/ origin = "SEEK_SET" /\ p = offset
      \/ origin = "SEEK_CUR" /\ p = x + offset
      \/ origin = "SEEK_END" /\ p = y + offset
      \/ p = -1
  <2>1. "SEEK_SET" # "SEEK_CUR" /\ "SEEK_SET" # "SEEK_END" /\ "SEEK_CUR" # "SEEK_END"
    OBVIOUS
  <2> QED
    BY <1>3, <2>1
<1>5. origin = "SEEK_END" => y \in 0..MaxData
  BY <1>3, FileIsThereFacts
<1>6. x \in 0..MaxPosition
  BY <1>1, <1>3
<1> QED
  BY <1>1, <1>2, <1>4, <1>5, <1>6

LEMMA seekKeeps ==
  ASSUME RamFSIInv, NEW fd \in UsedFds, NEW offset \in Offsets, NEW origin \in Origins,
         ramfs_seek(fd, offset, origin)
  PROVE  RamFSIInv'
<1>1. /\ IsOpen(fd) /\ (origin = "SEEK_END" => FileIsThere(fd))
      /\ UNCHANGED <<dir, file, current_dir, fd_count, held, lost>>
  BY Zenon DEF ramfs_seek, tree
<1>2. CASE UNCHANGED fd_table
  BY <1>1, <1>2, SameKeeps
<1>3. CASE ~UNCHANGED fd_table
  <2>1. PICK p : p = CASE origin = "SEEK_SET" -> offset
                       [] origin = "SEEK_CUR" -> fd_table[fd].position + offset
                       [] origin = "SEEK_END" -> Len(file[fd_table[fd].file].data) + offset
                       [] OTHER -> -1
    OBVIOUS
  <2>2. /\ ~(p < 0) /\ p <= MaxPosition
        /\ fd_table' = [fd_table EXCEPT ![fd].position = p]
    BY <1>3, <2>1, Zenon DEF ramfs_seek
  <2>3. fd \in Opened(fd_table) /\ p \in Int
    BY <1>1, <2>1, SoughtPosition
  <2>5. p \in 0..MaxPosition
    BY <2>2, <2>3, BoundAssumption
  <2>6. Moved(fd_table, fd_table', fd, p)
    BY <2>2, Zenon DEF Moved
  <2> QED
    BY <1>1, <2>3, <2>5, <2>6, MoveKeeps
<1> QED
  BY <1>2, <1>3

\* What a write leaves, and how long it is.
LEMMA OverwrittenIs ==
  ASSUME NEW data \in Seq(Strings), NEW start \in Nat, NEW text \in Seq(Strings), NEW new,
         new = Overwritten(data, start, text)
  PROVE  /\ new \in Seq(Strings)
         /\ Len(new) = IF Len(data) >= start + Len(text) THEN Len(data) ELSE start + Len(text)
         /\ \A i \in 1..Len(data) : i \notin (start + 1)..(start + Len(text)) => new[i] = data[i]
<1>1. PICK n, m, k : n = Len(data) /\ m = start + Len(text) /\ k = Max({n, m})
  OBVIOUS
<1>2. n \in Nat /\ m \in Nat /\ Len(text) \in Nat
  BY <1>1, LenProperties
<1>3. k = (IF n >= m THEN n ELSE m) /\ k \in Nat
  BY <1>1, <1>2, MaxOfTwo
<1>4. new = [i \in 1..k |-> IF i \in (start + 1)..m THEN text[i - start]
                            ELSE IF i <= n THEN data[i] ELSE Junk]
  BY <1>1, Zenon DEF Overwritten
<1>5. ASSUME NEW i \in 1..k PROVE new[i] \in Strings
  <2>1. CASE i \in (start + 1)..m
    <3>1. i - start \in 1..Len(text)
      BY <1>1, <1>2, <2>1
    <3>2. text[i - start] \in Strings
      BY <3>1, ElementOfSeq
    <3> QED
      BY <1>4, <2>1, <3>2
  <2>2. CASE i \notin (start + 1)..m /\ i <= n
    <3>1. i \in 1..Len(data)
      BY <1>1, <1>2, <1>3, <2>2
    <3>2. data[i] \in Strings
      BY <3>1, ElementOfSeq
    <3> QED
      BY <1>4, <2>2, <3>2
  <2>3. CASE i \notin (start + 1)..m /\ ~(i <= n)
    <3>1. Junk \in Strings
      BY DEF Strings
    <3> QED
      BY <1>4, <2>3, <3>1
  <2> QED
    BY <2>1, <2>2, <2>3
<1>6. new \in [1..k -> Strings]
  BY <1>4, <1>5
<1>7. new \in Seq(Strings)
  BY <1>3, <1>6, SeqDef
<1>8. Len(new) = k
  <2>1. DOMAIN new = 1..k
    BY <1>4
  <2> QED
    BY <1>3, <1>7, <2>1, LenProperties
<1>9. ASSUME NEW i \in 1..n, i \notin (start + 1)..m PROVE new[i] = data[i]
  <2>1. i \in 1..k /\ i <= n
    BY <1>2, <1>3
  <2> QED
    BY <1>4, <1>9, <2>1
<1> QED
  BY <1>1, <1>3, <1>7, <1>8, <1>9

\* The ways a write can go: it returns without an effect, it has no room and
\* only moves the position, or it puts the text in.
Rewrites(F, G, f, start, text) == G = [F EXCEPT ![f].data = Overwritten(@, start, text)]

WriteEffect(fd, f, start, text) ==
    /\ f \in DOMAIN file /\ fd \in Opened(fd_table)
    /\ start \in 0..MaxPosition /\ text \in Seq(Strings) /\ Len(text) \in Nat
    /\ UNCHANGED <<dir, current_dir, fd_count, held, lost>>
    /\ \/ UNCHANGED <<file, fd_table>>
       \/ UNCHANGED file /\ Moved(fd_table, fd_table', fd, start)
          /\ start + Len(text) > Len(file[f].data)
       \/ /\ Rewrites(file, file', f, start, text)
          /\ Moved(fd_table, fd_table', fd, start + Len(text))
          /\ start + Len(text) <= MaxData

\* A write that finds no file there writes nothing.
LEMMA WriteSkips ==
  ASSUME NEW fd, NEW text, ramfs_write(fd, text), ~FileIsThere(fd)
  PROVE  UNCHANGED <<dir, file, current_dir, fd_table, fd_count, held, lost>>
BY Zenon DEF ramfs_write

LEMMA WriteIs ==
  ASSUME RamFSIInv, NEW fd \in UsedFds, NEW text \in Texts, ramfs_write(fd, text),
         FileIsThere(fd), NEW f, f = fd_table[fd].file, NEW start, start = StartOf(fd_table[fd])
  PROVE  WriteEffect(fd, f, start, text)
<1>1. UNCHANGED <<dir, current_dir, fd_count, held, lost>>
  BY DEF ramfs_write
<1>2. /\ fd \in Opened(fd_table) /\ f \in DOMAIN file
      /\ fd_table[fd].position \in 0..MaxPosition
      /\ Len(file[f].data) \in 0..MaxData
  BY FileIsThereFacts
<1>3. start \in 0..MaxPosition
  <2>1. start = IF AppendBit \in fd_table[fd].flags THEN Len(file[f].data) ELSE fd_table[fd].position
    BY DEF StartOf
  <2>2. 0..MaxData \subseteq 0..MaxPosition
    BY HeapAssumption, BoundAssumption
  <2> QED
    BY <1>2, <2>1, <2>2
<1>4. text \in Seq(Strings) /\ Len(text) \in Nat
  BY InputAssumption, AreStrings, LenProperties
<1>5. \/ UNCHANGED <<file, fd_table>>
      \/ /\ start + Len(text) > Len(file[f].data)
         /\ fd_table' = [fd_table EXCEPT ![fd].position = start] /\ UNCHANGED file
      \/ /\ ~(start + Len(text) > Len(file[f].data)) \/ CanGrow(start, text)
         /\ file' = [file EXCEPT ![f].data = Overwritten(@, start, text)]
         /\ fd_table' = [fd_table EXCEPT ![fd].position = start + Len(text)]
  BY Zenon DEF ramfs_write
<1>6. ASSUME ~(start + Len(text) > Len(file[f].data)) \/ CanGrow(start, text)
      PROVE  start + Len(text) <= MaxData
  <2>1. start + Len(text) \in Int /\ MaxData \in Int
    BY <1>3, <1>4, HeapAssumption
  <2> QED
    BY <1>2, <1>6, <2>1 DEF CanGrow
<1>7. CASE UNCHANGED <<file, fd_table>>
  BY <1>1, <1>2, <1>3, <1>4, <1>7 DEF WriteEffect
<1>8. CASE /\ start + Len(text) > Len(file[f].data)
           /\ fd_table' = [fd_table EXCEPT ![fd].position = start] /\ UNCHANGED file
  <2>1. Moved(fd_table, fd_table', fd, start)
    BY <1>8, Zenon DEF Moved
  <2> QED
    BY <1>1, <1>2, <1>3, <1>4, <1>8, <2>1, Zenon DEF WriteEffect
<1>9. CASE /\ ~(start + Len(text) > Len(file[f].data)) \/ CanGrow(start, text)
           /\ file' = [file EXCEPT ![f].data = Overwritten(@, start, text)]
           /\ fd_table' = [fd_table EXCEPT ![fd].position = start + Len(text)]
  <2>1. Moved(fd_table, fd_table', fd, start + Len(text)) /\ Rewrites(file, file', f, start, text)
    BY <1>9, Zenon DEF Moved, Rewrites
  <2> QED
    BY <1>1, <1>2, <1>3, <1>4, <1>6, <1>9, <2>1, Zenon DEF WriteEffect
<1> QED
  BY <1>5, <1>7, <1>8, <1>9

\* What it does to the files.
LEMMA Rewritten ==
  ASSUME NEW F, FilesTyped(F), NEW f \in DOMAIN F, NEW start \in Nat, NEW text \in Seq(Strings),
         start + Len(text) <= MaxData, NEW G, Rewrites(F, G, f, start, text)
  PROVE  /\ FilesTyped(G) /\ DOMAIN G = DOMAIN F
         /\ \A g \in DOMAIN F : G[g].name = F[g].name
         /\ \A g \in DOMAIN F : g # f => G[g] = F[g]
         /\ G[f].data = Overwritten(F[f].data, start, text)
<1>1. PICK new : new = Overwritten(F[f].data, start, text)
  OBVIOUS
<1>2. G = [F EXCEPT ![f].data = new]
  BY <1>1 DEF Rewrites
<1>3. F[f] \in Document /\ F[f].data \in Seq(Strings) /\ Len(F[f].data) <= MaxData
  BY DEF FilesTyped, Document
<1>4. new \in Seq(Strings) /\ Len(new) <= MaxData
  <2>1. PICK data : data = F[f].data
    OBVIOUS
  <2>2. data \in Seq(Strings) /\ Len(data) <= MaxData /\ new = Overwritten(data, start, text)
    BY <1>1, <1>3, <2>1
  <2>3. /\ new \in Seq(Strings)
        /\ Len(new) = IF Len(data) >= start + Len(text) THEN Len(data) ELSE start + Len(text)
    BY <2>2, OverwrittenIs
  <2> QED
    BY <2>2, <2>3
<1>5. \A g \in DOMAIN F : F[g] \in Document
  BY DEF FilesTyped
<1>6. /\ DOMAIN G = DOMAIN F /\ G = [g \in DOMAIN F |-> G[g]]
      /\ \A g \in DOMAIN F : g # f => G[g] = F[g]
      /\ G[f] \in Document /\ G[f].name = F[f].name /\ G[f].data = new
  BY <1>2, <1>4, <1>5 DEF Document
<1>7. FilesTyped(G)
  <2>1. \A g \in DOMAIN F : G[g] \in Document
    BY <1>5, <1>6
  <2>2. G \in [DOMAIN G -> Document]
    BY <1>6, <2>1
  <2>3. \A g \in DOMAIN F : Len(G[g].data) <= MaxData
    BY <1>4, <1>6 DEF FilesTyped
  <2> QED
    BY <1>6, <2>2, <2>3 DEF FilesTyped
<1> QED
  BY <1>1, <1>6, <1>7

LEMMA writeKeeps ==
  ASSUME RamFSIInv, NEW fd \in UsedFds, NEW text \in Texts, ramfs_write(fd, text)
  PROVE  RamFSIInv'
<1> SUFFICES ASSUME FileIsThere(fd) PROVE RamFSIInv'
  BY WriteSkips, SameKeeps
<1>1. PICK f, start : f = fd_table[fd].file /\ start = StartOf(fd_table[fd])
  OBVIOUS
<1>2. WriteEffect(fd, f, start, text)
  BY <1>1, WriteIs
<1> USE DEF WriteEffect
<1>3. TableTyped(fd_table) /\ FilesTyped(file)
  BY DEF RamFSIInv, TableIInv, TreeIInv, WellFormed
<1>4. CASE UNCHANGED <<file, fd_table>>
  BY <1>2, <1>4, SameKeeps
<1>5. CASE UNCHANGED file /\ Moved(fd_table, fd_table', fd, start)
  BY <1>2, <1>5, MoveKeeps
<1>6. CASE /\ Rewrites(file, file', f, start, text)
           /\ Moved(fd_table, fd_table', fd, start + Len(text))
           /\ start + Len(text) <= MaxData
  <2>1. PICK p : p = start + Len(text)
    OBVIOUS
  <2>2. p \in 0..MaxPosition
    BY <1>2, <1>6, <2>1, HeapAssumption, BoundAssumption
  <2>3. TableTyped(fd_table') /\ Opened(fd_table') = Opened(fd_table)
    <3>1. PICK T : T = fd_table'
      OBVIOUS
    <3>2. Moved(fd_table, T, fd, p)
      BY <1>6, <2>1, <3>1
    <3>3. TableTyped(T) /\ Opened(T) = Opened(fd_table)
      BY <1>2, <1>3, <2>2, <3>2, PositionMoved
    <3> QED
      BY <3>1, <3>3
  <2>4. /\ FilesTyped(file') /\ DOMAIN file' = DOMAIN file
        /\ \A g \in DOMAIN file : file'[g].name = file[g].name
    <3>1. PICK G : G = file'
      OBVIOUS
    <3>2. Rewrites(file, G, f, start, text) /\ start + Len(text) <= MaxData
      BY <1>6, <3>1
    <3>3. start \in Nat /\ text \in Seq(Strings) /\ f \in DOMAIN file
      BY <1>2
    <3>4. FilesTyped(G) /\ DOMAIN G = DOMAIN file
      BY <1>3, <3>2, <3>3, Rewritten
    <3>5. \A g \in DOMAIN file : G[g].name = file[g].name
      BY <1>3, <3>2, <3>3, Rewritten
    <3> QED
      BY <3>1, <3>4, <3>5
  <2> QED
    BY <1>2, <2>3, <2>4, DataKeeps
<1> QED
  BY <1>2, <1>4, <1>5, <1>6

\* The invariant RamFSIInv holds of every reachable state: the directories are
\* a tree, every file hangs in it once, names differ, the table and the arrays
\* keep their bounds, and every heap block is owned or counted as lost
\* (ramfs.c 24-440).
THEOREM RamFSInvariance == Spec => []RamFSIInv
<1>1. RamFSIInv /\ [Next]_vars => RamFSIInv'
  <2> SUFFICES ASSUME RamFSIInv, [Next]_vars PROVE RamFSIInv'
    OBVIOUS
  <2>1. CASE UNCHANGED vars
    <3>1. UNCHANGED <<dir, file, current_dir, fd_table, fd_count, held, lost>>
      BY <2>1 DEF vars
    <3> QED
      BY <3>1, SameKeeps
  <2>2. CASE Next
    <3>1. CASE Shell
      BY <3>1, touchKeeps, mkdirKeeps, rmKeeps, cdKeeps DEF Shell
    <3>2. CASE Descriptor
      BY <3>2, openKeeps, readKeeps, writeKeeps, seekKeeps, closeKeeps DEF Descriptor
    <3> QED
      BY <2>2, <3>1, <3>2 DEF Next
  <2> QED
    BY <2>1, <2>2
<1> QED
  BY <1>1, InitMeetsIInv, PTL DEF Spec

-----------------------------------------------------------------------------
(* What the invariant says.                                                *)

LEMMA ParentIsThere ==
  ASSUME WellFormed(dir, file), NEW d \in DOMAIN dir
  PROVE  /\ d = Root => dir[d].parent = None
         /\ d # Root => \E c \in DOMAIN dir : \E i \in 1..Len(dir[c].subdirs) :
                           dir[c].subdirs[i] = d /\ dir[d].parent = c
<1>1. d = Root => dir[d].parent = None
  BY DEF WellFormed, DirsHang
<1>2. ASSUME d # Root
      PROVE  \E c \in DOMAIN dir : \E i \in 1..Len(dir[c].subdirs) :
                dir[c].subdirs[i] = d /\ dir[d].parent = c
  <2>1. In(SubdirsOf(dir), d)
    BY <1>2 DEF WellFormed, DirsHang
  <2>2. PICK c \in DOMAIN dir : \E i \in 1..Len(dir[c].subdirs) : dir[c].subdirs[i] = d
    BY <2>1 DEF In, SubdirsOf
  <2>3. PICK i \in 1..Len(dir[c].subdirs) : dir[c].subdirs[i] = d
    BY <2>2
  <2>4. dir[dir[c].subdirs[i]].parent = c
    BY DEF WellFormed, DirsHang
  <2> QED
    BY <2>3, <2>4
<1> QED
  BY <1>1, <1>2

LEMMA TypeFollows ==
  ASSUME RamFSIInv
  PROVE  TypeOK
<1>1. /\ WellFormed(dir, file) /\ DirsTyped(dir) /\ FilesTyped(file) /\ TableTyped(fd_table)
      /\ current_dir \in DOMAIN dir /\ lost \in 0..MaxLost
      /\ held = Owned + lost /\ fd_count = Cardinality(OpenFds)
  BY DEF RamFSIInv, TreeIInv, TableIInv, WellFormed, BlocksBalanced
<1>2. DOMAIN dir \subseteq DirIds /\ DOMAIN file \subseteq FileIds
  BY <1>1 DEF DirsTyped, FilesTyped
<1>3. ASSUME NEW d \in DOMAIN dir
      PROVE  /\ dir[d].parent \in DOMAIN dir \cup {None}
             /\ dir[d].files \in Seq(FileIds) /\ Len(dir[d].files) <= MaxFiles
             /\ dir[d].subdirs \in Seq(DirIds) /\ Len(dir[d].subdirs) <= MaxSubdirs
  <2>1. dir[d].parent \in DOMAIN dir \cup {None}
    BY <1>1, ParentIsThere
  <2>2. dir[d].files \in Seq(FileIds) /\ dir[d].subdirs \in Seq(DirIds)
    BY <1>1, DirType
  <2>3. Len(dir[d].files) <= MaxFiles /\ Len(dir[d].subdirs) <= MaxSubdirs
    BY <1>1 DEF DirsTyped
  <2> QED
    BY <2>1, <2>2, <2>3
<1>4. \A f \in DOMAIN file : Len(file[f].data) <= MaxData
  BY <1>1 DEF FilesTyped
<1>5. ASSUME NEW fd \in Fds
      PROVE  fd_table[fd].file \in FileIds \cup {0} /\ fd_table[fd].position \in 0..MaxPosition
  <2>1. CASE fd_table[fd] = NULL
    BY <2>1, BoundAssumption DEF NULL
  <2>2. CASE fd_table[fd] \in Entry
    BY <2>2 DEF Entry
  <2> QED
    BY <1>1, <2>1, <2>2 DEF TableTyped
<1>6. fd_count \in 0..MaxFds
  BY <1>1, OwnedIs, OpenedFinite
<1>7. held \in Nat
  <2>1. Owned \in Nat
    BY <1>1, OwnedIs, Summands
  <2> QED
    BY <1>1, <2>1
<1> QED
  BY <1>1, <1>2, <1>3, <1>4, <1>5, <1>6, <1>7 DEF TypeOK

LEMMA NamesFollow ==
  ASSUME RamFSIInv
  PROVE  NamesUnique
<1>1. WellFormed(dir, file)
  BY DEF RamFSIInv, TreeIInv
<1> SUFFICES ASSUME NEW d \in DOMAIN dir
             PROVE  /\ \A i, j \in DOMAIN dir[d].files :
                         file[dir[d].files[i]].name = file[dir[d].files[j]].name => i = j
                    /\ \A i, j \in DOMAIN dir[d].subdirs :
                         dir[dir[d].subdirs[i]].name = dir[dir[d].subdirs[j]].name => i = j
  BY DEF NamesUnique
<1>2. /\ DOMAIN dir[d].files = 1..Len(dir[d].files)
      /\ DOMAIN dir[d].subdirs = 1..Len(dir[d].subdirs)
      /\ FilesOf(dir)[d] = dir[d].files /\ SubdirsOf(dir)[d] = dir[d].subdirs
      /\ d \in DOMAIN FilesOf(dir) /\ d \in DOMAIN SubdirsOf(dir)
  BY <1>1, DirType DEF WellFormed, FilesOf, SubdirsOf
<1>3. \A i, j \in 1..Len(dir[d].files) :
         file[dir[d].files[i]].name = file[dir[d].files[j]].name => i = j
  <2>1. NamesDiffer(FilesOf(dir), file)
    BY <1>1 DEF WellFormed, FilesHang
  <2> QED
    BY <1>2, <2>1 DEF NamesDiffer
<1>4. \A i, j \in 1..Len(dir[d].subdirs) :
         dir[dir[d].subdirs[i]].name = dir[dir[d].subdirs[j]].name => i = j
  <2>1. NamesDiffer(SubdirsOf(dir), dir)
    BY <1>1 DEF WellFormed, DirsHang
  <2> QED
    BY <1>2, <2>1 DEF NamesDiffer
<1> QED
  BY <1>2, <1>3, <1>4

\* The entries of a family of arrays name what is in it, each once.
Entries(A) == UNION {{d} \X DOMAIN A[d] : d \in DOMAIN A}

LEMMA EntriesAre ==
  ASSUME NEW D, NEW S, NEW A \in Arrays(D, S)
  PROVE  /\ \A e : e \in Entries(A) <=> \E d \in D : \E i \in 1..Len(A[d]) : e = <<d, i>>
         /\ \A x : x \in {A[e[1]][e[2]] : e \in Entries(A)} <=> In(A, x)
         /\ Distinct(A) => \A e, f \in Entries(A) : A[e[1]][e[2]] = A[f[1]][f[2]] => e = f
<1>1. DOMAIN A = D /\ \A d \in D : DOMAIN A[d] = 1..Len(A[d])
  BY ArrayType DEF Arrays
<1>2. ASSUME NEW e PROVE e \in Entries(A) <=> \E d \in D : \E i \in 1..Len(A[d]) : e = <<d, i>>
  BY <1>1 DEF Entries
<1>3. ASSUME NEW x PROVE x \in {A[e[1]][e[2]] : e \in Entries(A)} <=> In(A, x)
  <2>1. ASSUME NEW e \in Entries(A), x = A[e[1]][e[2]] PROVE In(A, x)
    <3>1. PICK d \in D : \E i \in 1..Len(A[d]) : e = <<d, i>>
      BY <1>2
    <3>2. PICK i \in 1..Len(A[d]) : e = <<d, i>>
      BY <3>1
    <3> QED
      BY <1>1, <2>1, <3>2 DEF In
  <2>2. ASSUME In(A, x) PROVE \E e \in Entries(A) : x = A[e[1]][e[2]]
    <3>1. PICK d \in D : \E i \in 1..Len(A[d]) : A[d][i] = x
      BY <1>1, <2>2 DEF In
    <3>2. PICK i \in 1..Len(A[d]) : A[d][i] = x
      BY <3>1
    <3>3. <<d, i>> \in Entries(A) /\ <<d, i>>[1] = d /\ <<d, i>>[2] = i
      BY <1>2
    <3> QED
      BY <3>2, <3>3
  <2> QED
    BY <2>1, <2>2
<1>4. ASSUME Distinct(A), NEW e \in Entries(A), NEW f \in Entries(A),
             A[e[1]][e[2]] = A[f[1]][f[2]]
      PROVE  e = f
  <2>1. PICK d \in D, c \in D :
           /\ \E i \in 1..Len(A[d]) : e = <<d, i>>
           /\ \E j \in 1..Len(A[c]) : f = <<c, j>>
    BY <1>2
  <2>2. PICK i \in 1..Len(A[d]) : e = <<d, i>>
    BY <2>1
  <2>3. PICK j \in 1..Len(A[c]) : f = <<c, j>>
    BY <2>1
  <2>4. A[d][i] = A[c][j]
    BY <1>4, <2>2, <2>3
  <2>5. d = c /\ i = j
    BY <1>1, <1>4, <2>4 DEF Distinct
  <2> QED
    BY <2>2, <2>3, <2>5
<1> QED
  BY <1>2, <1>3, <1>4

LEMMA TreeFollows ==
  ASSUME RamFSIInv
  PROVE  Tree
<1>1. WellFormed(dir, file) /\ DirsTyped(dir) /\ FilesHang(dir, file) /\ DirsHang(dir)
  BY DEF RamFSIInv, TreeIInv, WellFormed
<1>2. PICK A, B : A = FilesOf(dir) /\ B = SubdirsOf(dir)
  OBVIOUS
<1>3. A \in Arrays(DOMAIN dir, FileIds) /\ B \in Arrays(DOMAIN dir, DirIds)
  BY <1>1, <1>2, DirType DEF DirsTyped
<1>4. /\ DOMAIN A = DOMAIN dir /\ DOMAIN B = DOMAIN dir
      /\ \A d \in DOMAIN dir : A[d] = dir[d].files /\ B[d] = dir[d].subdirs
  BY <1>2 DEF FilesOf, SubdirsOf
<1>5. FileEntries = Entries(A) /\ SubdirEntries = Entries(B)
  <2>1. FileEntries = Entries(A)
    BY <1>4 DEF FileEntries, Entries
  <2>2. SubdirEntries = Entries(B)
    BY <1>4 DEF SubdirEntries, Entries
  <2> QED
    BY <2>1, <2>2
<1>6. /\ \A e \in Entries(A) : FileAt(e) = A[e[1]][e[2]]
      /\ \A e \in Entries(B) : SubdirAt(e) = B[e[1]][e[2]] /\ dir[SubdirAt(e)].parent = e[1]
  <2>1. ASSUME NEW e \in Entries(A) PROVE FileAt(e) = A[e[1]][e[2]]
    <3>1. PICK d \in DOMAIN dir : \E i \in 1..Len(A[d]) : e = <<d, i>>
      BY <1>3, EntriesAre
    <3> QED
      BY <1>4, <3>1 DEF FileAt
  <2>2. ASSUME NEW e \in Entries(B)
        PROVE  SubdirAt(e) = B[e[1]][e[2]] /\ dir[SubdirAt(e)].parent = e[1]
    <3>1. PICK d \in DOMAIN dir : \E i \in 1..Len(B[d]) : e = <<d, i>>
      BY <1>3, EntriesAre
    <3>2. PICK i \in 1..Len(B[d]) : e = <<d, i>>
      BY <3>1
    <3>3. e[1] = d /\ e[2] = i /\ B[d] = dir[d].subdirs
      BY <1>4, <3>2
    <3>4. dir[dir[d].subdirs[i]].parent = d
      BY <1>1, <3>3 DEF DirsHang
    <3> QED
      BY <3>3, <3>4 DEF SubdirAt
  <2> QED
    BY <2>1, <2>2
<1>7. {FileAt(e) : e \in FileEntries} = DOMAIN file
  <2>1. \A x : x \in {A[e[1]][e[2]] : e \in Entries(A)} <=> In(A, x)
    BY <1>3, EntriesAre
  <2>2. \A x : In(A, x) <=> x \in DOMAIN file
    BY <1>1, <1>2 DEF FilesHang
  <2>3. {FileAt(e) : e \in FileEntries} = {A[e[1]][e[2]] : e \in Entries(A)}
    BY <1>5, <1>6
  <2> QED
    BY <2>1, <2>2, <2>3
<1>8. \A e, f \in FileEntries : FileAt(e) = FileAt(f) => e = f
  <2>1. Distinct(A)
    BY <1>1, <1>2 DEF FilesHang
  <2>2. \A e, f \in Entries(A) : A[e[1]][e[2]] = A[f[1]][f[2]] => e = f
    BY <1>3, <2>1, EntriesAre
  <2> QED
    BY <1>5, <1>6, <2>2
<1>9. {SubdirAt(e) : e \in SubdirEntries} = DOMAIN dir \ {Root}
  <2>1. \A x : x \in {B[e[1]][e[2]] : e \in Entries(B)} <=> In(B, x)
    BY <1>3, EntriesAre
  <2>2. \A x : In(B, x) <=> x \in DOMAIN dir \ {Root}
    BY <1>1, <1>2 DEF DirsHang
  <2>3. {SubdirAt(e) : e \in SubdirEntries} = {B[e[1]][e[2]] : e \in Entries(B)}
    BY <1>5, <1>6
  <2> QED
    BY <2>1, <2>2, <2>3
<1>10. \A e, f \in SubdirEntries : SubdirAt(e) = SubdirAt(f) => e = f
  <2>1. Distinct(B)
    BY <1>1, <1>2 DEF DirsHang
  <2>2. \A e, f \in Entries(B) : B[e[1]][e[2]] = B[f[1]][f[2]] => e = f
    BY <1>3, <2>1, EntriesAre
  <2> QED
    BY <1>5, <1>6, <2>2
<1>11. \A e \in SubdirEntries : dir[SubdirAt(e)].parent = e[1]
  BY <1>5, <1>6
<1>12. ASSUME NEW D \in SUBSET DOMAIN dir, Root \in D, \A d \in D : ToSet(dir[d].subdirs) \subseteq D
       PROVE  D = DOMAIN dir
  <2>1. ASSUME NEW d \in D, NEW i \in 1..Len(dir[d].subdirs) PROVE dir[d].subdirs[i] \in D
    <3>1. DOMAIN dir[d].subdirs = 1..Len(dir[d].subdirs)
      BY <1>1, DirType
    <3>2. dir[d].subdirs[i] \in ToSet(dir[d].subdirs)
      BY <3>1 DEF ToSet
    <3> QED
      BY <1>12, <3>2
  <2>2. Reached(dir)
    BY <1>1 DEF DirsHang
  <2> QED
    BY <1>12, <2>1, <2>2 DEF Reached
<1> QED
  BY <1>7, <1>8, <1>9, <1>10, <1>11, <1>12 DEF Tree

\* TypeOK holds of every reachable state.
THEOREM RamFSTypeCorrect == Spec => []TypeOK
BY RamFSInvariance, TypeFollows, PTL

\* Tree holds of every reachable state: the array surgery of ramfs.c 42-58,
\* 86-100 and 132-154 keeps every file and directory at exactly one place.
THEOREM TreeHolds == Spec => []Tree
BY RamFSInvariance, TreeFollows, PTL

\* NamesUnique holds of every reachable state: the first match of every lookup
\* is the only one.
THEOREM NamesStayUnique == Spec => []NamesUnique
BY RamFSInvariance, NamesFollow, PTL

\* BlocksBalanced holds of every reachable state: no call frees a block twice
\* or forgets one, apart from the two places counted in lost.
THEOREM BlocksStayBalanced == Spec => []BlocksBalanced
<1>1. RamFSIInv => BlocksBalanced
  BY DEF RamFSIInv
<1> QED
  BY <1>1, RamFSInvariance, PTL

-----------------------------------------------------------------------------
(* What a step does to files and descriptors.                              *)

DataKept == \A f \in SameFiles : file'[f].data = file[f].data

\* The ways a step can go.
Quiet == UNCHANGED fd_table /\ DataKept

Opens == \E fd \in Fds : \E e \in Entry :
    /\ fd \notin Opened(fd_table) /\ e.file \in DOMAIN file /\ e.position = 0
    /\ Assigned(fd_table, fd_table', fd, e) /\ UNCHANGED file

Moves == \E fd \in Opened(fd_table) : \E p \in 0..MaxPosition :
    /\ Moved(fd_table, fd_table', fd, p) /\ UNCHANGED file
    /\ \/ ret'.op = "seek"
       \/ fd_table[fd].position > Len(file[fd_table[fd].file].data)
       \/ p <= Len(file[fd_table[fd].file].data)

Closes == \E fd \in Fds : Assigned(fd_table, fd_table', fd, NULL) /\ UNCHANGED file

Writes == \E fd \in Opened(fd_table) : \E start \in Nat : \E text \in Seq(Strings) :
    /\ fd_table[fd].file \in DOMAIN file
    /\ start = StartOf(fd_table[fd]) /\ start + Len(text) <= MaxData
    /\ Rewrites(file, file', fd_table[fd].file, start, text)
    /\ Moved(fd_table, fd_table', fd, start + Len(text))

LEMMA SameIsQuiet ==
  ASSUME UNCHANGED <<file, fd_table>>
  PROVE  Quiet
BY DEF Quiet, DataKept

LEMMA ShellIsQuiet ==
  ASSUME RamFSIInv, Shell
  PROVE  Quiet
<1>1. ASSUME NEW name \in Names, touch(name) PROVE Quiet
  <2>1. UNCHANGED fd_table /\ ramfs_create_file(current_dir, name, <<Nul>>)
    BY <1>1 DEF touch
  <2>2. CASE UNCHANGED file
    BY <2>1, <2>2, SameIsQuiet
  <2>3. CASE ~UNCHANGED file
    <3>1. PICK f : f = Min(FileIds \ DOMAIN file)
      OBVIOUS
    <3>2. /\ FileIds \ DOMAIN file # {}
          /\ file' = [g \in DOMAIN file \cup {f} |->
                        IF g = f THEN [name |-> name, data |-> <<Nul>>] ELSE file[g]]
      BY <2>1, <2>3, <3>1, Zenon DEF ramfs_create_file
    <3>3. f \notin DOMAIN file
      <4>1. FileIds \ DOMAIN file \in SUBSET Nat
        BY BoundAssumption
      <4> QED
        BY <3>1, <3>2, <4>1, MinIs
    <3>4. \A g \in DOMAIN file : g \in DOMAIN file' /\ file'[g] = file[g]
      BY <3>2, <3>3
    <3> QED
      BY <2>1, <3>4 DEF Quiet, DataKept, SameFiles
  <2> QED
    BY <2>2, <2>3
<1>2. ASSUME NEW name \in Names, mkdir(name) PROVE Quiet
  <2>1. UNCHANGED <<file, fd_table>>
    BY <1>2 DEF mkdir
  <2> QED
    BY <2>1, SameIsQuiet
<1>3. ASSUME NEW name \in Names, rm(name) PROVE Quiet
  <2>1. PICK f : file' = [g \in DOMAIN file \ {f} |-> file[g]] /\ UNCHANGED fd_table
    BY <1>3, Zenon DEF rm
  <2>2. DOMAIN file' = DOMAIN file \ {f} /\ \A g \in DOMAIN file' : file'[g] = file[g]
    BY <2>1
  <2> QED
    BY <2>1, <2>2 DEF Quiet, DataKept, SameFiles
<1>4. ASSUME NEW path \in Paths, cd(path) PROVE Quiet
  <2>1. UNCHANGED <<file, fd_table>>
    BY <1>4 DEF cd
  <2> QED
    BY <2>1, SameIsQuiet
<1> QED
  BY <1>1, <1>2, <1>3, <1>4 DEF Shell

LEMMA OpenIs ==
  ASSUME RamFSIInv, NEW path \in Paths, NEW flags \in FlagSets, ramfs_open(path, flags)
  PROVE  Quiet \/ Opens
<1>1. UNCHANGED file /\ WellFormed(dir, file)
  BY DEF ramfs_open, tree, RamFSIInv, TreeIInv
<1>2. CASE UNCHANGED fd_table
  BY <1>1, <1>2, SameIsQuiet
<1>3. CASE ~UNCHANGED fd_table
  <2>1. PICK fd, e : fd = Min(FreeFds) /\ e = [file |-> Lookup(path), position |-> 0, flags |-> flags]
    OBVIOUS
  <2>2. /\ Lookup(path) # 0 /\ FreeFds # {}
        /\ fd_table' = [fd_table EXCEPT ![fd] = e]
    BY <1>3, <2>1, Zenon DEF ramfs_open
  <2>3. fd \in Fds /\ fd \notin Opened(fd_table)
    <3>1. FreeFds \in SUBSET Nat
      BY TableAssumption DEF FreeFds, Fds
    <3>2. fd \in FreeFds
      BY <2>1, <2>2, <3>1, MinIs
    <3> QED
      BY <3>2, OwnedIs DEF FreeFds
  <2>4. Lookup(path) \in DOMAIN file /\ DOMAIN file \subseteq FileIds
    BY <1>1, <2>2, LookupTyped DEF WellFormed, FilesTyped
  <2>5. flags \in SUBSET Flags /\ 0 \in 0..MaxPosition
    BY InputAssumption, BoundAssumption DEF Flags
  <2>6. e \in Entry /\ e.file \in DOMAIN file /\ e.position = 0
    BY <2>1, <2>4, <2>5 DEF Entry
  <2>7. Assigned(fd_table, fd_table', fd, e)
    BY <2>2, Zenon DEF Assigned
  <2> QED
    BY <1>1, <2>3, <2>6, <2>7 DEF Opens
<1> QED
  BY <1>2, <1>3

LEMMA CloseIs ==
  ASSUME RamFSIInv, NEW fd \in UsedFds, ramfs_close(fd)
  PROVE  Closes
<1>1. Assigned(fd_table, fd_table', fd, NULL) /\ UNCHANGED file /\ fd \in Fds
  BY InputAssumption, Zenon DEF ramfs_close, tree, Assigned
<1> QED
  BY <1>1 DEF Closes

LEMMA SmallMod ==
  ASSUME NEW m \in Nat, NEW a \in Nat, a < m
  PROVE  a % m = a
BY SMT

LEMMA ReadIs ==
  ASSUME RamFSIInv, NEW fd \in UsedFds, NEW count \in Counts, ramfs_read(fd, count)
  PROVE  Quiet \/ Moves
<1>1. UNCHANGED file
  BY DEF ramfs_read, tree
<1>2. CASE UNCHANGED fd_table
  BY <1>1, <1>2, SameIsQuiet
<1>3. CASE ~UNCHANGED fd_table
  <2>1. PICK e, size, position, available, n :
          /\ e = fd_table[fd] /\ size = Len(file[e.file].data) /\ position = e.position
          /\ available = Available(size, position) /\ n = Min({count, available})
    OBVIOUS
  <2>2. /\ FileIsThere(fd) /\ position + n <= MaxPosition
        /\ fd_table' = [fd_table EXCEPT ![fd].position = @ + n]
    BY <1>3, <2>1, Zenon DEF ramfs_read
  <2>3. /\ fd \in Opened(fd_table) /\ position \in 0..MaxPosition /\ size \in 0..MaxData
        /\ fd_table[fd].file \in DOMAIN file
    BY <2>1, <2>2, FileIsThereFacts
  <2>4. /\ available = (size - position) % SizeMod /\ count \in Nat
        /\ SizeMod \in Nat /\ SizeMod > 0 /\ MaxData < SizeMod
    BY <2>1, InputAssumption, HeapAssumption, BoundAssumption DEF Available
  <2>5. available \in 0..(SizeMod - 1)
    BY <2>3, <2>4
  <2>6. n = (IF count <= available THEN count ELSE available) /\ n \in Nat
    BY <2>1, <2>4, <2>5, MinOfTwo
  <2>7. position <= size => available = size - position
    <3>1. ASSUME position <= size PROVE (size - position) % SizeMod = size - position
      <4>1. PICK left, m : left = size - position /\ m = SizeMod
        OBVIOUS
      <4>2. position \in Nat /\ size \in Nat /\ size < m /\ m \in Nat
        BY <2>3, <2>4, <4>1, HeapAssumption
      <4>3. m \in Nat /\ left \in Nat /\ left < m
        BY <3>1, <4>1, <4>2
      <4>4. left % m = left
        BY <4>3, SmallMod
      <4> QED
        BY <4>1, <4>4
    <3> QED
      BY <2>4, <3>1
  <2>8. PICK p : p = position + n
    OBVIOUS
  <2>9. p \in 0..MaxPosition /\ (position > size \/ p <= size)
    BY <2>2, <2>3, <2>6, <2>7, <2>8
  <2>10. Moved(fd_table, fd_table', fd, p)
    BY <2>1, <2>2, <2>8 DEF Moved
  <2> QED
    BY <1>1, <2>1, <2>3, <2>9, <2>10 DEF Moves
<1> QED
  BY <1>2, <1>3

LEMMA SeekIs ==
  ASSUME RamFSIInv, NEW fd \in UsedFds, NEW offset \in Offsets, NEW origin \in Origins,
         ramfs_seek(fd, offset, origin)
  PROVE  Quiet \/ Moves
<1>1. IsOpen(fd) /\ (origin = "SEEK_END" => FileIsThere(fd)) /\ UNCHANGED file
  BY Zenon DEF ramfs_seek, tree
<1>2. CASE UNCHANGED fd_table
  BY <1>1, <1>2, SameIsQuiet
<1>3. CASE ~UNCHANGED fd_table
  <2>1. PICK p : p = CASE origin = "SEEK_SET" -> offset
                       [] origin = "SEEK_CUR" -> fd_table[fd].position + offset
                       [] origin = "SEEK_END" -> Len(file[fd_table[fd].file].data) + offset
                       [] OTHER -> -1
    OBVIOUS
  <2>2. /\ ~(p < 0) /\ p <= MaxPosition /\ ret' = [op |-> "seek", val |-> p]
        /\ fd_table' = [fd_table EXCEPT ![fd].position = p]
    BY <1>3, <2>1, Zenon DEF ramfs_seek, Returns
  <2>3. fd \in Opened(fd_table) /\ p \in Int
    BY <1>1, <2>1, SoughtPosition
  <2>5. p \in 0..MaxPosition
    BY <2>2, <2>3, BoundAssumption
  <2>6. Moved(fd_table, fd_table', fd, p) /\ ret'.op = "seek"
    BY <2>2 DEF Moved
  <2> QED
    BY <1>1, <2>3, <2>5, <2>6, Zenon DEF Moves
<1> QED
  BY <1>2, <1>3

LEMMA WriteMovesOrWrites ==
  ASSUME RamFSIInv, NEW fd \in UsedFds, NEW text \in Texts, ramfs_write(fd, text)
  PROVE  Quiet \/ Moves \/ Writes
<1> SUFFICES ASSUME FileIsThere(fd) PROVE Quiet \/ Moves \/ Writes
  BY WriteSkips, SameIsQuiet
<1>1. PICK f, start : f = fd_table[fd].file /\ start = StartOf(fd_table[fd])
  OBVIOUS
<1>2. WriteEffect(fd, f, start, text)
  BY <1>1, WriteIs
<1>3. CASE UNCHANGED <<file, fd_table>>
  BY <1>3, SameIsQuiet
<1>4. CASE UNCHANGED file /\ Moved(fd_table, fd_table', fd, start)
  <2>1. f \in DOMAIN file /\ fd \in Opened(fd_table) /\ start \in 0..MaxPosition
    BY <1>2 DEF WriteEffect
  <2>2. fd_table[fd].position > Len(file[f].data) \/ start <= Len(file[f].data)
    <3>1. start = IF AppendBit \in fd_table[fd].flags THEN Len(file[f].data) ELSE fd_table[fd].position
      BY <1>1 DEF StartOf
    <3>2. fd_table[fd].position \in Int /\ Len(file[f].data) \in Int
      BY <1>1, FileIsThereFacts
    <3> QED
      BY <3>1, <3>2
  <2> QED
    BY <1>1, <1>4, <2>1, <2>2 DEF Moves
<1>5. CASE /\ Rewrites(file, file', f, start, text)
           /\ Moved(fd_table, fd_table', fd, start + Len(text))
           /\ start + Len(text) <= MaxData
  <2>1. /\ f \in DOMAIN file /\ fd \in Opened(fd_table) /\ start \in Nat
        /\ text \in Seq(Strings)
    BY <1>2 DEF WriteEffect
  <2> QED
    BY <1>1, <1>5, <2>1 DEF Writes
<1> QED
  BY <1>2, <1>3, <1>4, <1>5 DEF WriteEffect

LEMMA StepsAre ==
  ASSUME RamFSIInv, [Next]_vars
  PROVE  Quiet \/ Opens \/ Moves \/ Closes \/ Writes
<1>1. CASE UNCHANGED vars
  <2>1. UNCHANGED <<file, fd_table>>
    BY <1>1 DEF vars
  <2> QED
    BY <2>1, SameIsQuiet
<1>2. CASE Shell
  BY <1>2, ShellIsQuiet
<1>3. CASE Descriptor
  BY <1>3, OpenIs, ReadIs, WriteMovesOrWrites, SeekIs, CloseIs DEF Descriptor
<1> QED
  BY <1>1, <1>2, <1>3 DEF Next

-----------------------------------------------------------------------------
(* Action properties.                                                      *)

\* A write passes over the bytes from first to last of old and leaves new.
Leaves(old, new, first, last) ==
    /\ old \in Seq(Strings) /\ new \in Seq(Strings)
    /\ Len(new) >= Len(old) /\ Len(new) >= last
    /\ \A i \in 1..Len(old) : new[i] # old[i] => first < i /\ i <= last

LEMMA OverwritingLeaves ==
  ASSUME NEW data \in Seq(Strings), NEW start \in Nat, NEW text \in Seq(Strings), NEW new,
         new = Overwritten(data, start, text), NEW last, last = start + Len(text)
  PROVE  Leaves(data, new, start, last)
<1>1. /\ new \in Seq(Strings)
      /\ Len(new) = IF Len(data) >= start + Len(text) THEN Len(data) ELSE start + Len(text)
      /\ \A i \in 1..Len(data) : i \notin (start + 1)..(start + Len(text)) => new[i] = data[i]
  BY OverwrittenIs
<1>2. Len(data) \in Nat /\ Len(text) \in Nat
  BY LenProperties
<1>3. \A i \in 1..Len(data) : new[i] # data[i] => start < i /\ i <= last
  BY <1>1, <1>2
<1>4. Len(new) >= Len(data) /\ Len(new) >= last
  BY <1>1, <1>2
<1> QED
  BY <1>1, <1>3, <1>4 DEF Leaves

\* What a write does to the table and to the files.
Wrote(fd, f, start, last) ==
    /\ fd \in Opened(fd_table) /\ f = fd_table[fd].file /\ f \in DOMAIN file
    /\ start = StartOf(fd_table[fd]) /\ start \in Nat /\ last \in Nat
    /\ DOMAIN file' = DOMAIN file
    /\ \A g \in DOMAIN file : g # f => file'[g] = file[g]
    /\ Leaves(file[f].data, file'[f].data, start, last)
    /\ Opened(fd_table') = Opened(fd_table)
    /\ \A g \in Fds : g # fd => fd_table'[g] = fd_table[g]
    /\ fd_table'[fd].file = f /\ fd_table'[fd].flags = fd_table[fd].flags
    /\ fd_table'[fd].position = last

LEMMA WritesWrote ==
  ASSUME RamFSIInv, Writes
  PROVE  \E fd, f, start, last : Wrote(fd, f, start, last)
<1>1. PICK fd \in Opened(fd_table) : \E start \in Nat : \E text \in Seq(Strings) :
          /\ fd_table[fd].file \in DOMAIN file
          /\ start = StartOf(fd_table[fd]) /\ start + Len(text) <= MaxData
          /\ Rewrites(file, file', fd_table[fd].file, start, text)
          /\ Moved(fd_table, fd_table', fd, start + Len(text))
  BY DEF Writes
<1>2. PICK start \in Nat, text \in Seq(Strings) :
          /\ fd_table[fd].file \in DOMAIN file
          /\ start = StartOf(fd_table[fd]) /\ start + Len(text) <= MaxData
          /\ Rewrites(file, file', fd_table[fd].file, start, text)
          /\ Moved(fd_table, fd_table', fd, start + Len(text))
  BY <1>1
<1>3. PICK f, last, G, U : /\ f = fd_table[fd].file /\ last = start + Len(text)
                           /\ G = file' /\ U = fd_table'
  OBVIOUS
<1>4. FilesTyped(file) /\ TableTyped(fd_table)
  BY DEF RamFSIInv, TreeIInv, TableIInv, WellFormed
<1>5. Len(text) \in Nat /\ last \in Nat /\ last \in 0..MaxPosition
  <2>1. Len(text) \in Nat
    BY LenProperties
  <2> QED
    BY <1>2, <1>3, <2>1, HeapAssumption, BoundAssumption
<1>6. Rewrites(file, G, f, start, text) /\ Moved(fd_table, U, fd, last)
  BY <1>2, <1>3
<1>7. /\ TableTyped(U) /\ Opened(U) = Opened(fd_table)
      /\ \A g \in Fds : g # fd => U[g] = fd_table[g]
      /\ U[fd].file = fd_table[fd].file /\ U[fd].flags = fd_table[fd].flags
      /\ U[fd].position = last
  BY <1>4, <1>5, <1>6, PositionMoved
<1>8. /\ DOMAIN G = DOMAIN file
      /\ \A g \in DOMAIN file : g # f => G[g] = file[g]
      /\ G[f].data = Overwritten(file[f].data, start, text)
  BY <1>2, <1>3, <1>4, <1>6, Rewritten
<1>9. PICK old, new : old = file[f].data /\ new = G[f].data
  OBVIOUS
<1>10. old \in Seq(Strings)
  BY <1>2, <1>3, <1>4, <1>9 DEF FilesTyped, Document
<1>11. new = Overwritten(old, start, text)
  BY <1>8, <1>9
<1>12. Leaves(old, new, start, last)
  BY <1>3, <1>10, <1>11, OverwritingLeaves
<1>13. Leaves(file[f].data, file'[f].data, start, last)
  BY <1>3, <1>9, <1>12
<1> QED
  BY <1>2, <1>3, <1>5, <1>7, <1>8, <1>13 DEF Wrote

\* What opening a file does.
Entered(fd, e) ==
    /\ fd \in Fds /\ fd \notin Opened(fd_table) /\ e.file \in DOMAIN file /\ e.position = 0
    /\ fd_table'[fd] = e /\ Opened(fd_table') = Opened(fd_table) \cup {fd}
    /\ \A g \in Fds : g # fd => fd_table'[g] = fd_table[g]
    /\ file' = file

LEMMA OpensEntered ==
  ASSUME RamFSIInv, Opens
  PROVE  \E fd, e : Entered(fd, e)
<1>1. PICK fd \in Fds, e \in Entry :
        /\ fd \notin Opened(fd_table) /\ e.file \in DOMAIN file /\ e.position = 0
        /\ Assigned(fd_table, fd_table', fd, e) /\ UNCHANGED file
  BY DEF Opens
<1>2. TableTyped(fd_table)
  BY DEF RamFSIInv, TableIInv
<1>3. PICK U : U = fd_table'
  OBVIOUS
<1>4. /\ U[fd] = e /\ Opened(U) = Opened(fd_table) \cup {fd}
      /\ \A g \in Fds : g # fd => U[g] = fd_table[g]
  BY <1>1, <1>2, <1>3, EntrySet
<1> QED
  BY <1>1, <1>3, <1>4 DEF Entered

\* What reading, seeking and a write without room do.
Displaced(fd, p) ==
    /\ fd \in Opened(fd_table) /\ p \in Nat
    /\ fd_table'[fd].position = p /\ Opened(fd_table') = Opened(fd_table)
    /\ fd_table'[fd].file = fd_table[fd].file /\ fd_table'[fd].flags = fd_table[fd].flags
    /\ \A g \in Fds : g # fd => fd_table'[g] = fd_table[g]
    /\ file' = file
    /\ \/ ret'.op = "seek"
       \/ fd_table[fd].position > Len(file[fd_table[fd].file].data)
       \/ p <= Len(file[fd_table[fd].file].data)

LEMMA MovesDisplaced ==
  ASSUME RamFSIInv, Moves
  PROVE  \E fd, p : Displaced(fd, p)
<1>1. PICK fd \in Opened(fd_table), p \in 0..MaxPosition :
        /\ Moved(fd_table, fd_table', fd, p) /\ UNCHANGED file
        /\ \/ ret'.op = "seek"
           \/ fd_table[fd].position > Len(file[fd_table[fd].file].data)
           \/ p <= Len(file[fd_table[fd].file].data)
  BY DEF Moves
<1>2. TableTyped(fd_table)
  BY DEF RamFSIInv, TableIInv
<1>3. PICK U : U = fd_table'
  OBVIOUS
<1>4. /\ Opened(U) = Opened(fd_table)
      /\ \A g \in Fds : g # fd => U[g] = fd_table[g]
      /\ U[fd].file = fd_table[fd].file /\ U[fd].flags = fd_table[fd].flags
      /\ U[fd].position = p
  BY <1>1, <1>2, <1>3, PositionMoved
<1>5. p \in Nat
  BY <1>1, BoundAssumption
<1> QED
  BY <1>1, <1>3, <1>4, <1>5, Zenon DEF Displaced

\* What closing does.
Left(fd) ==
    /\ fd_table'[fd] = NULL /\ Opened(fd_table') = Opened(fd_table) \ {fd}
    /\ \A g \in Fds : g # fd => fd_table'[g] = fd_table[g]
    /\ file' = file

LEMMA ClosesLeft ==
  ASSUME RamFSIInv, Closes
  PROVE  \E fd : Left(fd)
<1>1. PICK fd \in Fds : Assigned(fd_table, fd_table', fd, NULL) /\ UNCHANGED file
  BY DEF Closes
<1>2. TableTyped(fd_table)
  BY DEF RamFSIInv, TableIInv
<1>3. PICK U : U = fd_table'
  OBVIOUS
<1>4. /\ U[fd] = NULL /\ Opened(U) = Opened(fd_table) \ {fd}
      /\ \A g \in Fds : g # fd => U[g] = fd_table[g]
  BY <1>1, <1>2, <1>3, EntrySet
<1> QED
  BY <1>1, <1>3, <1>4 DEF Left

\* A descriptor refers to one file with one set of flags until it is closed,
\* whatever is opened, removed or closed around it (ramfs.c:278-285).
THEOREM DescriptorsStayStable == Spec => DescriptorStable
<1>1. ASSUME RamFSIInv, [Next]_vars, NEW fd \in OpenFds
      PROVE  \/ fd_table'[fd] = NULL
             \/ /\ fd_table'[fd].file = fd_table[fd].file
                /\ fd_table'[fd].flags = fd_table[fd].flags
  <2>1. fd \in Opened(fd_table) /\ fd \in Fds
    BY OpenedIs
  <2>2. CASE Quiet
    BY <2>2 DEF Quiet
  <2>3. CASE Opens
    <3>1. PICK g, e : Entered(g, e)
      BY <1>1, <2>3, OpensEntered
    <3> QED
      BY <2>1, <3>1 DEF Entered
  <2>4. CASE Moves
    <3>1. PICK g, p : Displaced(g, p)
      BY <1>1, <2>4, MovesDisplaced
    <3> QED
      BY <2>1, <3>1 DEF Displaced
  <2>5. CASE Closes
    <3>1. PICK g : Left(g)
      BY <1>1, <2>5, ClosesLeft
    <3> QED
      BY <2>1, <3>1 DEF Left
  <2>6. CASE Writes
    <3>1. PICK g, f, start, last : Wrote(g, f, start, last)
      BY <1>1, <2>6, WritesWrote
    <3> QED
      BY <2>1, <3>1 DEF Wrote
  <2> QED
    BY <1>1, <2>2, <2>3, <2>4, <2>5, <2>6, StepsAre
<1>2. RamFSIInv /\ [Next]_vars =>
        [\A fd \in OpenFds :
            \/ fd_table'[fd] = NULL
            \/ /\ fd_table'[fd].file = fd_table[fd].file
               /\ fd_table'[fd].flags = fd_table[fd].flags]_vars
  BY <1>1
<1> QED
  BY <1>2, RamFSInvariance, PTL DEF Spec, DescriptorStable

LEMMA PrefixIs ==
  ASSUME NEW s \in Seq(Strings), NEW t \in Seq(Strings), Len(s) <= Len(t),
         \A i \in 1..Len(s) : s[i] = t[i]
  PROVE  IsPrefix(s, t)
<1>1. PICK n, u, v : n = Len(s) /\ u = SubSeq(s, 1, n) /\ v = SubSeq(t, 1, n)
  OBVIOUS
<1>2. n \in Nat /\ Len(t) \in Nat
  BY <1>1, LenProperties
<1>3. \A i \in 1..n : s[i] \in Strings /\ t[i] \in Strings /\ s[i] = t[i]
  BY <1>1, ElementOfSeq
<1>4. u \in Seq(Strings) /\ Len(u) = n /\ \A i \in 1..n : u[i] = s[i]
  BY <1>1, <1>2, <1>3, SubSeqProperties
<1>5. v \in Seq(Strings) /\ Len(v) = n /\ \A i \in 1..n : v[i] = t[i]
  BY <1>1, <1>2, <1>3, SubSeqProperties
<1>6. \A i \in 1..n : u[i] = v[i]
  BY <1>3, <1>4, <1>5
<1>7. u = v
  BY <1>4, <1>5, <1>6, SeqEqual
<1> QED
  BY <1>1, <1>7 DEF IsPrefix

\* What becomes of the contents old of a file f.
Survives(f, old, new) ==
    /\ Len(new) >= Len(old)
    /\ f \notin OpenFiles => new = old
    /\ \A i \in DOMAIN old : new[i] # old[i] =>
           \E fd \in OpenFds : fd_table[fd].file = f
               /\ fd_table[fd].position < i /\ i <= fd_table'[fd].position

AppendOnly(f) ==
    \A fd \in OpenFds : fd_table[fd].file = f => AppendBit \in fd_table[fd].flags

LEMMA ContentsAre ==
  ASSUME RamFSIInv, NEW f \in DOMAIN file
  PROVE  file[f].data \in Seq(Strings)
BY DEF RamFSIInv, TreeIInv, WellFormed, FilesTyped, Document

\* Where a write starts: at the position, or at the end if the flags say so.
LEMMA StartIs ==
  ASSUME NEW e
  PROVE  /\ AppendBit \in e.flags => StartOf(e) = Len(file[e.file].data)
         /\ AppendBit \notin e.flags => StartOf(e) = e.position
BY DEF StartOf

LEMMA StepKeepsData ==
  ASSUME RamFSIInv, [Next]_vars, NEW f \in SameFiles,
         NEW old, old = file[f].data, NEW new, new = file'[f].data
  PROVE  Survives(f, old, new) /\ (AppendOnly(f) => IsPrefix(old, new))
<1>1. f \in DOMAIN file
  BY DEF SameFiles
<1>2. old \in Seq(Strings) /\ Len(old) \in Nat /\ DOMAIN old = 1..Len(old)
  BY <1>1, ContentsAre, LenProperties
<1>3. ASSUME new = old PROVE Survives(f, old, new) /\ IsPrefix(old, new)
  <2>1. Len(new) >= Len(old)
    BY <1>2, <1>3
  <2>2. Survives(f, old, new)
    BY <1>3, <2>1, Zenon DEF Survives
  <2>3. IsPrefix(old, new)
    BY <1>3, <2>1, Zenon DEF IsPrefix
  <2> QED
    BY <2>2, <2>3
<1>4. CASE UNCHANGED file
  BY <1>3, <1>4
<1>5. CASE Quiet
  BY <1>3, <1>5 DEF Quiet, DataKept
<1>6. CASE Writes
  <2>1. PICK fd, g, start, last : Wrote(fd, g, start, last)
    BY <1>6, WritesWrote
  <2>2. CASE f # g
    BY <1>1, <1>3, <2>1, <2>2 DEF Wrote
  <2>3. CASE f = g
    <3>1. /\ fd \in Opened(fd_table) /\ fd_table[fd].file = f
          /\ start = StartOf(fd_table[fd]) /\ fd_table'[fd].position = last
          /\ Leaves(old, new, start, last)
      BY <2>1, <2>3 DEF Wrote
    <3>2. fd \in OpenFds /\ f \in OpenFiles
      BY <3>1, OpenedIs DEF OpenFiles
    <3>3. /\ new \in Seq(Strings) /\ Len(new) >= Len(old)
          /\ \A i \in 1..Len(old) : new[i] # old[i] => start < i /\ i <= last
      BY <3>1 DEF Leaves
    <3>4. start = Len(old) => \A i \in 1..Len(old) : new[i] = old[i]
      BY <1>2, <3>3
    <3>5. AppendBit \in fd_table[fd].flags => start = Len(old)
      BY <3>1, StartIs
    <3>6. AppendBit \notin fd_table[fd].flags => start = fd_table[fd].position
      BY <3>1, StartIs
    <3>7. ASSUME NEW i \in DOMAIN old, new[i] # old[i]
          PROVE  fd_table[fd].position < i /\ i <= fd_table'[fd].position
      <4>1. i \in 1..Len(old) /\ start < i /\ i <= last
        BY <1>2, <3>3, <3>7
      <4>2. start # Len(old)
        BY <3>4, <3>7, <4>1
      <4> QED
        BY <3>1, <3>5, <3>6, <4>1, <4>2
    <3>8. Survives(f, old, new)
      BY <3>1, <3>2, <3>3, <3>7 DEF Survives
    <3>9. ASSUME AppendOnly(f) PROVE IsPrefix(old, new)
      <4>1. AppendBit \in fd_table[fd].flags
        BY <3>1, <3>2, <3>9 DEF AppendOnly
      <4>2. \A i \in 1..Len(old) : old[i] = new[i]
        BY <3>4, <3>5, <4>1
      <4>3. Len(old) <= Len(new)
        <5>1. Len(new) \in Nat
          BY <3>3, LenProperties
        <5> QED
          BY <1>2, <3>3, <5>1
      <4> QED
        BY <1>2, <3>3, <4>2, <4>3, PrefixIs
    <3> QED
      BY <3>8, <3>9
  <2> QED
    BY <2>2, <2>3
<1>7. Opens \/ Moves \/ Closes => UNCHANGED file
  BY DEF Opens, Moves, Closes
<1> QED
  BY <1>4, <1>5, <1>6, <1>7, StepsAre

\* Bytes of a file are lost only where a descriptor passes over them in a
\* write; no file shrinks, and none changes while nobody has it open
\* (ramfs.c:369-387).
THEOREM DataStays == Spec => DataSurvives
<1>1. RamFSIInv /\ [Next]_vars =>
        [\A f \in SameFiles :
            LET old == file[f].data
                new == file'[f].data
            IN /\ Len(new) >= Len(old)
               /\ f \notin OpenFiles => new = old
               /\ \A i \in DOMAIN old : new[i] # old[i] =>
                      \E fd \in OpenFds : fd_table[fd].file = f
                          /\ fd_table[fd].position < i /\ i <= fd_table'[fd].position]_vars
  <2>1. ASSUME RamFSIInv, [Next]_vars, NEW f \in SameFiles
        PROVE  Survives(f, file[f].data, file'[f].data)
    BY <2>1, StepKeepsData
  <2> QED
    BY <2>1, Zenon DEF Survives
<1> QED
  BY <1>1, RamFSInvariance, PTL DEF Spec, DataSurvives

\* A file that is open for appending only keeps all it has, even after a
\* seek back (ramfs.c:362-365): the keyboard's record of what was typed.
THEOREM AppendingKeepsAll == Spec => AppendKeepsAll
<1>1. RamFSIInv /\ [Next]_vars =>
        [\A f \in SameFiles :
            (\A fd \in OpenFds : fd_table[fd].file = f => AppendBit \in fd_table[fd].flags)
                => IsPrefix(file[f].data, file'[f].data)]_vars
  <2>1. ASSUME RamFSIInv, [Next]_vars, NEW f \in SameFiles, AppendOnly(f)
        PROVE  IsPrefix(file[f].data, file'[f].data)
    BY <2>1, StepKeepsData
  <2> QED
    BY <2>1, Zenon DEF AppendOnly
<1> QED
  BY <1>1, RamFSInvariance, PTL DEF Spec, AppendKeepsAll

-----------------------------------------------------------------------------
(* Positions past the end.                                                 *)

LEMMA PositionsStay ==
  ASSUME RamFSIInv, [Next]_vars, NEW fd \in Opened(fd_table'), fd_table'[fd].file \in DOMAIN file',
         fd_table'[fd].position > Len(file'[fd_table'[fd].file].data)
  PROVE  /\ fd \in Opened(fd_table)
         /\ fd_table[fd].file \in DOMAIN file =>
              \/ ret'.op = "seek" /\ fd_table'[fd] # fd_table[fd]
              \/ fd_table[fd].position > Len(file[fd_table[fd].file].data)
<1>1. \A g \in Opened(fd_table) :
         /\ g \in Fds /\ fd_table[g].position \in Nat
         /\ fd_table[g].file \in DOMAIN file => Len(file[fd_table[g].file].data) \in Nat
  <2>1. ASSUME NEW g \in Opened(fd_table)
        PROVE  g \in Fds /\ fd_table[g].position \in Nat
    <3>1. g \in Fds /\ fd_table[g].position \in 0..MaxPosition
      BY OpenEntry DEF RamFSIInv, TableIInv
    <3> QED
      BY <3>1, BoundAssumption
  <2>2. ASSUME NEW f \in DOMAIN file PROVE Len(file[f].data) \in Nat
    BY ContentsAre, LenProperties
  <2> QED
    BY <2>1, <2>2
<1>2. CASE Quiet
  <2>1. fd_table' = fd_table /\ DataKept
    BY <1>2 DEF Quiet
  <2>2. fd_table[fd].file \in DOMAIN file => fd_table[fd].file \in SameFiles
    BY <2>1 DEF SameFiles
  <2> QED
    BY <2>1, <2>2 DEF DataKept
<1>3. CASE Opens
  <2>1. PICK g, e : Entered(g, e)
    BY <1>3, OpensEntered
  <2>2. CASE fd = g
    <3>1. Len(file[e.file].data) \in Nat
      BY <2>1, ContentsAre, LenProperties DEF Entered
    <3>2. fd_table'[fd] = e /\ e.position = 0 /\ file' = file
      BY <2>1, <2>2 DEF Entered
    <3> QED
      BY <3>1, <3>2
  <2> QED
    BY <1>1, <2>1, <2>2 DEF Entered
<1>4. CASE Moves
  <2>1. PICK g, p : Displaced(g, p)
    BY <1>4, MovesDisplaced
  <2>2. CASE fd = g
    <3>1. PICK f, n : f = fd_table[fd].file /\ n = Len(file[f].data)
      OBVIOUS
    <3>2. /\ fd \in Opened(fd_table) /\ p \in Nat /\ fd_table'[fd].position = p
          /\ p > n
          /\ ret'.op = "seek" \/ fd_table[fd].position > n \/ p <= n
      BY <2>1, <2>2, <3>1 DEF Displaced
    <3>3. fd_table[fd].position \in Nat /\ (f \in DOMAIN file => n \in Nat)
      BY <1>1, <3>1, <3>2
    <3>4. fd_table'[fd] # fd_table[fd] \/ p = fd_table[fd].position
      BY <3>2
    <3> QED
      BY <3>1, <3>2, <3>3, <3>4
  <2> QED
    BY <1>1, <2>1, <2>2 DEF Displaced
<1>5. CASE Closes
  <2>1. PICK g : Left(g)
    BY <1>5, ClosesLeft
  <2>2. fd \in Opened(fd_table) /\ fd # g /\ file' = file
    BY <2>1 DEF Left
  <2>3. fd_table'[fd] = fd_table[fd]
    BY <1>1, <2>1, <2>2 DEF Left
  <2> QED
    BY <2>2, <2>3
<1>6. CASE Writes
  <2>1. PICK g, f, start, last : Wrote(g, f, start, last)
    BY <1>6, WritesWrote
  <2>2. PICK old, new : old = file[f].data /\ new = file'[f].data
    OBVIOUS
  <2>3. /\ fd \in Opened(fd_table) /\ f \in DOMAIN file /\ last \in Nat
        /\ Leaves(old, new, start, last)
    BY <2>1, <2>2 DEF Wrote
  <2>4. /\ Len(new) >= Len(old) /\ Len(new) >= last
        /\ Len(old) \in Nat /\ Len(new) \in Nat
    BY <2>3, LenProperties DEF Leaves
  <2>5. CASE fd = g
    <3>1. fd_table'[fd].position = last /\ fd_table'[fd].file = f
      BY <2>1, <2>5 DEF Wrote
    <3> QED
      BY <2>2, <2>3, <2>4, <3>1
  <2>6. CASE fd # g
    <3>1. fd_table'[fd] = fd_table[fd]
      BY <1>1, <2>1, <2>3, <2>6 DEF Wrote
    <3>2. CASE fd_table[fd].file = f
      <4>1. fd_table[fd].position \in Nat /\ fd_table[fd].position > Len(new)
        BY <1>1, <2>2, <2>3, <3>1, <3>2
      <4> QED
        BY <2>2, <2>3, <2>4, <3>2, <4>1
    <3>3. CASE fd_table[fd].file # f
      BY <1>1, <2>1, <2>3, <3>1, <3>3 DEF Wrote
    <3> QED
      BY <3>2, <3>3
  <2> QED
    BY <2>5, <2>6
<1> QED
  BY <1>2, <1>3, <1>4, <1>5, <1>6, StepsAre

\* No open, read, write or close, and no touch or rm, takes a position past the
\* end of the file that is there: only a seek of that descriptor does, or a
\* file created at the address of one that was removed while the descriptor
\* had it open (ramfs.c:124-129, 332, 387, 424).
THEOREM OnlySeeksLeaveFiles == Spec => OnlySeekLeavesFile
<1>1. RamFSIInv /\ [Next]_vars =>
        [\A fd \in OpenFds' : PastEnd(fd)' =>
            /\ fd \in OpenFds
            /\ PastEnd(fd) \/ Sought(fd) \/ ~FileIsThere(fd)]_vars
  <2> SUFFICES ASSUME RamFSIInv, [Next]_vars, NEW fd \in OpenFds', PastEnd(fd)'
               PROVE  /\ fd \in OpenFds
                      /\ PastEnd(fd) \/ Sought(fd) \/ ~FileIsThere(fd)
    OBVIOUS
  <2>1. OpenFds' = Opened(fd_table') /\ OpenFds = Opened(fd_table)
    BY DEF OpenFds, IsOpen, Opened
  <2>2. /\ fd_table'[fd].file \in DOMAIN file'
        /\ fd_table'[fd].position > Len(file'[fd_table'[fd].file].data)
    BY DEF PastEnd, FileIsThere
  <2>3. /\ fd \in Opened(fd_table)
        /\ fd_table[fd].file \in DOMAIN file =>
             \/ ret'.op = "seek" /\ fd_table'[fd] # fd_table[fd]
             \/ fd_table[fd].position > Len(file[fd_table[fd].file].data)
    BY <2>1, <2>2, PositionsStay
  <2> QED
    BY <2>1, <2>3, Zenon DEF PastEnd, Sought, FileIsThere
<1> QED
  BY <1>1, RamFSInvariance, PTL DEF Spec, OnlySeekLeavesFile

-----------------------------------------------------------------------------
(* Where paths lead.                                                       *)

\* The subdirectory that Step goes on to is the one of that name.
LEMMA StepFinds ==
  ASSUME DirsTyped(dir), DirsHang(dir), NEW c \in DOMAIN dir, NEW d \in DOMAIN dir,
         dir[c].parent = d, NEW part, IsToken(part), dir[c].name = <<part>>
  PROVE  Step(d, part) = c
<1>1. c # Root
  <2>1. dir[Root].parent = None /\ None \notin DOMAIN dir
    BY BoundAssumption DEF DirsHang, DirsTyped, None
  <2> QED
    BY <2>1
<1>2. PICK A : A = SubdirsOf(dir)
  OBVIOUS
<1>3. /\ DOMAIN A = DOMAIN dir /\ \A e \in DOMAIN dir : A[e] = dir[e].subdirs
      /\ \A e \in DOMAIN dir : \A i \in 1..Len(A[e]) : dir[A[e][i]].parent = e
      /\ \A x : In(A, x) <=> x \in DOMAIN dir \ {Root}
      /\ NamesDiffer(A, dir)
  BY <1>2 DEF DirsHang, SubdirsOf
<1>4. PICK e, i : e \in DOMAIN dir /\ i \in 1..Len(A[e]) /\ A[e][i] = c
  BY <1>1, <1>3 DEF In
<1>5. e = d
  BY <1>3, <1>4
<1>6. PICK s : s = Step(d, part)
  OBVIOUS
<1>7. \/ /\ s = None
         /\ \A k \in 1..Len(dir[d].subdirs) : dir[dir[d].subdirs[k]].name # <<part>>
      \/ s \in DOMAIN dir /\ s # Root /\ dir[s].name = <<part>> /\ dir[s].parent = d
  BY <1>6, StepIs
<1>8. s \in DOMAIN dir /\ s # Root /\ dir[s].name = <<part>> /\ dir[s].parent = d
  BY <1>3, <1>4, <1>5, <1>7
<1>9. PICK g, j : g \in DOMAIN dir /\ j \in 1..Len(A[g]) /\ A[g][j] = s
  BY <1>3, <1>8 DEF In
<1>10. g = d
  BY <1>3, <1>8, <1>9
<1>11. i = j
  <2>1. d \in DOMAIN A /\ i \in 1..Len(A[d]) /\ j \in 1..Len(A[d])
    BY <1>3, <1>4, <1>5, <1>9, <1>10
  <2>2. dir[A[d][i]].name = dir[A[d][j]].name
    BY <1>4, <1>5, <1>8, <1>9, <1>10
  <2> QED
    BY <1>3, <2>1, <2>2 DEF NamesDiffer
<1> QED
  BY <1>4, <1>5, <1>6, <1>9, <1>10, <1>11

\* A path of one part takes one step from the root.
LEMMA OneStep ==
  ASSUME NEW part
  PROVE  ramfs_find_dir(<<part>>) = Step(Root, part)
<1>1. PICK path : path = <<part>>
  OBVIOUS
<1>2. Len(path) = 1 /\ path[1] = part
  BY <1>1
<1>3. PICK f : /\ ramfs_find_dir(path) = f[Len(path)]
               /\ f[0] = Root
               /\ \A k \in 1..Len(path) : f[k] = Step(f[k - 1], path[k])
  <2>1. Len(path) \in Nat
    BY <1>2
  <2> QED
    BY <2>1, FindDirRecursion
<1>4. f[1] = Step(f[1 - 1], path[1])
  BY <1>2, <1>3
<1>5. 1 - 1 = 0
  OBVIOUS
<1> QED
  BY <1>1, <1>2, <1>3, <1>4, <1>5

LEMMA LookupFinds ==
  ASSUME WellFormed(dir, file), NEW path, NEW d \in DOMAIN dir, d = ramfs_find_dir(DirPart(path)),
         NEW i \in 1..Len(dir[d].files), file[dir[d].files[i]].name = NamePart(path)
  PROVE  Lookup(path) = dir[d].files[i]
<1>1. PICK name, ids, j : name = NamePart(path) /\ ids = dir[d].files /\ j = Find(ids, file, name)
  OBVIOUS
<1>2. d # None
  BY BoundAssumption DEF WellFormed, DirsTyped, None
<1>3. Lookup(path) = IF j = 0 THEN 0 ELSE ids[j]
  BY <1>1, <1>2 DEF Lookup
<1>4. Len(ids) \in Nat /\ FilesOf(dir)[d] = ids /\ d \in DOMAIN FilesOf(dir)
  BY <1>1, DirType DEF WellFormed, FilesOf
<1>5. \/ j = 0 /\ \A k \in 1..Len(ids) : file[ids[k]].name # name
      \/ j \in 1..Len(ids) /\ file[ids[j]].name = name
  BY <1>1, <1>4, FindIs
<1>6. j \in 1..Len(ids) /\ file[ids[j]].name = name
  BY <1>1, <1>5
<1>7. i = j
  BY <1>1, <1>4, <1>6 DEF WellFormed, FilesHang, NamesDiffer
<1>8. j # 0
  BY <1>4, <1>6
<1> QED
  BY <1>1, <1>3, <1>7, <1>8

\* A name of one part, and a path of two.
LEMMA OnePart ==
  ASSUME NEW s \in Seq(Strings), Len(s) = 1
  PROVE  s = <<s[1]>> /\ s[1] \in Strings
<1>1. PICK p : p = s[1]
  OBVIOUS
<1>2. p \in Strings
  BY <1>1, ElementOfSeq
<1>3. <<p>> \in Seq(Strings) /\ Len(<<p>>) = 1 /\ <<p>>[1] = p
  BY <1>2
<1>4. \A i \in 1..Len(s) : s[i] = <<p>>[i]
  BY <1>1, <1>3
<1>5. s = <<p>>
  BY <1>3, <1>4, SeqEqual
<1> QED
  BY <1>1, <1>2, <1>5

LEMMA TwoParts ==
  ASSUME NEW s \in Seq(Strings), NEW t \in Seq(Strings), Len(s) = 1, Len(t) = 1
  PROVE  Len(s \o t) = 2 /\ (s \o t)[1] = s[1] /\ Tail(s \o t) = t
<1>1. PICK st : st = s \o t
  OBVIOUS
<1>2. st \in Seq(Strings) /\ Len(st) = 2 /\ st[1] = s[1] /\ st[2] = t[1]
  BY <1>1, ConcatProperties
<1>3. st # <<>>
  BY <1>2
<1>4. Tail(st) \in Seq(Strings) /\ Len(Tail(st)) = 1 /\ Tail(st)[1] = st[2]
  <2>1. /\ Tail(st) \in Seq(Strings) /\ Len(Tail(st)) = Len(st) - 1
        /\ \A i \in 1..Len(Tail(st)) : Tail(st)[i] = st[i + 1]
    BY <1>2, <1>3, HeadTailProperties
  <2> QED
    BY <1>2, <2>1
<1>5. \A i \in 1..Len(t) : Tail(st)[i] = t[i]
  BY <1>2, <1>4
<1>6. Tail(st) = t
  BY <1>4, <1>5, SeqEqual
<1> QED
  BY <1>1, <1>2, <1>6

LEMMA PathsResolve ==
  ASSUME WellFormed(dir, file), NEW d \in DOMAIN dir, NEW i \in 1..Len(dir[d].files),
         NEW f, f = dir[d].files[i], NEW name, name = file[f].name, Plain(name)
  PROVE  /\ d = Root => Lookup(name) = f /\ Lookup(<<"">> \o name) = f
         /\ (dir[d].parent = Root /\ Plain(dir[d].name)) => Lookup(dir[d].name \o name) = f
<1>1. DirsTyped(dir) /\ DirsHang(dir) /\ Root \in DOMAIN dir
  BY DEF WellFormed, DirsTyped
<1>2. name \in Seq(Strings) /\ Len(name) = 1
  <2>1. f \in DOMAIN file
    <3>1. /\ FilesOf(dir) \in Arrays(DOMAIN dir, FileIds) /\ FilesOf(dir)[d] = dir[d].files
      BY <1>1, DirType
    <3>2. In(FilesOf(dir), f)
      BY <3>1, ArrayType
    <3> QED
      BY <3>2 DEF WellFormed, FilesHang
  <2>2. file[f] \in Document
    BY <2>1 DEF WellFormed, FilesTyped
  <2> QED
    BY <2>2 DEF Document, Plain
<1>3. "" \in Strings /\ <<"">> \in Seq(Strings) /\ Len(<<"">>) = 1 /\ <<"">>[1] = ""
  <2>1. "" \in Strings
    BY DEF Strings
  <2>2. <<"">> \in Seq(Strings)
    BY <2>1, ShortSequences
  <2>3. Len(<<"">>) = 1 /\ <<"">>[1] = ""
    OBVIOUS
  <2> QED
    BY <2>1, <2>2, <2>3
<1>4. ramfs_find_dir(<<"">>) = Root
  <2>1. Step(Root, "") = Root
    BY DEF Step, IsToken
  <2> QED
    BY <2>1, OneStep
<1>5. ASSUME d = Root PROVE Lookup(name) = f /\ Lookup(<<"">> \o name) = f
  <2>1. Lookup(name) = f
    <3>1. DirPart(name) = <<"">> /\ NamePart(name) = name
      BY <1>2 DEF DirPart, NamePart
    <3>2. d = ramfs_find_dir(DirPart(name))
      BY <1>4, <1>5, <3>1
    <3> QED
      BY <3>1, <3>2, LookupFinds
  <2>2. Lookup(<<"">> \o name) = f
    <3>1. PICK path : path = <<"">> \o name
      OBVIOUS
    <3>2. path[1] = "" /\ Tail(path) = name
      BY <1>2, <1>3, <3>1, TwoParts
    <3>3. DirPart(path) = <<path[1]>> /\ NamePart(path) = Tail(path)
      <4>1. Len(path) = 2
        BY <1>2, <1>3, <3>1, TwoParts
      <4> QED
        BY <4>1 DEF DirPart, NamePart
    <3>4. d = ramfs_find_dir(DirPart(path))
      BY <1>4, <1>5, <3>2, <3>3
    <3> QED
      BY <3>1, <3>2, <3>3, <3>4, LookupFinds
  <2> QED
    BY <2>1, <2>2
<1>6. ASSUME dir[d].parent = Root, Plain(dir[d].name) PROVE Lookup(dir[d].name \o name) = f
  <2>1. PICK dname, part : dname = dir[d].name /\ part = dname[1]
    OBVIOUS
  <2>2. dname \in Seq(Strings) /\ Len(dname) = 1 /\ dname # <<"">>
    <3>1. dir[d] \in Directory
      BY <1>1, DirType
    <3> QED
      BY <1>6, <2>1, <3>1 DEF Directory, Plain
  <2>3. dname = <<part>> /\ part # ""
    BY <2>1, <2>2, OnePart
  <2>4. Step(Root, part) = d
    BY <1>1, <1>6, <2>1, <2>3, StepFinds DEF IsToken
  <2>5. PICK path : path = dname \o name
    OBVIOUS
  <2>6. Len(path) = 2 /\ path[1] = part /\ Tail(path) = name
    BY <1>2, <2>1, <2>2, <2>5, TwoParts
  <2>7. DirPart(path) = <<part>> /\ NamePart(path) = name
    BY <2>6 DEF DirPart, NamePart
  <2>8. d = ramfs_find_dir(DirPart(path))
    BY <2>4, <2>7, OneStep
  <2>9. Lookup(path) = f
    BY <2>7, <2>8, LookupFinds
  <2> QED
    BY <2>1, <2>5, <2>9
<1> QED
  BY <1>5, <1>6

\* OpenResolves holds of every reachable state: what ramfs_open finds under
\* the path of a file is that file (ramfs.c:246-271).
THEOREM PathsOpenTheirFiles == Spec => []OpenResolves
<1>1. RamFSIInv => OpenResolves
  <2> SUFFICES ASSUME RamFSIInv, NEW d \in DOMAIN dir, NEW i \in DOMAIN dir[d].files,
                      Plain(file[dir[d].files[i]].name)
               PROVE  LET f == dir[d].files[i]
                          name == file[f].name
                      IN /\ d = Root => Lookup(name) = f /\ Lookup(<<"">> \o name) = f
                         /\ (dir[d].parent = Root /\ Plain(dir[d].name)) =>
                                Lookup(dir[d].name \o name) = f
    BY Zenon DEF OpenResolves
  <2>1. WellFormed(dir, file) /\ DirsTyped(dir)
    BY DEF RamFSIInv, TreeIInv, WellFormed
  <2>2. i \in 1..Len(dir[d].files)
    BY <2>1, DirType
  <2> QED
    BY <2>1, <2>2, PathsResolve
<1> QED
  BY <1>1, RamFSInvariance, PTL

-----------------------------------------------------------------------------
(* What pwd prints.                                                        *)

\* The directories on the way from the root down to d, without the root.
Chain(d, p) ==
    /\ p \in Seq(DOMAIN dir)
    /\ d = IF Len(p) = 0 THEN Root ELSE p[Len(p)]
    /\ \A k \in 1..Len(p) : dir[p[k]].parent = IF k = 1 THEN Root ELSE p[k - 1]

LEMMA RootHasNoParent ==
  ASSUME DirsTyped(dir), DirsHang(dir)
  PROVE  Root \in DOMAIN dir /\ dir[Root].parent = None /\ None \notin DOMAIN dir
BY BoundAssumption DEF DirsHang, DirsTyped, None

LEMMA ChainOfRoot ==
  ASSUME DirsTyped(dir), DirsHang(dir)
  PROVE  Chain(Root, <<>>) /\ \A p : Chain(Root, p) => p = <<>>
<1>1. <<>> \in Seq(DOMAIN dir) /\ Len(<<>>) = 0
  OBVIOUS
<1>2. Chain(Root, <<>>)
  BY <1>1 DEF Chain
<1>3. ASSUME NEW p, Chain(Root, p) PROVE p = <<>>
  <2>1. p \in Seq(DOMAIN dir) /\ Len(p) \in Nat
    BY <1>3, LenProperties DEF Chain
  <2>2. SUFFICES ASSUME Len(p) # 0 PROVE FALSE
    BY <2>1, EmptySeq
  <2>3. Len(p) \in 1..Len(p) /\ p[Len(p)] = Root
    BY <1>3, <2>1, <2>2 DEF Chain
  <2>4. dir[Root].parent = IF Len(p) = 1 THEN Root ELSE p[Len(p) - 1]
    BY <1>3, <2>3 DEF Chain
  <2>5. CASE Len(p) = 1
    BY <2>4, <2>5, RootHasNoParent
  <2>6. CASE Len(p) # 1
    <3>1. Len(p) - 1 \in 1..Len(p)
      <4>1. PICK n : n = Len(p)
        OBVIOUS
      <4>2. n \in Nat /\ n # 0 /\ n # 1
        BY <2>1, <2>2, <2>6, <4>1
      <4>3. n - 1 \in 1..n
        BY <4>2
      <4> QED
        BY <4>1, <4>3
    <3>2. p[Len(p) - 1] \in DOMAIN dir
      BY <2>1, <3>1, ElementOfSeq
    <3> QED
      BY <2>4, <2>6, <3>2, RootHasNoParent
  <2> QED
    BY <2>5, <2>6
<1> QED
  BY <1>2, <1>3

LEMMA ChainExtends ==
  ASSUME NEW d, NEW p, Chain(d, p), NEW c \in DOMAIN dir, dir[c].parent = d,
         NEW q, q = Append(p, c)
  PROVE  Chain(c, q)
<1>1. PICK n : n = Len(p)
  OBVIOUS
<1>2. p \in Seq(DOMAIN dir) /\ n \in Nat
  BY <1>1, LenProperties DEF Chain
<1>3. /\ q \in Seq(DOMAIN dir) /\ Len(q) = n + 1 /\ q[n + 1] = c
      /\ \A k \in 1..n : q[k] = p[k]
  BY <1>1, <1>2, AppendProperties
<1>4. d = IF n = 0 THEN Root ELSE p[n]
  BY <1>1 DEF Chain
<1>5. \A k \in 1..n : dir[p[k]].parent = IF k = 1 THEN Root ELSE p[k - 1]
  BY <1>1 DEF Chain
<1>6. c = IF Len(q) = 0 THEN Root ELSE q[Len(q)]
  BY <1>2, <1>3
<1>7. ASSUME NEW k \in 1..Len(q) PROVE dir[q[k]].parent = IF k = 1 THEN Root ELSE q[k - 1]
  <2>1. CASE k \in 1..n
    <3>1. k = 1 \/ k - 1 \in 1..n
      BY <1>2, <2>1
    <3> QED
      BY <1>3, <1>5, <2>1, <3>1
  <2>2. CASE k = n + 1
    <3>1. k = 1 <=> n = 0
      BY <1>2, <2>2
    <3>2. k - 1 = n /\ (n # 0 => n \in 1..n)
      BY <1>2, <2>2
    <3> QED
      BY <1>3, <1>4, <2>2, <3>1, <3>2
  <2> QED
    BY <1>2, <1>3, <2>1, <2>2
<1> QED
  BY <1>3, <1>6, <1>7 DEF Chain

LEMMA ChainOfChild ==
  ASSUME NEW c, c # Root, NEW q, Chain(c, q)
  PROVE  \E p : Chain(dir[c].parent, p) /\ q = Append(p, c)
<1>1. PICK n : n = Len(q)
  OBVIOUS
<1>2. q \in Seq(DOMAIN dir) /\ n \in Nat /\ DOMAIN q = 1..n
  BY <1>1, LenProperties DEF Chain
<1>3. n # 0 /\ c = q[n]
  BY <1>1 DEF Chain
<1>4. n - 1 \in Nat /\ n \in 1..n /\ (n - 1) + 1 = n
  BY <1>2, <1>3
<1>5. PICK m, p : m = n - 1 /\ p = [k \in 1..m |-> q[k]]
  OBVIOUS
<1>6. \A k \in 1..m : k \in 1..n /\ p[k] = q[k] /\ q[k] \in DOMAIN dir
  <2>1. \A k \in 1..m : k \in 1..n
    BY <1>4, <1>5
  <2>2. \A k \in 1..n : q[k] \in DOMAIN dir
    BY <1>1, <1>2, ElementOfSeq
  <2> QED
    BY <1>5, <2>1, <2>2
<1>7. p \in Seq(DOMAIN dir) /\ Len(p) = m
  <2>1. p \in [1..m -> DOMAIN dir]
    <3>1. p = [k \in 1..m |-> q[k]]
      BY <1>5
    <3>2. \A k \in 1..m : q[k] \in DOMAIN dir
      BY <1>6
    <3> QED
      BY <3>1, <3>2
  <2>2. m \in Nat
    BY <1>4, <1>5
  <2>3. p \in Seq(DOMAIN dir)
    BY <2>1, <2>2, SeqDef
  <2>4. DOMAIN p = 1..m
    BY <2>1
  <2> QED
    BY <2>2, <2>3, <2>4, LenProperties
<1>8. \A k \in 1..n : dir[q[k]].parent = IF k = 1 THEN Root ELSE q[k - 1]
  BY <1>1 DEF Chain
<1>9. Chain(dir[c].parent, p)
  <2>1. dir[c].parent = IF Len(p) = 0 THEN Root ELSE p[Len(p)]
    <3>1. dir[c].parent = IF n = 1 THEN Root ELSE q[n - 1]
      BY <1>3, <1>4, <1>8
    <3>2. (n = 1 <=> m = 0) /\ (m # 0 => m \in 1..m)
      BY <1>4, <1>5
    <3> QED
      BY <1>5, <1>6, <1>7, <3>1, <3>2
  <2>2. ASSUME NEW k \in 1..m PROVE dir[p[k]].parent = IF k = 1 THEN Root ELSE p[k - 1]
    <3>1. k = 1 \/ k - 1 \in 1..m
      BY <1>4, <1>5
    <3> QED
      BY <1>6, <1>8, <3>1
  <2> QED
    BY <1>7, <2>1, <2>2 DEF Chain
<1>10. q = Append(p, c)
  <2>1. c \in DOMAIN dir
    BY <1>1, <1>2, <1>3, <1>4, ElementOfSeq
  <2>2. PICK r : r = Append(p, c)
    OBVIOUS
  <2>3. r \in Seq(DOMAIN dir) /\ Len(r) = m + 1 /\ r[m + 1] = c /\ \A k \in 1..m : r[k] = p[k]
    BY <1>7, <2>1, <2>2, AppendProperties
  <2>4. Len(r) = n
    BY <1>4, <1>5, <2>3
  <2>5. ASSUME NEW k \in 1..n PROVE q[k] = r[k]
    <3>1. k \in 1..m \/ k = m + 1
      BY <1>4, <1>5
    <3>2. m + 1 = n
      BY <1>4, <1>5
    <3> QED
      BY <1>3, <1>6, <2>3, <3>1, <3>2
  <2>6. q = r
    BY <1>1, <1>2, <2>3, <2>4, <2>5, SeqEqual
  <2> QED
    BY <2>2, <2>6
<1> QED
  BY <1>9, <1>10

\* A directory has one chain.
OneChain(d) == (\E p : Chain(d, p)) /\ \A p, q : Chain(d, p) /\ Chain(d, q) => p = q

\* What holds of the root and of the subdirectories of what it holds of.
LEMMA Descends ==
  ASSUME DirsTyped(dir), DirsHang(dir), NEW C \in SUBSET DOMAIN dir, Root \in C,
         \A c \in DOMAIN dir : c # Root /\ dir[c].parent \in C => c \in C
  PROVE  C = DOMAIN dir
<1>1. ASSUME NEW d \in C, NEW i \in 1..Len(dir[d].subdirs) PROVE dir[d].subdirs[i] \in C
  <2>1. PICK c : c = dir[d].subdirs[i]
    OBVIOUS
  <2>2. dir[c].parent = d
    BY <2>1 DEF DirsHang
  <2>3. c \in DOMAIN dir \ {Root}
    <3>1. SubdirsOf(dir) \in Arrays(DOMAIN dir, DirIds) /\ SubdirsOf(dir)[d] = dir[d].subdirs
      BY DirType
    <3>2. In(SubdirsOf(dir), c)
      BY <2>1, <3>1, ArrayType
    <3> QED
      BY <3>2 DEF DirsHang
  <2> QED
    BY <2>1, <2>2, <2>3
<1>2. Reached(dir)
  BY DEF DirsHang
<1> QED
  BY <1>1, <1>2 DEF Reached

LEMMA ChainsAreOne ==
  ASSUME DirsTyped(dir), DirsHang(dir), NEW d \in DOMAIN dir
  PROVE  OneChain(d)
<1> DEFINE C == {c \in DOMAIN dir : OneChain(c)}
<1>1. Root \in C
  BY RootHasNoParent, ChainOfRoot DEF OneChain
<1>2. ASSUME NEW c \in DOMAIN dir, c # Root, dir[c].parent \in C PROVE c \in C
  <2>1. OneChain(dir[c].parent)
    BY <1>2
  <2>2. \E p : Chain(c, p)
    <3>1. PICK p : Chain(dir[c].parent, p)
      BY <2>1 DEF OneChain
    <3>2. Chain(c, Append(p, c))
      BY <3>1, ChainExtends
    <3> QED
      BY <3>2
  <2>3. ASSUME NEW p, NEW q, Chain(c, p), Chain(c, q) PROVE p = q
    <3>1. PICK r : Chain(dir[c].parent, r) /\ p = Append(r, c)
      BY <1>2, <2>3, ChainOfChild
    <3>2. PICK s : Chain(dir[c].parent, s) /\ q = Append(s, c)
      BY <1>2, <2>3, ChainOfChild
    <3>3. r = s
      BY <2>1, <3>1, <3>2 DEF OneChain
    <3> QED
      BY <3>1, <3>2, <3>3
  <2> QED
    BY <2>2, <2>3 DEF OneChain
<1>3. C \in SUBSET DOMAIN dir
  OBVIOUS
<1> HIDE DEF C
<1>4. C = DOMAIN dir
  BY <1>1, <1>2, <1>3, Descends
<1> QED
  BY <1>4 DEF C

\* Following the parent pointers up and turning them round gives the chain.
LEMMA AncestryIs ==
  ASSUME WellFormed(dir, file), NEW d \in DOMAIN dir
  PROVE  Chain(d, Ancestry[d])
<1> USE DEF WellFormed
<1> DEFINE Upward(f) == [e \in DOMAIN dir |-> IF e = Root THEN <<>> ELSE Append(f[dir[e].parent], e)]
           A == [e \in DOMAIN dir |-> CHOOSE p : Chain(e, p)]
<1>1. \A e \in DOMAIN dir : e # Root => dir[e].parent \in DOMAIN dir
  BY ParentIsThere
<1>2. \A e \in DOMAIN dir : Chain(e, A[e])
  BY ChainsAreOne DEF OneChain
<1>3. \A e \in DOMAIN dir : A[e] = IF e = Root THEN <<>> ELSE Append(A[dir[e].parent], e)
  <2> SUFFICES ASSUME NEW e \in DOMAIN dir
               PROVE  A[e] = IF e = Root THEN <<>> ELSE Append(A[dir[e].parent], e)
    OBVIOUS
  <2> HIDE DEF A
  <2>1. CASE e = Root
    BY <1>2, <2>1, ChainOfRoot
  <2>2. CASE e # Root
    <3>1. PICK up : up = dir[e].parent
      OBVIOUS
    <3>2. up \in DOMAIN dir /\ Chain(up, A[up])
      BY <1>1, <1>2, <2>2, <3>1
    <3>3. Chain(e, Append(A[up], e))
      BY <3>1, <3>2, ChainExtends
    <3>4. A[e] = Append(A[up], e)
      BY <1>2, <3>3, ChainsAreOne DEF OneChain
    <3> QED
      BY <2>2, <3>1, <3>4
  <2> QED
    BY <2>1, <2>2
<1>4. A = Upward(A)
  <2>1. A = [e \in DOMAIN dir |-> A[e]]
    OBVIOUS
  <2> HIDE DEF A
  <2> QED
    BY <1>3, <2>1
<1>5. Ancestry = Upward(Ancestry)
  <2>1. Ancestry = CHOOSE f : f = Upward(f)
    BY DEF Ancestry
  <2> HIDE DEF Upward, A
  <2> QED
    BY <1>4, <2>1
<1>6. PICK B : B = Ancestry
  OBVIOUS
<1>7. \A e \in DOMAIN dir : B[e] = IF e = Root THEN <<>> ELSE Append(B[dir[e].parent], e)
  BY <1>5, <1>6
<1> HIDE DEF Upward, A
<1> DEFINE C == {e \in DOMAIN dir : Chain(e, B[e])}
<1>8. Root \in C
  <2>1. Root \in DOMAIN dir /\ Chain(Root, <<>>)
    BY RootHasNoParent, ChainOfRoot
  <2> QED
    BY <1>7, <2>1
<1>9. ASSUME NEW c \in DOMAIN dir, c # Root, dir[c].parent \in C PROVE c \in C
  <2>1. PICK up : up = dir[c].parent
    OBVIOUS
  <2>2. Chain(up, B[up])
    BY <1>9, <2>1
  <2>3. B[c] = Append(B[up], c)
    BY <1>7, <1>9, <2>1
  <2>4. Chain(c, B[c])
    BY <2>1, <2>2, <2>3, ChainExtends
  <2> QED
    BY <2>4
<1>10. C \in SUBSET DOMAIN dir
  OBVIOUS
<1> HIDE DEF C
<1>11. C = DOMAIN dir
  BY <1>8, <1>9, <1>10, Descends
<1> QED
  BY <1>6, <1>11 DEF C

\* Sequences of length one, one after the other.
LEMMA FlattenedOnes ==
  ASSUME NEW parts \in Seq(Seq(Strings)), \A i \in 1..Len(parts) : Len(parts[i]) = 1,
         NEW flat, flat = FlattenSeq(parts)
  PROVE  /\ flat \in Seq(Strings) /\ Len(flat) = Len(parts)
         /\ \A i \in 1..Len(parts) : flat[i] = parts[i][1]
<1>1. PICK n : n = Len(parts)
  OBVIOUS
<1>2. n \in Nat
  BY <1>1, LenProperties
<1>3. CASE n = 0
  <2>1. parts = <<>>
    BY <1>1, <1>3, EmptySeq
  <2>2. flat = <<>>
    BY <1>1, <1>3, <2>1 DEF FlattenSeq
  <2>3. flat \in Seq(Strings) /\ Len(flat) = 0 /\ Len(parts) = 0 /\ 1..0 = {}
    BY <1>1, <1>3, <2>2
  <2> QED
    BY <2>3
<1>4. CASE n # 0
  <2>1. \A i \in 1..n : parts[i] \in Seq(Strings) /\ Len(parts[i]) = 1 /\ parts[i][1] \in Strings
    <3>1. ASSUME NEW i \in 1..n PROVE parts[i] \in Seq(Strings) /\ Len(parts[i]) = 1
      BY <1>1, ElementOfSeq
    <3> QED
      BY <3>1, OnePart
  <2> DEFINE Onward(f) == [i \in 1..n |-> IF i = 1 THEN parts[i] ELSE f[i - 1] \o parts[i]]
             First(i) == [j \in 1..i |-> parts[j][1]]
             g == [i \in 1..n |-> First(i)]
             flatten == CHOOSE f : f = Onward(f)
  <2>2. ASSUME NEW i \in 1..n PROVE First(i) \in Seq(Strings) /\ Len(First(i)) = i
    <3>1. i \in Nat /\ \A j \in 1..i : j \in 1..n
      BY <1>2
    <3>2. First(i) \in [1..i -> Strings]
      BY <2>1, <3>1
    <3>3. First(i) \in Seq(Strings) /\ DOMAIN First(i) = 1..i
      BY <3>1, <3>2, SeqDef
    <3> HIDE DEF First
    <3> QED
      BY <3>1, <3>3, LenProperties
  <2>3. \A i \in 1..n : \A j \in 1..i : First(i)[j] = parts[j][1]
    OBVIOUS
  <2> HIDE DEF First
  <2>4. First(1) = parts[1]
    <3>1. 1 \in 1..n
      BY <1>2, <1>4
    <3>2. parts[1] \in Seq(Strings) /\ Len(parts[1]) = 1
      BY <2>1, <3>1
    <3>3. First(1) \in Seq(Strings) /\ Len(First(1)) = 1 /\ First(1)[1] = parts[1][1]
      <4>1. First(1) \in Seq(Strings) /\ Len(First(1)) = 1
        BY <2>2, <3>1
      <4>2. 1 \in 1..1
        OBVIOUS
      <4> QED
        BY <2>3, <3>1, <4>1, <4>2
    <3>4. PICK a, b : a = First(1) /\ b = parts[1]
      OBVIOUS
    <3>5. a \in Seq(Strings) /\ b \in Seq(Strings) /\ Len(a) = 1 /\ Len(b) = 1 /\ a[1] = b[1]
      BY <3>2, <3>3, <3>4
    <3>6. \A k \in 1..Len(a) : a[k] = b[k]
      BY <3>5
    <3>7. a = b
      BY <3>5, <3>6, SeqEqual
    <3> QED
      BY <3>4, <3>7
  <2>5. ASSUME NEW i \in 1..n, i # 1 PROVE First(i) = First(i - 1) \o parts[i]
    <3>1. i - 1 \in 1..n /\ (i - 1) + 1 = i
      BY <1>2, <2>5
    <3>2. PICK a, b, c, k : a = First(i) /\ b = First(i - 1) /\ c = parts[i] /\ k = i - 1
      OBVIOUS
    <3>3. /\ a \in Seq(Strings) /\ Len(a) = i /\ b \in Seq(Strings) /\ Len(b) = k
          /\ c \in Seq(Strings) /\ Len(c) = 1
      BY <2>1, <2>2, <3>1, <3>2
    <3>4. k \in 1..n /\ k + 1 = i
      BY <3>1, <3>2
    <3>5. PICK d : d = b \o c
      OBVIOUS
    <3>6. /\ d \in Seq(Strings) /\ Len(d) = Len(b) + Len(c)
          /\ \A j \in 1..(Len(b) + Len(c)) : d[j] = IF j <= Len(b) THEN b[j] ELSE c[j - Len(b)]
      BY <3>3, <3>5, ConcatProperties
    <3>7. ASSUME NEW j \in 1..i PROVE a[j] = d[j]
      <4>1. a[j] = parts[j][1]
        BY <2>3, <3>2
      <4>2. CASE j \in 1..k
        <5>1. b[j] = parts[j][1]
          BY <2>3, <3>1, <3>2, <4>2
        <5>2. d[j] = b[j]
          BY <3>3, <3>4, <3>6, <4>2
        <5> QED
          BY <4>1, <5>1, <5>2
      <4>3. CASE j = i
        <5>1. d[j] = c[1]
          <6>1. ~(i <= k) /\ i - k = 1 /\ i \in 1..(k + 1)
            BY <3>4
          <6> QED
            BY <3>3, <3>6, <4>3, <6>1
        <5> QED
          BY <3>2, <4>1, <4>3, <5>1
      <4> QED
        BY <3>4, <4>2, <4>3
    <3>8. Len(d) = i
      BY <3>3, <3>4, <3>6
    <3>9. a = d
      BY <3>3, <3>6, <3>7, <3>8, SeqEqual
    <3> QED
      BY <3>2, <3>5, <3>9
  <2>6. g = Onward(g)
    <3>1. ASSUME NEW i \in 1..n PROVE g[i] = IF i = 1 THEN parts[i] ELSE g[i - 1] \o parts[i]
      <4>1. i # 1 => i - 1 \in 1..n
        BY <1>2
      <4> QED
        BY <2>4, <2>5, <4>1
    <3>2. g = [i \in 1..n |-> g[i]]
      OBVIOUS
    <3> HIDE DEF g
    <3> QED
      BY <3>1, <3>2
  <2>7. flat = flatten[n]
    <3>1. Len(parts) # 0
      BY <1>1, <1>4
    <3> QED
      BY <1>1, <3>1 DEF FlattenSeq
  <2>8. flatten = Onward(flatten)
    <3> HIDE DEF Onward, g
    <3> QED
      BY <2>6
  <2>9. PICK f : f = flatten
    OBVIOUS
  <2>10. \A i \in 1..n : f[i] = IF i = 1 THEN parts[i] ELSE f[i - 1] \o parts[i]
    BY <2>8, <2>9
  <2> HIDE DEF Onward, g, flatten
  <2> DEFINE Bad == {i \in 1..n : f[i] # First(i)}
  <2>11. Bad = {}
    <3> SUFFICES ASSUME Bad # {} PROVE FALSE
      OBVIOUS
    <3>1. PICK i \in Bad : \A j \in Bad : i <= j
      <4>1. Bad \in SUBSET Nat
        OBVIOUS
      <4> HIDE DEF Bad
      <4> QED
        BY <4>1, Least
    <3>2. i \in 1..n /\ f[i] # First(i)
      OBVIOUS
    <3>3. CASE i = 1
      BY <2>4, <2>10, <3>2, <3>3
    <3>4. CASE i # 1
      <4>1. i - 1 \in 1..n /\ ~(i <= i - 1)
        BY <1>2, <3>2, <3>4
      <4>2. f[i - 1] = First(i - 1)
        BY <3>1, <4>1
      <4>3. f[i] = First(i)
        BY <2>5, <2>10, <3>2, <3>4, <4>2
      <4> QED
        BY <3>2, <4>3
    <3> QED
      BY <3>3, <3>4
  <2>12. n \in 1..n
    BY <1>2, <1>4
  <2>13. flat = First(n)
    BY <2>7, <2>9, <2>11, <2>12
  <2> QED
    BY <1>1, <2>2, <2>3, <2>12, <2>13
<1> QED
  BY <1>2, <1>3, <1>4

\* The path that pwd prints, but for its first byte: t after a slash.
AfterSlash(path, t) ==
    /\ Len(path) = Len(t) + 1 /\ path[1] = ""
    /\ \A k \in 1..Len(t) : path[k + 1] = t[k]

LEMMA PrintedIs ==
  ASSUME NEW d, NEW t \in Seq(Strings), t = PathOf(d), NEW path, path = Tail(ramfs_pwd(d))
  PROVE  AfterSlash(path, t)
<1>1. PICK s, st, n : s = <<Junk, "">> /\ st = s \o t /\ n = Len(t)
  OBVIOUS
<1>2. /\ s \in Seq(Strings) /\ Len(s) = 2 /\ s[2] = ""
  <2>1. Junk \in Strings /\ "" \in Strings
    BY DEF Strings
  <2>2. s \in Seq(Strings)
    BY <1>1, <2>1, ShortSequences
  <2>3. Len(s) = 2
    BY <1>1
  <2>4. s[2] = ""
    BY <1>1
  <2> QED
    BY <2>2, <2>3, <2>4
<1>3. t \in Seq(Strings) /\ Len(t) = n /\ n \in Nat
  BY <1>1, LenProperties
<1>4. PICK e : e = s[2]
  OBVIOUS
<1>5. s \in Seq(Strings) /\ Len(s) = 2
  BY <1>2
<1>6. /\ st \in Seq(Strings) /\ Len(st) = Len(s) + Len(t)
      /\ \A i \in 1..(Len(s) + Len(t)) : st[i] = IF i <= Len(s) THEN s[i] ELSE t[i - Len(s)]
  BY <1>1, <1>3, <1>5, ConcatProperties
<1>7. Len(st) = n + 2 /\ st[2] = e /\ \A k \in 1..n : st[k + 2] = t[k]
  <2>1. ASSUME NEW k \in 1..n PROVE st[k + 2] = t[k]
    <3>1. k + 2 \in 1..(2 + n) /\ ~(k + 2 <= 2) /\ (k + 2) - 2 = k
      BY <1>3
    <3> QED
      BY <1>3, <1>5, <1>6, <3>1
  <2>2. st[2] = e
    <3>1. 2 \in 1..(2 + n) /\ 2 <= 2
      BY <1>3
    <3> QED
      BY <1>3, <1>4, <1>5, <1>6, <3>1
  <2>3. Len(st) = n + 2
    BY <1>3, <1>5, <1>6
  <2> QED
    BY <2>1, <2>2, <2>3
<1>8. st # <<>>
  BY <1>3, <1>7
<1>9. path = Tail(st)
  BY <1>1 DEF ramfs_pwd
<1>10. /\ Len(path) = Len(st) - 1
       /\ \A i \in 1..Len(path) : path[i] = st[i + 1]
  <2>1. st \in Seq(Strings)
    BY <1>6
  <2> QED
    BY <1>8, <1>9, <2>1, HeadTailProperties
<1>11. Len(path) = n + 1
  BY <1>3, <1>7, <1>10
<1>12. path[1] = e
  <2>1. 1 \in 1..(n + 1) /\ 1 + 1 = 2
    BY <1>3
  <2> QED
    BY <1>7, <1>10, <1>11, <2>1
<1>13. ASSUME NEW k \in 1..n PROVE path[k + 1] = t[k]
  <2>1. k + 1 \in 1..(n + 1) /\ (k + 1) + 1 = k + 2
    BY <1>3
  <2> QED
    BY <1>7, <1>10, <1>11, <2>1
<1> QED
  BY <1>2, <1>3, <1>4, <1>11, <1>12, <1>13 DEF AfterSlash

LEMMA PrintedLeadsBack ==
  ASSUME WellFormed(dir, file), NEW d \in DOMAIN dir, PlainTo(d)
  PROVE  ramfs_find_dir(Tail(ramfs_pwd(d))) = d
<1>1. DirsTyped(dir) /\ DirsHang(dir) /\ Root \in DOMAIN dir
  BY RootHasNoParent DEF WellFormed
<1>2. PICK p, n : p = Ancestry[d] /\ n = Len(p)
  OBVIOUS
<1>3. Chain(d, p)
  BY <1>2, AncestryIs
<1>4. /\ p \in Seq(DOMAIN dir) /\ n \in Nat /\ DOMAIN p = 1..n
      /\ d = IF n = 0 THEN Root ELSE p[n]
      /\ \A k \in 1..n : dir[p[k]].parent = IF k = 1 THEN Root ELSE p[k - 1]
      /\ \A k \in 1..n : p[k] \in DOMAIN dir
  BY <1>2, <1>3, LenProperties, ElementOfSeq DEF Chain
<1>5. \A k \in 1..n : Plain(dir[p[k]].name) /\ dir[p[k]].name \in Seq(Strings)
  <2>1. \A k \in 1..n : Plain(dir[p[k]].name)
    BY <1>2, <1>4 DEF PlainTo
  <2>2. \A c \in DOMAIN dir : dir[c].name \in Seq(Strings)
    BY <1>1, DirType DEF Directory
  <2> QED
    BY <1>4, <2>1, <2>2
<1>6. PICK parts : parts = [k \in 1..n |-> dir[p[k]].name]
  OBVIOUS
<1>7. /\ parts \in Seq(Seq(Strings)) /\ Len(parts) = n
      /\ \A k \in 1..n : parts[k] = dir[p[k]].name
  <2>1. parts \in [1..n -> Seq(Strings)]
    BY <1>5, <1>6
  <2>2. parts \in Seq(Seq(Strings)) /\ DOMAIN parts = 1..n
    BY <1>4, <2>1, SeqDef
  <2>3. Len(parts) = n
    BY <1>4, <2>2, LenProperties
  <2> QED
    BY <1>6, <2>2, <2>3
<1>8. PICK flat : flat = PathOf(d)
  OBVIOUS
<1>9. flat = FlattenSeq(parts)
  <2>1. flat = FlattenSeq([i \in DOMAIN p |-> dir[p[i]].name])
    BY <1>2, <1>8 DEF PathOf
  <2> QED
    BY <1>4, <1>6, <2>1
<1>10. \A k \in 1..n : parts[k] \in Seq(Strings) /\ Len(parts[k]) = 1 /\ parts[k] # <<"">>
  BY <1>5, <1>7 DEF Plain
<1>11. /\ flat \in Seq(Strings) /\ Len(flat) = n
       /\ \A k \in 1..n : flat[k] = parts[k][1]
  BY <1>7, <1>9, <1>10, FlattenedOnes
<1>12. \A k \in 1..n : dir[p[k]].name = <<flat[k]>> /\ IsToken(flat[k])
  <2> SUFFICES ASSUME NEW k \in 1..n PROVE dir[p[k]].name = <<flat[k]>> /\ IsToken(flat[k])
    OBVIOUS
  <2>1. PICK s : s = parts[k]
    OBVIOUS
  <2>2. s \in Seq(Strings) /\ Len(s) = 1 /\ s # <<"">>
    BY <1>10, <2>1
  <2>3. s = <<s[1]>>
    BY <2>2, OnePart
  <2>4. s[1] # ""
    BY <2>2, <2>3
  <2>5. flat[k] = s[1] /\ s = dir[p[k]].name
    BY <1>7, <1>11, <2>1
  <2> QED
    BY <2>3, <2>4, <2>5 DEF IsToken
<1>13. PICK path : path = Tail(ramfs_pwd(d))
  OBVIOUS
<1>14. Len(path) = n + 1 /\ \A k \in 1..n : path[k + 1] = flat[k]
  <2>1. AfterSlash(path, flat)
    BY <1>8, <1>11, <1>13, PrintedIs
  <2> QED
    BY <1>11, <2>1 DEF AfterSlash
<1>15. Len(path) \in Nat
  BY <1>4, <1>14
<1>16. PICK f : /\ ramfs_find_dir(path) = f[Len(path)]
                /\ f[0] = Root
                /\ \A k \in 1..Len(path) : f[k] = Step(f[k - 1], path[k])
  BY <1>15, FindDirRecursion
<1>17. f[1] = Root
  <2>1. 1 \in 1..Len(path) /\ 1 - 1 = 0
    BY <1>4, <1>14
  <2>2. f[1] = Step(Root, path[1])
    BY <1>16, <2>1
  <2>3. ~IsToken(path[1])
    BY <1>8, <1>11, <1>13, PrintedIs DEF IsToken, AfterSlash
  <2> QED
    BY <2>2, <2>3 DEF Step
<1>18. ASSUME NEW k \in 1..n PROVE f[k + 1] = Step(f[k], flat[k])
  <2>1. k + 1 \in 1..(n + 1) /\ (k + 1) - 1 = k
    BY <1>4
  <2>2. f[k + 1] = Step(f[(k + 1) - 1], path[k + 1])
    BY <1>14, <1>16, <2>1
  <2> QED
    BY <1>14, <2>1, <2>2
<1> DEFINE Bad == {k \in 1..n : f[k + 1] # p[k]}
<1>19. Bad = {}
  <2> SUFFICES ASSUME Bad # {} PROVE FALSE
    OBVIOUS
  <2>1. PICK k \in Bad : \A j \in Bad : k <= j
    <3>1. Bad \in SUBSET Nat
      OBVIOUS
    <3> HIDE DEF Bad
    <3> QED
      BY <3>1, Least
  <2>2. k \in 1..n /\ f[k + 1] # p[k]
    OBVIOUS
  <2>3. f[k] = IF k = 1 THEN Root ELSE p[k - 1]
    <3>1. CASE k = 1
      BY <1>17, <3>1
    <3>2. CASE k # 1
      <4>1. k - 1 \in 1..n /\ ~(k <= k - 1) /\ (k - 1) + 1 = k
        BY <1>4, <2>2, <3>2
      <4>2. k - 1 \notin Bad
        BY <2>1, <4>1
      <4> QED
        BY <3>2, <4>1, <4>2
    <3> QED
      BY <3>1, <3>2
  <2>4. dir[p[k]].parent = f[k]
    BY <1>4, <2>2, <2>3
  <2>5. f[k] \in DOMAIN dir
    <3>1. k # 1 => k - 1 \in 1..n
      BY <1>4, <2>2
    <3> QED
      BY <1>1, <1>4, <2>3, <3>1
  <2>6. Step(f[k], flat[k]) = p[k]
    BY <1>1, <1>4, <1>12, <2>2, <2>4, <2>5, StepFinds
  <2> QED
    BY <1>18, <2>2, <2>6
<1>20. f[n + 1] = d
  <2>1. CASE n = 0
    BY <1>4, <1>17, <2>1
  <2>2. CASE n # 0
    <3>1. n \in 1..n
      BY <1>4, <2>2
    <3>2. f[n + 1] = p[n]
      BY <1>19, <3>1
    <3> QED
      BY <1>4, <2>2, <3>2
  <2> QED
    BY <2>1, <2>2
<1> QED
  BY <1>13, <1>14, <1>16, <1>20

\* PwdLeadsBack holds of every reachable state: the parent pointers that pwd
\* follows up and the arrays that cd follows down describe one tree
\* (ramfs_executables.c:29-39, ramfs.c:175-193).
THEOREM PrintedPathsLeadBack == Spec => []PwdLeadsBack
<1>1. RamFSIInv => PwdLeadsBack
  BY PrintedLeadsBack DEF PwdLeadsBack, RamFSIInv, TreeIInv
<1> QED
  BY <1>1, RamFSInvariance, PTL
=============================================================================
