-------------------------- MODULE PreMetadataProofs --------------------------
(***************************************************************************)
(* Theorems about PreMetadata, for any number of ids, any sizes of their   *)
(* chunks and any limits.                                                  *)
(***************************************************************************)
EXTENDS PreMetadata, FiniteSetTheorems, SequenceTheorems, WellFoundedInduction, TLAPS

-----------------------------------------------------------------------------
(* Numbers. *)

LEMMA Least ==
  ASSUME NEW S \in SUBSET Nat, S # {}
  PROVE  \E m \in S : \A n \in S : m <= n
  <1>. DEFINE R == OpToRel(<, Nat)
  <1>1. \A i \in Nat, j \in Nat : i < j => <<i, j>> \in R
    BY DEF OpToRel
  <1>2. PICK m \in S : \A n \in S : ~(<<n, m>> \in R)
    BY WFMin, NatLessThanWellFounded
  <1>. HIDE DEF R
  <1>3. \A n \in S : ~(n < m)
    <2>1. TAKE n \in S
    <2>2. n \in Nat /\ m \in Nat
      OBVIOUS
    <2>3. n < m => <<n, m>> \in R
      BY <1>1, <2>2, Zenon
    <2>. QED
      BY <1>2, <2>3, Zenon
  <1>. QED
    BY <1>3

LEMMA MinIsLeast ==
  ASSUME NEW S \in SUBSET Nat, S # {}
  PROVE  Min(S) \in S /\ \A n \in S : Min(S) <= n
  BY Least DEF Min

LEMMA MaxOfTwo ==
  ASSUME NEW a \in Int, NEW b \in Int
  PROVE  Max({a, b}) = IF a >= b THEN a ELSE b
  <1>1. \E x \in {a, b} : \A y \in {a, b} : x >= y
    OBVIOUS
  <1>. QED
    BY <1>1 DEF Max

\* Among finite sets that are bad there is one that gets good with every element it loses.
LEMMA Smallest ==
  ASSUME NEW Bad, \A S \in Bad : IsFiniteSet(S), Bad # {}
  PROVE  \E S \in Bad : \A x \in S : S \ {x} \notin Bad
  <1>. DEFINE N == {Cardinality(S) : S \in Bad}
  <1>1. N \in SUBSET Nat /\ N # {}
    BY FS_CardinalityType
  <1>2. PICK m \in N : \A n \in N : m <= n
    BY <1>1, Least
  <1>3. PICK S \in Bad : m = Cardinality(S)
    OBVIOUS
  <1>4. ASSUME NEW x \in S PROVE S \ {x} \notin Bad
    <2>1. m \in Nat /\ Cardinality(S \ {x}) = m - 1
      BY <1>3, FS_RemoveElement, FS_CardinalityType
    <2>. QED
      BY <1>2, <2>1
  <1>. QED
    BY <1>4

-----------------------------------------------------------------------------
(* Sums. *)

Sum(f, S) == MapThenSumSet(LAMBDA x : f[x], S)
Pick(S) == CHOOSE x \in S : TRUE

\* The recursive definition of a sum, restricted to sets of at most n elements.
IsSum(f, U, n, g) ==
  g = [s \in {s \in SUBSET U : Cardinality(s) <= n} |->
         IF s = {} THEN 0 ELSE f[Pick(s)] + g[s \ {Pick(s)}]]

LEMMA PickSmaller ==
  ASSUME NEW S, IsFiniteSet(S), S # {}
  PROVE  /\ Pick(S) \in S /\ IsFiniteSet(S \ {Pick(S)})
         /\ Cardinality(S) \in Nat /\ Cardinality(S \ {Pick(S)}) = Cardinality(S) - 1
  BY FS_RemoveElement, FS_CardinalityType DEF Pick

LEMMA SumExists ==
  ASSUME NEW U, IsFiniteSet(U), NEW f, NEW n \in Nat
  PROVE  \E g : IsSum(f, U, n, g)
  <1>. DEFINE Bad == {m \in Nat : ~\E g : IsSum(f, U, m, g)}
              Small(m) == {s \in SUBSET U : Cardinality(s) <= m}
  <1>. SUFFICES ASSUME Bad # {} PROVE FALSE
    OBVIOUS
  <1>1. PICK m \in Bad : \A k \in Bad : m <= k
    BY Least
  <1>2. \A s \in SUBSET U : IsFiniteSet(s) /\ Cardinality(s) \in Nat
    BY FS_Subset, FS_CardinalityType
  <1>3. m # 0
    <2>1. SUFFICES ASSUME m = 0 PROVE FALSE
      OBVIOUS
    <2>2. \A s \in Small(0) : s = {}
      BY <1>2, FS_EmptySet
    <2>. DEFINE g == [s \in Small(0) |-> 0]
    <2>3. IsSum(f, U, 0, g)
      BY <2>2 DEF IsSum
    <2>. QED
      BY <1>1, <2>1, <2>3
  <1>4. PICK h : IsSum(f, U, m - 1, h)
    BY <1>1, <1>3
  <1>. DEFINE e(s) == IF s = {} THEN 0 ELSE f[Pick(s)] + h[s \ {Pick(s)}]
              g == [s \in Small(m) |-> e(s)]
  <1>5. \A s \in Small(m - 1) : s \in Small(m) /\ h[s] = e(s)
    <2>1. TAKE s \in Small(m - 1)
    <2>2. Cardinality(s) \in Nat /\ Cardinality(s) <= m - 1 /\ s \in SUBSET U
      BY <1>2
    <2>3. s \in Small(m)
      BY <1>1, <2>2
    <2>4. h = [z \in Small(m - 1) |-> e(z)]
      BY <1>4 DEF IsSum
    <2>5. h[s] = e(s)
      <3>. HIDE DEF e, Small
      <3>. QED
        BY <2>1, <2>4
    <2>. QED
      BY <2>3, <2>5
  <1>6. ASSUME NEW s \in Small(m), s # {}
        PROVE  g[s \ {Pick(s)}] = h[s \ {Pick(s)}]
    <2>1. s \ {Pick(s)} \in Small(m - 1)
      BY <1>1, <1>2, <1>6, PickSmaller
    <2>. QED
      BY <1>5, <2>1
  <1>7. IsSum(f, U, m, g)
    BY <1>6 DEF IsSum
  <1>. QED
    BY <1>1, <1>7

Sums(f, U, g) == g = [s \in SUBSET U |-> IF s = {} THEN 0 ELSE f[Pick(s)] + g[s \ {Pick(s)}]]

\* The recursive function inside a sum.
LEMMA SumUnfolds ==
  ASSUME NEW U, IsFiniteSet(U), NEW f
  PROVE  \E g : Sum(f, U) = g[U] /\ Sums(f, U, g)
  <1>1. Cardinality(U) \in Nat /\ \A s \in SUBSET U : Cardinality(s) <= Cardinality(U)
    BY FS_Subset, FS_CardinalityType
  <1>2. {s \in SUBSET U : Cardinality(s) <= Cardinality(U)} = SUBSET U
    BY <1>1
  <1>3. \E g : Sums(f, U, g)
    <2>1. PICK g : IsSum(f, U, Cardinality(U), g)
      BY <1>1, SumExists, Zenon
    <2>2. g = [s \in {s \in SUBSET U : Cardinality(s) <= Cardinality(U)} |->
                 IF s = {} THEN 0 ELSE f[Pick(s)] + g[s \ {Pick(s)}]]
      BY <2>1, Zenon DEF IsSum
    <2>3. Sums(f, U, g)
      <3>. DEFINE D == {s \in SUBSET U : Cardinality(s) <= Cardinality(U)}
      <3>1. D = SUBSET U
        BY <1>2
      <3>. HIDE DEF D
      <3>. QED
        BY <2>2, <3>1 DEF D, Sums
    <2>. QED
      BY <2>3, Zenon
  <1>4. Sum(f, U) = (CHOOSE g : Sums(f, U, g))[U]
    BY DEF Sum, MapThenSumSet, MapThenFoldSet, Pick, Sums
  <1>. QED
    BY <1>3, <1>4

LEMMA SumsAgree ==
  ASSUME NEW U, IsFiniteSet(U), NEW f, NEW g, Sums(f, U, g),
         NEW V, NEW e, NEW h, Sums(e, V, h),
         NEW S \in SUBSET U, S \in SUBSET V, \A x \in S : f[x] = e[x]
  PROVE  g[S] = h[S]
  <1>. DEFINE Bad == {s \in SUBSET S : g[s] # h[s]}
  <1>. SUFFICES ASSUME Bad # {} PROVE FALSE
    OBVIOUS
  <1>1. \A s \in SUBSET S : IsFiniteSet(s)
    BY FS_Subset
  <1>2. PICK s \in Bad : \A x \in s : s \ {x} \notin Bad
    BY <1>1, Smallest
  <1>3. /\ g[s] = IF s = {} THEN 0 ELSE f[Pick(s)] + g[s \ {Pick(s)}]
        /\ h[s] = IF s = {} THEN 0 ELSE e[Pick(s)] + h[s \ {Pick(s)}]
    BY DEF Sums
  <1>4. s # {}
    BY <1>3
  <1>5. s \ {Pick(s)} \notin Bad
    BY <1>1, <1>2, <1>4, PickSmaller
  <1>6. g[s \ {Pick(s)}] = h[s \ {Pick(s)}] /\ f[Pick(s)] = e[Pick(s)]
    BY <1>1, <1>4, <1>5, PickSmaller
  <1>. QED
    BY <1>3, <1>6

LEMMA SumSame ==
  ASSUME NEW U, IsFiniteSet(U), NEW f, NEW e, \A x \in U : f[x] = e[x]
  PROVE  Sum(f, U) = Sum(e, U)
  <1>1. PICK g : Sum(f, U) = g[U] /\ Sums(f, U, g)
    BY SumUnfolds
  <1>2. PICK h : Sum(e, U) = h[U] /\ Sums(e, U, h)
    BY SumUnfolds
  <1>. QED
    BY <1>1, <1>2, SumsAgree

LEMMA SumEmpty ==
  ASSUME NEW f
  PROVE  Sum(f, {}) = 0
  <1>1. IsFiniteSet({})
    BY FS_EmptySet
  <1>2. PICK g : Sum(f, {}) = g[{}] /\ Sums(f, {}, g)
    BY <1>1, SumUnfolds
  <1>. QED
    BY <1>2 DEF Sums

LEMMA SumPick ==
  ASSUME NEW U, IsFiniteSet(U), U # {}, NEW f
  PROVE  Sum(f, U) = f[Pick(U)] + Sum(f, U \ {Pick(U)})
  <1>. DEFINE V == U \ {Pick(U)}
  <1>1. IsFiniteSet(V)
    BY PickSmaller
  <1>2. PICK g : Sum(f, U) = g[U] /\ Sums(f, U, g)
    BY SumUnfolds
  <1>3. PICK h : Sum(f, V) = h[V] /\ Sums(f, V, h)
    BY <1>1, SumUnfolds
  <1>4. g[V] = h[V]
    BY <1>2, <1>3, SumsAgree
  <1>5. g[U] = f[Pick(U)] + g[V]
    BY <1>2 DEF Sums
  <1>. QED
    BY <1>2, <1>3, <1>4, <1>5

LEMMA SumNatural ==
  ASSUME NEW U, IsFiniteSet(U), NEW f, \A x \in U : f[x] \in Nat
  PROVE  Sum(f, U) \in Nat
  <1>. DEFINE Bad == {s \in SUBSET U : Sum(f, s) \notin Nat}
  <1>. SUFFICES ASSUME Bad # {} PROVE FALSE
    OBVIOUS
  <1>1. \A s \in SUBSET U : IsFiniteSet(s)
    BY FS_Subset
  <1>2. PICK s \in Bad : \A x \in s : s \ {x} \notin Bad
    BY <1>1, Smallest
  <1>3. s # {}
    BY SumEmpty
  <1>4. s \ {Pick(s)} \notin Bad /\ Pick(s) \in s
    BY <1>1, <1>2, <1>3, PickSmaller
  <1>5. Sum(f, s \ {Pick(s)}) \in Nat /\ f[Pick(s)] \in Nat
    BY <1>4
  <1>. QED
    BY <1>1, <1>3, <1>5, SumPick

LEMMA SumZero ==
  ASSUME NEW U, IsFiniteSet(U), NEW f, \A x \in U : f[x] = 0
  PROVE  Sum(f, U) = 0
  <1>. DEFINE Bad == {s \in SUBSET U : Sum(f, s) # 0}
  <1>. SUFFICES ASSUME Bad # {} PROVE FALSE
    OBVIOUS
  <1>1. \A s \in SUBSET U : IsFiniteSet(s)
    BY FS_Subset
  <1>2. PICK s \in Bad : \A x \in s : s \ {x} \notin Bad
    BY <1>1, Smallest
  <1>3. s # {}
    BY SumEmpty
  <1>4. s \ {Pick(s)} \notin Bad /\ Pick(s) \in s
    BY <1>1, <1>2, <1>3, PickSmaller
  <1>5. Sum(f, s \ {Pick(s)}) = 0 /\ f[Pick(s)] = 0
    BY <1>4
  <1>6. Sum(f, s) = f[Pick(s)] + Sum(f, s \ {Pick(s)})
    BY <1>1, <1>3, SumPick
  <1>7. Sum(f, s) = 0
    BY <1>5, <1>6
  <1>. QED
    BY <1>7

\* A sum does not depend on the order of the summands.
LEMMA SumSplit ==
  ASSUME NEW U, IsFiniteSet(U), NEW f, \A x \in U : f[x] \in Nat, NEW y \in U
  PROVE  Sum(f, U) = f[y] + Sum(f, U \ {y})
  <1>. DEFINE Bad == {s \in SUBSET U : \E z \in s : Sum(f, s) # f[z] + Sum(f, s \ {z})}
  <1>. SUFFICES ASSUME Bad # {} PROVE FALSE
    OBVIOUS
  <1>1. \A s \in SUBSET U : IsFiniteSet(s) /\ Sum(f, s) \in Nat
    BY FS_Subset, SumNatural
  <1>2. PICK s \in Bad : \A x \in s : s \ {x} \notin Bad
    BY <1>1, Smallest
  <1>3. PICK z \in s : Sum(f, s) # f[z] + Sum(f, s \ {z})
    OBVIOUS
  <1>. DEFINE p == Pick(s)
              r == s \ {p}
              t == s \ {z}
              both == s \ {p, z}
  <1>4. /\ p \in s /\ Sum(f, s) = f[p] + Sum(f, r)
    BY <1>1, PickSmaller, SumPick
  <1>5. p # z
    BY <1>3, <1>4
  <1>6. r \in SUBSET U /\ t \in SUBSET U /\ both \in SUBSET U
    OBVIOUS
  <1>7. r \notin Bad /\ t \notin Bad
    BY <1>2, <1>4
  <1>8. z \in r /\ r \ {z} = both /\ p \in t /\ t \ {p} = both
    BY <1>4, <1>5
  <1>9. Sum(f, r) = f[z] + Sum(f, both) /\ Sum(f, t) = f[p] + Sum(f, both)
    BY <1>6, <1>7, <1>8
  <1>10. Sum(f, both) \in Nat /\ f[p] \in Nat /\ f[z] \in Nat
    BY <1>1, <1>4, <1>6
  <1>11. Sum(f, s) = f[z] + Sum(f, t)
    BY <1>4, <1>9, <1>10
  <1>. QED
    BY <1>3, <1>11

\* Changing one summand changes the sum by as much.
LEMMA SumChanged ==
  ASSUME NEW U, IsFiniteSet(U), NEW f \in [U -> Nat], NEW e \in [U -> Nat], NEW y \in U,
         \A x \in U \ {y} : f[x] = e[x]
  PROVE  Sum(e, U) = Sum(f, U) - f[y] + e[y] /\ f[y] <= Sum(f, U)
  <1>1. IsFiniteSet(U \ {y})
    BY FS_RemoveElement
  <1>2. Sum(f, U \ {y}) = Sum(e, U \ {y}) /\ Sum(f, U \ {y}) \in Nat
    BY <1>1, SumSame, SumNatural
  <1>3. Sum(f, U) = f[y] + Sum(f, U \ {y}) /\ Sum(e, U) = e[y] + Sum(e, U \ {y})
    BY SumSplit
  <1>. QED
    BY <1>2, <1>3

-----------------------------------------------------------------------------
(* Entries. *)

LEMMA Parameters ==
  /\ MaxBytes \in Nat /\ MaxBytes > 0 /\ MaxPerTransfer \in Nat /\ MaxPerTransfer > 0
  /\ MaxTransfers \in Nat /\ MaxTransfers > 0 /\ TotalBound \in Nat
  /\ IsFiniteSet(Tid) /\ IsFiniteSet(Chunk) /\ Chunk \in SUBSET Nat /\ NoTid \notin Tid
  /\ Size \in [Tid -> [Chunk -> Nat]]
  BY BufferAssumption

LEMMA ChunksFinite ==
  ASSUME NEW S \in SUBSET Chunk
  PROVE  IsFiniteSet(S)
  BY Parameters, FS_Subset

\* In a sequence without repetitions an element has one place.
LEMMA RemoveFirstOnce ==
  ASSUME NEW s \in Seq(Tid), IsInjective(s), NEW t \in ToSet(s)
  PROVE  \E i \in 1 .. Len(s) :
           /\ s[i] = t
           /\ RemoveFirst(s, t) \in Seq(Tid) /\ Len(RemoveFirst(s, t)) = Len(s) - 1
           /\ \A j \in 1 .. Len(s) - 1 :
                RemoveFirst(s, t)[j] = IF j < i THEN s[j] ELSE s[j + 1]
  <1>. DEFINE I == {i \in 1 .. Len(s) : s[i] = t}
  <1>1. PICK i \in 1 .. Len(s) : s[i] = t
    BY DEF ToSet
  <1>2. I = {i}
    BY <1>1 DEF IsInjective
  <1>3. Min(I) = i
    <2>1. I \in SUBSET Nat /\ I # {}
      BY <1>2
    <2>. QED
      BY <1>2, <2>1, MinIsLeast
  <1>4. RemoveFirst(s, t) = SubSeq(s, 1, i - 1) \o SubSeq(s, i + 1, Len(s))
    <2>1. SelectInSeq(s, LAMBDA v : v = t) = i
      BY <1>2, <1>3 DEF SelectInSeq
    <2>. QED
      BY <1>1, <2>1 DEF RemoveFirst, RemoveAt
  <1>. DEFINE x == SubSeq(s, 1, i - 1)
              y == SubSeq(s, i + 1, Len(s))
  <1>5. /\ x \in Seq(Tid) /\ Len(x) = i - 1 /\ \A j \in 1 .. i - 1 : x[j] = s[j]
        /\ y \in Seq(Tid) /\ Len(y) = Len(s) - i /\ \A j \in 1 .. Len(s) - i : y[j] = s[j + i]
    OBVIOUS
  <1>. HIDE DEF x, y
  <1>6. /\ x \o y \in Seq(Tid) /\ Len(x \o y) = Len(s) - 1
        /\ \A j \in 1 .. Len(s) - 1 : (x \o y)[j] = IF j < i THEN x[j] ELSE y[j - (i - 1)]
    <2>1. /\ x \o y \in Seq(Tid) /\ Len(x \o y) = Len(x) + Len(y)
          /\ \A j \in 1 .. Len(x) + Len(y) :
               (x \o y)[j] = IF j <= Len(x) THEN x[j] ELSE y[j - Len(x)]
      BY <1>5, ConcatProperties
    <2>2. Len(x) = i - 1 /\ Len(x) + Len(y) = Len(s) - 1
      BY <1>5
    <2>3. \A j \in 1 .. Len(s) - 1 : j <= i - 1 <=> j < i
      OBVIOUS
    <2>. QED
      BY <2>1, <2>2, <2>3
  <1>7. ASSUME NEW j \in 1 .. Len(s) - 1
        PROVE  (x \o y)[j] = IF j < i THEN s[j] ELSE s[j + 1]
    <2>1. CASE j < i
      BY <1>5, <1>6, <2>1
    <2>2. CASE ~(j < i)
      <3>1. j - (i - 1) \in 1 .. Len(s) - i /\ j - (i - 1) + i = j + 1
        BY <2>2
      <3>. QED
        BY <1>5, <1>6, <2>2, <3>1
    <2>. QED
      BY <2>1, <2>2
  <1>8. RemoveFirst(s, t) = x \o y
    BY <1>4 DEF x, y
  <1>. QED
    BY <1>1, <1>6, <1>7, <1>8

LEMMA RemoveFirstFacts ==
  ASSUME NEW s \in Seq(Tid), IsInjective(s), NEW t \in ToSet(s)
  PROVE  /\ RemoveFirst(s, t) \in Seq(Tid) /\ IsInjective(RemoveFirst(s, t))
         /\ Len(RemoveFirst(s, t)) = Len(s) - 1
         /\ ToSet(RemoveFirst(s, t)) = ToSet(s) \ {t}
         /\ s[1] = t => \A j \in 1 .. Len(s) - 1 : RemoveFirst(s, t)[j] = s[j + 1]
  <1>. DEFINE r == RemoveFirst(s, t)
  <1>1. PICK i \in 1 .. Len(s) :
           /\ s[i] = t /\ r \in Seq(Tid) /\ Len(r) = Len(s) - 1
           /\ \A j \in 1 .. Len(s) - 1 : r[j] = IF j < i THEN s[j] ELSE s[j + 1]
    BY RemoveFirstOnce
  <1>. HIDE DEF r
  <1>. DEFINE old(j) == IF j < i THEN j ELSE j + 1
  <1>2. \A j \in DOMAIN r : old(j) \in DOMAIN s /\ r[j] = s[old(j)] /\ old(j) # i
    BY <1>1
  <1>3. \A j, k \in DOMAIN r : old(j) = old(k) => j = k
    BY <1>1
  <1>4. IsInjective(r)
    <2>. HIDE DEF old
    <2>. QED
      BY <1>2, <1>3 DEF IsInjective
  <1>5. ToSet(r) \subseteq ToSet(s) \ {t}
    <2>1. ASSUME NEW j \in DOMAIN r PROVE r[j] \in ToSet(s) /\ r[j] # t
      <3>. HIDE DEF old
      <3>. QED
        BY <1>1, <1>2 DEF IsInjective, ToSet
    <2>. QED
      BY <2>1 DEF ToSet
  <1>6. ASSUME NEW u \in ToSet(s) \ {t} PROVE u \in ToSet(r)
    <2>1. PICK k \in 1 .. Len(s) : s[k] = u
      BY DEF ToSet
    <2>2. k # i
      BY <1>1, <2>1
    <2>3. CASE k < i
      <3>1. k \in 1 .. Len(s) - 1
        BY <2>3
      <3>2. r[k] = u /\ k \in DOMAIN r
        BY <1>1, <2>1, <2>3, <3>1
      <3>. QED
        BY <3>2 DEF ToSet
    <2>4. CASE k > i
      <3>1. k - 1 \in 1 .. Len(s) - 1 /\ ~(k - 1 < i) /\ k - 1 + 1 = k
        BY <2>4
      <3>2. r[k - 1] = u /\ k - 1 \in DOMAIN r
        BY <1>1, <2>1, <3>1
      <3>. QED
        BY <3>2 DEF ToSet
    <2>. QED
      BY <2>2, <2>3, <2>4
  <1>7. s[1] = t => \A j \in 1 .. Len(s) - 1 : r[j] = s[j + 1]
    <2>1. SUFFICES ASSUME s[1] = t PROVE i = 1
      BY <1>1
    <2>. QED
      BY <1>1, <2>1 DEF IsInjective
  <1>. QED
    BY <1>1, <1>4, <1>5, <1>6, <1>7 DEF r

LEMMA AppendOnce ==
  ASSUME NEW s \in Seq(Tid), IsInjective(s), NEW t \in Tid, t \notin ToSet(s)
  PROVE  /\ IsInjective(Append(s, t)) /\ Len(Append(s, t)) = Len(s) + 1
         /\ ToSet(Append(s, t)) = ToSet(s) \cup {t}
  <1>. DEFINE r == Append(s, t)
  <1>1. /\ DOMAIN r = 1 .. Len(s) + 1 /\ Len(r) = Len(s) + 1 /\ r[Len(s) + 1] = t
        /\ \A i \in DOMAIN s : i \in DOMAIN r /\ r[i] = s[i]
        /\ \A i \in DOMAIN r : i \in DOMAIN s \/ i = Len(s) + 1
        /\ Len(s) + 1 \in DOMAIN r
    OBVIOUS
  <1>2. \A i \in DOMAIN s : s[i] # t
    BY DEF ToSet
  <1>. HIDE DEF r
  <1>3. IsInjective(r)
    BY <1>1, <1>2 DEF IsInjective
  <1>4. ToSet(r) = ToSet(s) \cup {t}
    BY <1>1 DEF ToSet
  <1>. QED
    BY <1>1, <1>3, <1>4 DEF r

\* The recursive definition of the evictions.
LEMMA EvictedUnfolds ==
  ASSUME NEW b, Len(b.recent) \in Nat
  PROVE  /\ Evicted(b)[0] = b
         /\ \A k \in 1 .. Len(b.recent) : Evicted(b)[k] = Without(Evicted(b)[k - 1], b.recent[k])
  <1>. DEFINE n == Len(b.recent)
              Is(m, f) == f = [k \in 0 .. m |-> IF k = 0 THEN b ELSE Without(f[k - 1], b.recent[k])]
              Bad == {m \in 0 .. n : ~\E f : Is(m, f)}
  <1>1. Bad = {}
    <2>1. SUFFICES ASSUME Bad # {} PROVE FALSE
      OBVIOUS
    <2>2. PICK m \in Bad : \A k \in Bad : m <= k
      <3>1. Bad \in SUBSET Nat
        OBVIOUS
      <3>. QED
        BY <2>1, <3>1, Least
    <2>3. m # 0
      <3>1. Is(0, [k \in 0 .. 0 |-> b])
        OBVIOUS
      <3>. QED
        BY <2>2, <3>1
    <2>4. PICK h : Is(m - 1, h)
      <3>1. m - 1 \in 0 .. n /\ ~(m <= m - 1)
        BY <2>3
      <3>2. m - 1 \notin Bad
        BY <2>2, <3>1
      <3>. QED
        BY <3>1, <3>2
    <2>. DEFINE e(k) == IF k = 0 THEN b ELSE Without(h[k - 1], b.recent[k])
                f == [k \in 0 .. m |-> e(k)]
    <2>5. \A k \in 0 .. m - 1 : h[k] = e(k)
      BY <2>4
    <2>6. \A k \in 0 .. m : k # 0 => f[k - 1] = h[k - 1]
      BY <2>2, <2>5
    <2>7. Is(m, f)
      BY <2>6
    <2>. QED
      BY <2>2, <2>7
  <1>2. \E f : Is(n, f)
    BY <1>1
  <1>3. Evicted(b) = CHOOSE f : Is(n, f)
    BY DEF Evicted
  <1>4. Is(n, Evicted(b))
    BY <1>2, <1>3
  <1>. QED
    BY <1>4

-----------------------------------------------------------------------------
(* Buffers. *)

Buffers ==
  [recent : Seq(Tid), chunks : [Tid -> SUBSET Chunk], size : [Tid -> Nat], total : Nat]

\* What holds of every buffer: the accounts and the limits.
Sound(b) ==
  /\ b \in Buffers /\ IsInjective(b.recent)
  /\ \A t \in Tid : b.size[t] = Sum(Size[t], b.chunks[t]) /\ b.size[t] <= MaxPerTransfer
  /\ \A t \in Tid : t \notin Pending(b) => b.chunks[t] = {}
  /\ Sum(b.size, Tid) <= b.total /\ Sum(b.size, Tid) <= MaxBytes
  /\ Len(b.recent) <= MaxTransfers

LEMMA RecentField ==
  ASSUME NEW e \in Buffers, NEW s \in Seq(Tid), NEW x, x = [e EXCEPT !.recent = s]
  PROVE  /\ x \in Buffers /\ x.recent = s /\ x.chunks = e.chunks /\ x.size = e.size
         /\ x.total = e.total
  BY DEF Buffers

LEMMA TotalField ==
  ASSUME NEW e \in Buffers, NEW n \in Nat, NEW x, x = [e EXCEPT !.total = n]
  PROVE  /\ x \in Buffers /\ x.recent = e.recent /\ x.chunks = e.chunks /\ x.size = e.size
         /\ x.total = n
  BY DEF Buffers

LEMMA SizesTyped ==
  ASSUME NEW t \in Tid, NEW S \in SUBSET Chunk
  PROVE  Sum(Size[t], S) \in Nat
  BY Parameters, ChunksFinite, SumNatural

LEMMA Charged ==
  ASSUME NEW t \in Tid, NEW S \in SUBSET Chunk, NEW c \in Chunk, c \notin S
  PROVE  Sum(Size[t], S \cup {c}) = Sum(Size[t], S) + Size[t][c]
  <1>1. IsFiniteSet(S \cup {c}) /\ \A x \in S \cup {c} : Size[t][x] \in Nat
    BY Parameters, ChunksFinite
  <1>2. (S \cup {c}) \ {c} = S
    OBVIOUS
  <1>3. Sum(Size[t], S \cup {c}) = Size[t][c] + Sum(Size[t], S)
    BY <1>1, <1>2, SumSplit
  <1>. QED
    BY <1>1, <1>3, SizesTyped

LEMMA HeldTyped ==
  ASSUME NEW f \in [Tid -> Nat]
  PROVE  Sum(f, Tid) \in Nat
  BY Parameters, SumNatural

\* Taking an entry out keeps the accounts and makes room.
LEMMA WithoutSound ==
  ASSUME NEW b, Sound(b), NEW t \in Pending(b)
  PROVE  /\ Sound(Without(b, t)) /\ Without(b, t).total <= b.total
         /\ Without(b, t).recent = RemoveFirst(b.recent, t)
         /\ \A u \in Tid \ {t} : /\ Without(b, t).chunks[u] = b.chunks[u]
                                 /\ Without(b, t).size[u] = b.size[u]
  <1>. DEFINE e == Without(b, t)
  <1>1. /\ b \in Buffers /\ IsInjective(b.recent) /\ b.recent \in Seq(Tid) /\ t \in ToSet(b.recent)
        /\ b.size \in [Tid -> Nat] /\ b.chunks \in [Tid -> SUBSET Chunk] /\ b.total \in Nat
    BY DEF Sound, Buffers, Pending
  <1>2. t \in Tid
    BY <1>1 DEF ToSet
  <1>3. /\ e.recent = RemoveFirst(b.recent, t)
        /\ e.chunks = [b.chunks EXCEPT ![t] = {}] /\ e.size = [b.size EXCEPT ![t] = 0]
        /\ e.total = Max({0, b.total - b.size[t]})
        /\ e = [recent |-> e.recent, chunks |-> e.chunks, size |-> e.size, total |-> e.total]
    BY DEF Without
  <1>. HIDE DEF e
  <1>4. /\ e.recent \in Seq(Tid) /\ IsInjective(e.recent) /\ Len(e.recent) = Len(b.recent) - 1
        /\ ToSet(e.recent) = ToSet(b.recent) \ {t}
    BY <1>1, <1>3, RemoveFirstFacts
  <1>5. /\ Sum(e.size, Tid) = Sum(b.size, Tid) - b.size[t] /\ b.size[t] <= Sum(b.size, Tid)
        /\ Sum(b.size, Tid) \in Nat /\ b.size[t] \in Nat
    <2>1. e.size \in [Tid -> Nat] /\ e.size[t] = 0 /\ \A u \in Tid \ {t} : b.size[u] = e.size[u]
      BY <1>1, <1>2, <1>3
    <2>2. Sum(e.size, Tid) = Sum(b.size, Tid) - b.size[t] + e.size[t] /\ b.size[t] <= Sum(b.size, Tid)
      <3>1. IsFiniteSet(Tid) /\ b.size \in [Tid -> Nat]
        BY <1>1, Parameters
      <3>. QED
        BY <1>2, <2>1, <3>1, SumChanged
    <2>. QED
      BY <1>1, <1>2, <2>1, <2>2, HeldTyped
  <1>6. e.total = b.total - b.size[t] /\ e.total \in Nat /\ e.total <= b.total
    <2>1. b.size[t] <= b.total
      BY <1>1, <1>5 DEF Sound
    <2>2. PICK d : d = b.total - b.size[t]
      OBVIOUS
    <2>3. d \in Nat /\ d <= b.total
      BY <1>1, <1>5, <2>1, <2>2
    <2>4. Max({0, d}) = d
      BY <2>3, MaxOfTwo
    <2>. QED
      BY <1>3, <2>2, <2>3, <2>4
  <1>7. e \in Buffers
    <2>1. e.chunks \in [Tid -> SUBSET Chunk] /\ e.size \in [Tid -> Nat]
      BY <1>1, <1>2, <1>3
    <2>. QED
      BY <1>3, <1>4, <1>6, <2>1 DEF Buffers
  <1>8. ASSUME NEW u \in Tid
        PROVE  /\ e.size[u] = Sum(Size[u], e.chunks[u]) /\ e.size[u] <= MaxPerTransfer
               /\ u \notin ToSet(e.recent) => e.chunks[u] = {}
    <2>1. CASE u = t
      BY <1>1, <1>2, <1>3, <2>1, SumEmpty, Parameters
    <2>2. CASE u # t
      BY <1>1, <1>2, <1>3, <1>4, <2>2 DEF Sound, Pending
    <2>. QED
      BY <2>1, <2>2
  <1>9. /\ Sum(e.size, Tid) <= e.total /\ Sum(e.size, Tid) <= MaxBytes
        /\ Len(e.recent) <= MaxTransfers
    <2>1. /\ Sum(b.size, Tid) <= b.total /\ Sum(b.size, Tid) <= MaxBytes
          /\ Len(b.recent) <= MaxTransfers
      BY DEF Sound
    <2>2. Sum(e.size, Tid) <= e.total
      <3>. HIDE DEF Sum
      <3>. QED
        BY <1>1, <1>5, <1>6, <2>1
    <2>3. Sum(e.size, Tid) <= MaxBytes
      <3>. HIDE DEF Sum
      <3>. QED
        BY <1>5, <2>1, Parameters
    <2>. QED
      BY <1>1, <1>4, <2>1, <2>2, <2>3, Parameters
  <1>10. Sound(e)
    BY <1>4, <1>7, <1>8, <1>9 DEF Sound, Pending
  <1>. QED
    BY <1>1, <1>2, <1>3, <1>6, <1>10 DEF e

\* After k evictions the k least recent entries are gone and the others are as they were.
LEMMA EvictedSound ==
  ASSUME NEW b, Sound(b), NEW k \in 0 .. Len(b.recent)
  PROVE  /\ Sound(Evicted(b)[k]) /\ Evicted(b)[k].total <= b.total
         /\ Len(Evicted(b)[k].recent) = Len(b.recent) - k
         /\ Pending(Evicted(b)[k]) \subseteq Pending(b)
         /\ \A t \in Pending(Evicted(b)[k]) : /\ Evicted(b)[k].chunks[t] = b.chunks[t]
                                              /\ Evicted(b)[k].size[t] = b.size[t]
  <1>. DEFINE n == Len(b.recent)
              Good(i, e) ==
                /\ Sound(e) /\ e.total <= b.total
                /\ Len(e.recent) = n - i /\ \A j \in 1 .. n - i : e.recent[j] = b.recent[j + i]
                /\ \A t \in Pending(e) : e.chunks[t] = b.chunks[t] /\ e.size[t] = b.size[t]
              Bad == {i \in 0 .. n : ~Good(i, Evicted(b)[i])}
  <1>1. n \in Nat /\ b.recent \in Seq(Tid) /\ b.total \in Nat
    BY DEF Sound, Buffers
  <1>2. /\ Evicted(b)[0] = b
        /\ \A i \in 1 .. n : Evicted(b)[i] = Without(Evicted(b)[i - 1], b.recent[i])
    BY <1>1, EvictedUnfolds
  <1>3. Good(0, b)
    BY <1>1
  <1>4. ASSUME NEW i \in 1 .. n, NEW e, Good(i - 1, e)
        PROVE  Good(i, Without(e, b.recent[i]))
    <2>. DEFINE t == b.recent[i]
                r == RemoveFirst(e.recent, t)
    <2>1. /\ e.recent \in Seq(Tid) /\ IsInjective(e.recent) /\ e.total \in Nat
          /\ Len(e.recent) = n - (i - 1) /\ 1 \in DOMAIN e.recent /\ e.recent[1] = t
      <3>1. 1 \in 1 .. n - (i - 1) /\ 1 + (i - 1) = i
        BY <1>1
      <3>2. e.recent[1] = b.recent[1 + (i - 1)] /\ Len(e.recent) = n - (i - 1)
        BY <1>4, <3>1
      <3>. QED
        BY <1>4, <3>1, <3>2 DEF Sound, Buffers
    <2>2. t \in Pending(e) /\ Pending(e) \subseteq Tid
      BY <2>1 DEF Pending, ToSet
    <2>3. /\ Sound(Without(e, t)) /\ Without(e, t).total <= e.total /\ Without(e, t).recent = r
          /\ Without(e, t).total \in Nat
          /\ \A u \in Tid \ {t} : /\ Without(e, t).chunks[u] = e.chunks[u]
                                  /\ Without(e, t).size[u] = e.size[u]
      <3>1. Sound(e)
        BY <1>4
      <3>2. /\ Sound(Without(e, t)) /\ Without(e, t).total <= e.total /\ Without(e, t).recent = r
            /\ \A u \in Tid \ {t} : /\ Without(e, t).chunks[u] = e.chunks[u]
                                    /\ Without(e, t).size[u] = e.size[u]
        BY <2>2, <3>1, WithoutSound
      <3>. QED
        BY <3>2 DEF Sound, Buffers
    <2>4. /\ Len(r) = Len(e.recent) - 1 /\ ToSet(r) = ToSet(e.recent) \ {t}
          /\ \A j \in 1 .. Len(e.recent) - 1 : r[j] = e.recent[j + 1]
      BY <2>1, <2>2, RemoveFirstFacts DEF Pending
    <2>5. ASSUME NEW j \in 1 .. n - i PROVE r[j] = b.recent[j + i]
      <3>1. j \in 1 .. Len(e.recent) - 1 /\ j + 1 \in 1 .. n - (i - 1) /\ j + 1 + (i - 1) = j + i
        BY <1>1, <2>1
      <3>2. e.recent[j + 1] = b.recent[j + 1 + (i - 1)]
        BY <1>4, <3>1
      <3>. QED
        BY <2>4, <3>1, <3>2
    <2>6. \A u \in Pending(Without(e, t)) :
             Without(e, t).chunks[u] = b.chunks[u] /\ Without(e, t).size[u] = b.size[u]
      BY <1>4, <2>2, <2>3, <2>4 DEF Pending
    <2>7. Without(e, t).total <= b.total /\ Len(r) = n - i
      BY <1>1, <1>4, <2>1, <2>3, <2>4
    <2>. HIDE DEF t, r
    <2>8. Good(i, Without(e, t))
      BY <2>3, <2>5, <2>6, <2>7
    <2>. QED
      BY <2>8 DEF t
  <1>. HIDE DEF Good
  <1>5. Bad = {}
    <2>1. SUFFICES ASSUME Bad # {} PROVE FALSE
      OBVIOUS
    <2>2. PICK i \in Bad : \A j \in Bad : i <= j
      <3>1. Bad \in SUBSET Nat
        BY <1>1
      <3>. QED
        BY <2>1, <3>1, Least
    <2>3. i \in 1 .. n
      BY <1>1, <1>2, <1>3
    <2>4. i - 1 \in 0 .. n /\ ~(i <= i - 1)
      BY <1>1, <2>3
    <2>5. Good(i - 1, Evicted(b)[i - 1])
      BY <2>2, <2>4
    <2>6. Good(i, Evicted(b)[i])
      BY <1>2, <1>4, <2>3, <2>5
    <2>. QED
      BY <2>6
  <1>6. Good(k, Evicted(b)[k])
    BY <1>5
  <1>7. Pending(Evicted(b)[k]) \subseteq Pending(b)
    <2>1. /\ Len(Evicted(b)[k].recent) = n - k /\ Evicted(b)[k].recent \in Seq(Tid)
          /\ \A j \in 1 .. n - k : Evicted(b)[k].recent[j] = b.recent[j + k]
      BY <1>6 DEF Good, Sound, Buffers
    <2>2. \A j \in 1 .. n - k : j + k \in 1 .. n
      BY <1>1
    <2>3. DOMAIN Evicted(b)[k].recent = 1 .. n - k /\ DOMAIN b.recent = 1 .. n
      BY <1>1, <2>1
    <2>. QED
      BY <2>1, <2>2, <2>3 DEF Pending, ToSet
  <1>. QED
    BY <1>6, <1>7 DEF Good

LEMMA ExpiredSound ==
  ASSUME NEW b, Sound(b), NEW e \in Expirations(b)
  PROVE  Sound(e) /\ e.total <= b.total /\ Pending(e) \subseteq Pending(b)
  <1>1. PICK k \in 0 .. Len(b.recent) : e = Evicted(b)[k]
    BY DEF Expirations
  <1>. QED
    BY <1>1, EvictedSound

\* A new entry finds room, and costs nothing yet.
LEMMA OpenedSound ==
  ASSUME NEW b, Sound(b), NEW t \in Tid, t \notin Pending(b)
  PROVE  /\ Sound(Opened(b, t)) /\ Opened(b, t).total <= b.total /\ t \in Pending(Opened(b, t))
  <1>. DEFINE n == Len(b.recent)
              m == Max({0, n - MaxTransfers + 1})
              k == Min({n, m})
              e == Evicted(b)[k]
              x == [e EXCEPT !.recent = Append(@, t)]
  <1>1. n \in Nat
    BY DEF Sound, Buffers
  <1>2. m = IF 0 >= n - MaxTransfers + 1 THEN 0 ELSE n - MaxTransfers + 1
    BY <1>1, Parameters, MaxOfTwo
  <1>3. m \in Nat /\ m <= n /\ n - m <= MaxTransfers - 1
    <2>1. n <= MaxTransfers
      BY DEF Sound
    <2>. HIDE DEF m, n
    <2>. QED
      BY <1>1, <1>2, <2>1, Parameters
  <1>4. k = m
    <2>1. {n, m} \in SUBSET Nat /\ {n, m} # {}
      BY <1>1, <1>3
    <2>2. k \in {n, m} /\ k <= n /\ k <= m
      BY <2>1, MinIsLeast
    <2>. HIDE DEF k, m, n
    <2>. QED
      BY <1>1, <1>3, <2>2
  <1>5. k \in 0 .. n /\ n - k <= MaxTransfers - 1
    <2>. HIDE DEF k, m, n
    <2>. QED
      BY <1>1, <1>3, <1>4
  <1>. HIDE DEF k, m
  <1>6. /\ Sound(e) /\ e.total <= b.total /\ Len(e.recent) = n - k
        /\ Pending(e) \subseteq Pending(b)
    BY <1>5, EvictedSound
  <1>. HIDE DEF e
  <1>7. /\ e \in Buffers /\ e.recent \in Seq(Tid) /\ IsInjective(e.recent) /\ t \notin ToSet(e.recent)
        /\ Len(e.recent) <= MaxTransfers - 1
    BY <1>5, <1>6 DEF Sound, Buffers, Pending
  <1>8. /\ x.recent = Append(e.recent, t) /\ x.chunks = e.chunks /\ x.size = e.size
        /\ x.total = e.total
        /\ x \in Buffers
    <2>0. Append(e.recent, t) \in Seq(Tid)
      BY <1>7, AppendProperties
    <2>1. PICK s \in Seq(Tid) : s = Append(e.recent, t)
      BY <2>0
    <2>2. e \in Buffers /\ x = [e EXCEPT !.recent = s]
      BY <1>7, <2>1
    <2>. HIDE DEF x
    <2>3. /\ x \in Buffers /\ x.recent = s /\ x.chunks = e.chunks /\ x.size = e.size
          /\ x.total = e.total
      BY <2>2, RecentField
    <2>. QED
      BY <2>1, <2>3
  <1>9. /\ IsInjective(Append(e.recent, t)) /\ Len(Append(e.recent, t)) = Len(e.recent) + 1
        /\ ToSet(Append(e.recent, t)) = ToSet(e.recent) \cup {t}
    BY <1>7, AppendOnce
  <1>10. Len(x.recent) <= MaxTransfers
    BY <1>7, <1>8, <1>9, Parameters
  <1>. HIDE DEF x
  <1>11. Sound(x)
    BY <1>6, <1>8, <1>9, <1>10 DEF Sound, Pending
  <1>12. Opened(b, t) = x
    BY DEF Opened, x, e, k, m
  <1>. QED
    BY <1>6, <1>8, <1>9, <1>11, <1>12 DEF Pending

LEMMA EvictionsEnough ==
  ASSUME NEW b, Sound(b), NEW t \in Tid, NEW more \in Nat
  PROVE  LET k == Evictions(b, t, more)
             e == Evicted(b)[k]
         IN  /\ k \in 0 .. Len(b.recent)
             /\ e.total + more <= MaxBytes \/ e.recent \in {<<>>, <<t>>}
  <1>. DEFINE n == Len(b.recent)
              K == {k \in 0 .. n : \/ Evicted(b)[k].total + more <= MaxBytes
                                   \/ Evicted(b)[k].recent \in {<<>>, <<t>>}}
  <1>1. n \in 0 .. n
    BY DEF Sound, Buffers
  <1>2. Evicted(b)[n].recent = <<>>
    <2>1. Len(Evicted(b)[n].recent) = n - n /\ Sound(Evicted(b)[n])
      BY <1>1, EvictedSound
    <2>2. Evicted(b)[n].recent \in Seq(Tid) /\ Len(Evicted(b)[n].recent) = 0
      BY <1>1, <2>1 DEF Sound, Buffers
    <2>. QED
      BY <2>2
  <1>3. K \in SUBSET Nat /\ K # {}
    BY <1>1, <1>2
  <1>4. Min(K) \in K
    BY <1>3, MinIsLeast
  <1>5. Evictions(b, t, more) = Min(K)
    BY DEF Evictions
  <1>. HIDE DEF n
  <1>. QED
    BY <1>4, <1>5 DEF n

\* Storing a chunk keeps the accounts and the limits.
LEMMA StoredSound ==
  ASSUME NEW b, Sound(b), NEW t \in Pending(b), NEW c \in Chunk
  PROVE  Sound(Stored(b, t, c)) /\ Stored(b, t, c).total <= b.total + Size[t][c]
  <1>. DEFINE more == Size[t][c] - Replaced(b, t, c)
              e == Evicted(b)[Evictions(b, t, more)]
              leak == [e EXCEPT !.total = @ + more]
              x == [recent |-> Append(RemoveFirst(e.recent, t), t),
                    chunks |-> [e.chunks EXCEPT ![t] = @ \cup {c}],
                    size |-> [e.size EXCEPT ![t] = @ + more],
                    total |-> e.total + more]
  <1>1. t \in Tid /\ Size[t][c] \in Nat /\ b.total \in Nat
    BY Parameters DEF Pending, ToSet, Sound, Buffers
  <1>2. more = (IF c \in b.chunks[t] THEN 0 ELSE Size[t][c]) /\ more \in Nat /\ more <= Size[t][c]
    BY <1>1 DEF Replaced
  <1>. HIDE DEF more
  <1>3. /\ Evictions(b, t, more) \in 0 .. Len(b.recent)
        /\ e.total + more <= MaxBytes \/ e.recent \in {<<>>, <<t>>}
    BY <1>1, <1>2, EvictionsEnough
  <1>4. /\ Sound(e) /\ e.total <= b.total
        /\ \A u \in Pending(e) : e.chunks[u] = b.chunks[u] /\ e.size[u] = b.size[u]
    BY <1>3, EvictedSound
  <1>5. Stored(b, t, c) = IF b.size[t] + more > MaxPerTransfer THEN b
                          ELSE IF e.total + more > MaxBytes /\ e.recent = <<t>> THEN e
                          ELSE IF t \notin Pending(e) THEN leak
                          ELSE x
    BY DEF Stored, more
  <1>. HIDE DEF e
  <1>6. /\ e \in Buffers /\ e.recent \in Seq(Tid) /\ e.chunks \in [Tid -> SUBSET Chunk]
        /\ e.size \in [Tid -> Nat] /\ e.total \in Nat /\ Sum(e.size, Tid) \in Nat
    BY <1>4, HeldTyped DEF Sound, Buffers
  <1>7. Sound(leak)
    <2>1. /\ leak.recent = e.recent /\ leak.chunks = e.chunks /\ leak.size = e.size
          /\ leak.total = e.total + more /\ leak \in Buffers
      <3>1. e.total + more \in Nat
        BY <1>2, <1>6
      <3>2. leak = [e EXCEPT !.total = e.total + more]
        OBVIOUS
      <3>. HIDE DEF leak
      <3>. QED
        BY <1>6, <3>1, <3>2, TotalField
    <2>2. Sum(e.size, Tid) <= e.total + more
      <3>1. Sum(e.size, Tid) <= e.total
        BY <1>4 DEF Sound
      <3>. HIDE DEF Sum
      <3>. QED
        BY <1>2, <1>6, <3>1
    <2>. HIDE DEF leak
    <2>. QED
      BY <1>4, <2>1, <2>2 DEF Sound, Pending
  <1>8. ASSUME ~(b.size[t] + more > MaxPerTransfer),
               ~(e.total + more > MaxBytes /\ e.recent = <<t>>), t \in Pending(e)
        PROVE  Sound(x)
    <2>1. e.recent # <<>>
      BY <1>8 DEF Pending, ToSet
    <2>2. e.total + more <= MaxBytes
      <3>1. e.total + more <= MaxBytes \/ e.recent = <<t>>
        BY <1>3, <2>1
      <3>2. ~(e.total + more > MaxBytes) \/ e.recent # <<t>>
        BY <1>8
      <3>. QED
        BY <1>2, <1>6, <3>1, <3>2, Parameters
    <2>3. e.chunks[t] = b.chunks[t] /\ e.size[t] = b.size[t]
      BY <1>4, <1>8
    <2>. DEFINE r == RemoveFirst(e.recent, t)
    <2>4. /\ r \in Seq(Tid) /\ IsInjective(r) /\ Len(r) = Len(e.recent) - 1
          /\ ToSet(r) = ToSet(e.recent) \ {t}
      BY <1>4, <1>6, <1>8, RemoveFirstFacts DEF Sound, Pending
    <2>. HIDE DEF r
    <2>5. /\ IsInjective(Append(r, t)) /\ Len(Append(r, t)) = Len(e.recent)
          /\ ToSet(Append(r, t)) = ToSet(e.recent) /\ Append(r, t) \in Seq(Tid)
      <3>1. t \notin ToSet(r) /\ t \in ToSet(e.recent)
        BY <1>8, <2>4 DEF Pending
      <3>2. /\ IsInjective(Append(r, t)) /\ Len(Append(r, t)) = Len(r) + 1
            /\ ToSet(Append(r, t)) = ToSet(r) \cup {t}
        BY <1>1, <2>4, <3>1, AppendOnce
      <3>3. Len(r) + 1 = Len(e.recent)
        BY <1>6, <2>4
      <3>. QED
        BY <1>1, <2>4, <3>1, <3>2, <3>3
    <2>6. /\ x.recent = Append(r, t) /\ x.chunks = [e.chunks EXCEPT ![t] = @ \cup {c}]
          /\ x.size = [e.size EXCEPT ![t] = @ + more] /\ x.total = e.total + more
          /\ x = [recent |-> x.recent, chunks |-> x.chunks, size |-> x.size, total |-> x.total]
      BY DEF r
    <2>. HIDE DEF x
    <2>7. /\ x.size \in [Tid -> Nat] /\ x.chunks \in [Tid -> SUBSET Chunk]
          /\ x.size[t] = e.size[t] + more /\ x.chunks[t] = e.chunks[t] \cup {c}
          /\ \A u \in Tid \ {t} : x.size[u] = e.size[u] /\ x.chunks[u] = e.chunks[u]
      BY <1>1, <1>2, <1>6, <2>6
    <2>8. x \in Buffers
      <3>1. x.recent \in Seq(Tid) /\ x.total \in Nat
        BY <1>2, <1>6, <2>5, <2>6
      <3>. QED
        BY <2>6, <2>7, <3>1 DEF Buffers
    <2>9. Sum(x.size, Tid) = Sum(e.size, Tid) + more
      <3>1. IsFiniteSet(Tid) /\ \A u \in Tid \ {t} : e.size[u] = x.size[u]
        BY <2>7, Parameters
      <3>2. Sum(x.size, Tid) = Sum(e.size, Tid) - e.size[t] + x.size[t]
        <4>1. e.size \in [Tid -> Nat] /\ x.size \in [Tid -> Nat] /\ t \in Tid
          BY <1>1, <1>6, <2>7
        <4>. QED
          BY <3>1, <4>1, SumChanged
      <3>3. e.size[t] \in Nat /\ x.size[t] = e.size[t] + more
        BY <1>1, <1>6, <2>7
      <3>. HIDE DEF Sum
      <3>. QED
        BY <1>2, <1>6, <3>2, <3>3
    <2>10. Sum(x.size, Tid) <= x.total /\ Sum(x.size, Tid) <= MaxBytes
      <3>1. Sum(e.size, Tid) <= e.total
        BY <1>4 DEF Sound
      <3>. HIDE DEF Sum
      <3>. QED
        BY <1>2, <1>6, <2>2, <2>6, <2>9, <3>1, Parameters
    <2>11. x.size[t] = Sum(Size[t], x.chunks[t]) /\ x.size[t] <= MaxPerTransfer
      <3>1. e.size[t] = Sum(Size[t], e.chunks[t])
        BY <1>1, <1>4 DEF Sound
      <3>2. CASE c \in e.chunks[t]
        <4>1. x.chunks[t] = e.chunks[t] /\ more = 0 /\ e.size[t] \in Nat
          BY <1>1, <1>2, <1>6, <2>3, <2>7, <3>2
        <4>2. x.size[t] = e.size[t] /\ e.size[t] <= MaxPerTransfer
          <5>1. e.size[t] <= MaxPerTransfer
            BY <1>1, <1>4 DEF Sound
          <5>. QED
            BY <2>7, <4>1, <5>1
        <4>. QED
          BY <3>1, <4>1, <4>2
      <3>3. CASE c \notin e.chunks[t]
        <4>1. more = Size[t][c]
          BY <1>2, <2>3, <3>3
        <4>2. Sum(Size[t], x.chunks[t]) = Sum(Size[t], e.chunks[t]) + Size[t][c]
          <5>1. e.chunks[t] \in SUBSET Chunk /\ x.chunks[t] = e.chunks[t] \cup {c}
            BY <1>1, <1>6, <2>7
          <5>. QED
            BY <1>1, <3>3, <5>1, Charged
        <4>3. x.size[t] <= MaxPerTransfer
          BY <1>1, <1>2, <1>6, <1>8, <2>3, <2>7, Parameters
        <4>. QED
          BY <2>7, <3>1, <4>1, <4>2, <4>3
      <3>. QED
        BY <3>2, <3>3
    <2>12. ASSUME NEW u \in Tid
           PROVE  /\ x.size[u] = Sum(Size[u], x.chunks[u]) /\ x.size[u] <= MaxPerTransfer
                  /\ u \notin ToSet(x.recent) => x.chunks[u] = {}
      <3>1. CASE u = t
        BY <1>8, <2>5, <2>6, <2>11, <3>1 DEF Pending
      <3>2. CASE u # t
        <4>1. x.size[u] = e.size[u] /\ x.chunks[u] = e.chunks[u]
          BY <2>7, <3>2
        <4>2. ToSet(x.recent) = ToSet(e.recent)
          BY <2>5, <2>6
        <4>. QED
          BY <1>4, <4>1, <4>2 DEF Sound, Pending
      <3>. QED
        BY <3>1, <3>2
    <2>. QED
      BY <1>4, <2>5, <2>6, <2>8, <2>10, <2>12 DEF Sound, Pending
  <1>9. /\ leak.total = e.total + more /\ x.total = e.total + more
    BY <1>6 DEF Buffers
  <1>. HIDE DEF leak, x
  <1>. QED
    BY <1>1, <1>2, <1>4, <1>5, <1>6, <1>7, <1>8, <1>9

LEMMA NoBufferSound == Sound(NoBuffer) /\ NoBuffer.total = 0
  <1>1. NoBuffer \in Buffers /\ NoBuffer.recent = <<>> /\ NoBuffer.total = 0
    BY DEF NoBuffer, Buffers
  <1>2. IsInjective(NoBuffer.recent) /\ Len(NoBuffer.recent) <= MaxTransfers
    BY <1>1, Parameters DEF IsInjective
  <1>3. \A t \in Tid : NoBuffer.size[t] = 0 /\ NoBuffer.chunks[t] = {}
    BY DEF NoBuffer
  <1>4. Sum(NoBuffer.size, Tid) = 0
    BY <1>3, SumZero, Parameters
  <1>5. \A t \in Tid : NoBuffer.size[t] = Sum(Size[t], NoBuffer.chunks[t])
                       /\ NoBuffer.size[t] <= MaxPerTransfer
    <2>1. TAKE t \in Tid
    <2>2. NoBuffer.size[t] = 0 /\ NoBuffer.chunks[t] = {}
      BY <1>3
    <2>3. Sum(Size[t], {}) = 0
      BY SumEmpty
    <2>. QED
      BY <2>2, <2>3, Parameters
  <1>6. Sum(NoBuffer.size, Tid) <= MaxBytes /\ Sum(NoBuffer.size, Tid) <= NoBuffer.total
    BY <1>1, <1>4, Parameters
  <1>. QED
    BY <1>1, <1>2, <1>3, <1>5, <1>6 DEF Sound

-----------------------------------------------------------------------------
(* The inductive invariant. *)

Bounded(b) == Sound(b) /\ b.total <= TotalBound

\* One id per version in the table, as _find_transfer_by_manifest_locked sees to.
OneId == \A p, q \in known : Version[p] = Version[q] => p = q

\* Nobody else takes over the version that is being replayed.
ReplayOwned ==
  replay # NoReplay => \A p \in known : Version[p] = Version[replay.tid] => p = replay.tid

TablesTyped ==
  /\ known \subseteq Tid
  /\ got \in [Tid -> SUBSET Chunk]
  /\ replay \in {NoReplay} \cup [tid : Tid, chunks : (SUBSET Chunk) \ {{}}]

Inv == Bounded(buffer) /\ TablesTyped /\ OneId /\ ReplayOwned

LEMMA BufferBounded ==
  ASSUME Bounded(buffer), NEW t \in Tid, NEW c \in Chunk, Buffer(t, c)
  PROVE  Bounded(buffer')
  <1>1. /\ Sound(buffer) /\ buffer.total + Size[t][c] <= TotalBound
        /\ buffer.total \in Nat /\ Size[t][c] \in Nat
    BY Parameters DEF Buffer, Bounded, Sound, Buffers
  <1>2. CASE t \in Pending(buffer)
    <2>1. buffer' = Stored(buffer, t, c)
      BY <1>2 DEF Buffer
    <2>2. Sound(Stored(buffer, t, c)) /\ Stored(buffer, t, c).total <= buffer.total + Size[t][c]
      BY <1>1, <1>2, StoredSound
    <2>3. Stored(buffer, t, c).total \in Nat
      BY <2>2 DEF Sound, Buffers
    <2>. QED
      BY <1>1, <2>1, <2>2, <2>3, Parameters DEF Bounded
  <1>3. CASE t \notin Pending(buffer)
    <2>1. PICK b \in Expirations(buffer) : buffer' = Stored(Opened(b, t), t, c)
      BY <1>3 DEF Buffer
    <2>2. Sound(b) /\ b.total <= buffer.total /\ t \notin Pending(b)
      BY <1>1, <1>3, ExpiredSound
    <2>3. PICK o : o = Opened(b, t)
      OBVIOUS
    <2>4. Sound(o) /\ o.total <= b.total /\ t \in Pending(o)
      BY <2>2, <2>3, OpenedSound
    <2>5. Sound(Stored(o, t, c)) /\ Stored(o, t, c).total <= o.total + Size[t][c]
      BY <2>4, StoredSound
    <2>6. b.total \in Nat /\ o.total \in Nat /\ Stored(o, t, c).total \in Nat
      BY <2>2, <2>4, <2>5 DEF Sound, Buffers
    <2>7. Stored(o, t, c).total <= TotalBound
      BY <1>1, <2>2, <2>4, <2>5, <2>6, Parameters
    <2>. QED
      BY <2>1, <2>3, <2>5, <2>7 DEF Bounded
  <1>. QED
    BY <1>2, <1>3

LEMMA PoppedBounded ==
  ASSUME Bounded(buffer), NEW t \in Pending(buffer)
  PROVE  Bounded(Without(buffer, t))
  <1>1. Sound(Without(buffer, t)) /\ Without(buffer, t).total <= buffer.total
    BY WithoutSound DEF Bounded
  <1>2. Without(buffer, t).total \in Nat /\ buffer.total \in Nat
    BY <1>1 DEF Bounded, Sound, Buffers
  <1>. QED
    BY <1>1, <1>2, Parameters DEF Bounded

LEMMA ReplayTyped ==
  ASSUME TablesTyped, replay # NoReplay
  PROVE  /\ replay.tid \in Tid /\ replay.chunks \in SUBSET Chunk /\ Min(replay.chunks) \in replay.chunks
         /\ replay = [tid |-> replay.tid, chunks |-> replay.chunks]
  <1>1. /\ replay.tid \in Tid /\ replay.chunks \in SUBSET Chunk /\ replay.chunks # {}
        /\ replay = [tid |-> replay.tid, chunks |-> replay.chunks]
    BY DEF TablesTyped
  <1>. QED
    BY <1>1, MinIsLeast, Parameters

LEMMA InitInv == Init => Inv
  <1>. SUFFICES ASSUME Init PROVE Inv
    OBVIOUS
  <1>1. Bounded(buffer)
    BY NoBufferSound, Parameters DEF Init, Bounded
  <1>2. TablesTyped
    BY DEF Init, TablesTyped
  <1>. QED
    BY <1>1, <1>2 DEF Init, Inv, OneId, ReplayOwned

LEMMA NextInv == Inv /\ [Next]_vars => Inv'
  <1>. SUFFICES ASSUME Inv, [Next]_vars PROVE Inv'
    OBVIOUS
  <1>. USE DEF Inv
  <1>1. ASSUME NEW t \in Tid, NEW c \in Chunk, DataUnknown(t, c) PROVE Inv'
    <2>1. Bounded(buffer)'
      BY <1>1, BufferBounded DEF DataUnknown
    <2>. QED
      BY <1>1, <2>1 DEF DataUnknown, TablesTyped, OneId, ReplayOwned
  <1>2. ASSUME NEW t \in Tid, NEW c \in Chunk, DataKnown(t, c) PROVE Inv'
    <2>1. TablesTyped'
      BY <1>2 DEF DataKnown, TablesTyped
    <2>. QED
      BY <1>2, <2>1 DEF DataKnown, OneId, ReplayOwned
  <1>3. ASSUME NEW t \in Tid, MetadataNew(t) PROVE Inv'
    <2>1. Bounded(buffer')
      BY <1>3, PoppedBounded DEF MetadataNew
    <2>2. buffer.chunks[t] \in SUBSET Chunk
      BY DEF Bounded, Sound, Buffers
    <2>3. TablesTyped'
      BY <1>3, <2>2 DEF MetadataNew, TablesTyped
    <2>4. OneId'
      BY <1>3 DEF MetadataNew, OneId
    <2>5. ReplayOwned'
      <3>1. replay' # NoReplay => replay'.tid = t
        BY <1>3 DEF MetadataNew
      <3>2. \A p \in known' : Version[p] = Version[t] => p = t
        BY <1>3 DEF MetadataNew
      <3>. QED
        BY <3>1, <3>2 DEF ReplayOwned
    <2>. QED
      BY <2>1, <2>3, <2>4, <2>5
  <1>4. ASSUME NEW t \in Tid, MetadataResumed(t) PROVE Inv'
    <2>1. PICK p \in known : /\ Version[p] = Version[t]
                             /\ known' = (known \ {p}) \cup {t}
                             /\ got' = [got EXCEPT ![t] = got[p], ![p] = {}]
      BY <1>4 DEF MetadataResumed
    <2>2. buffer' = buffer /\ replay' = replay /\ replay = NoReplay
      BY <1>4 DEF MetadataResumed
    <2>3. TablesTyped'
      BY <2>1, <2>2 DEF TablesTyped
    <2>4. OneId'
      BY <2>1 DEF OneId
    <2>. QED
      BY <2>2, <2>3, <2>4 DEF ReplayOwned
  <1>5. ASSUME NEW t \in Tid, Finalized(t) PROVE Inv'
    <2>1. TablesTyped'
      BY <1>5 DEF Finalized, TablesTyped
    <2>. QED
      BY <1>5, <2>1 DEF Finalized, OneId, ReplayOwned
  <1>6. CASE Replay
    <2>. DEFINE t == replay.tid
                c == Min(replay.chunks)
                rest == replay.chunks \ {c}
    <2>1. /\ replay # NoReplay /\ known' = known
          /\ replay' = IF rest = {} THEN NoReplay ELSE [replay EXCEPT !.chunks = rest]
          /\ IF t \in known
             THEN got' = [got EXCEPT ![t] = @ \cup {c}] /\ buffer' = buffer
             ELSE Buffer(t, c) /\ got' = got
      BY <1>6 DEF Replay
    <2>2. /\ t \in Tid /\ c \in Chunk /\ rest \in SUBSET Chunk
          /\ replay = [tid |-> t, chunks |-> replay.chunks]
      BY <2>1, ReplayTyped
    <2>. HIDE DEF t, c, rest
    <2>3. Bounded(buffer')
      BY <2>1, <2>2, BufferBounded
    <2>4. replay' = NoReplay \/ (rest # {} /\ replay' = [tid |-> t, chunks |-> rest])
      BY <2>1, <2>2
    <2>5. got' \in [Tid -> SUBSET Chunk]
      BY <2>1, <2>2 DEF TablesTyped
    <2>6. TablesTyped'
      BY <2>1, <2>2, <2>4, <2>5 DEF TablesTyped
    <2>7. ReplayOwned'
      BY <2>1, <2>4 DEF ReplayOwned, t
    <2>. QED
      BY <2>1, <2>3, <2>6, <2>7 DEF OneId
  <1>7. CASE Expire
    <2>1. Sound(buffer') /\ buffer'.total <= buffer.total
      BY <1>7, ExpiredSound DEF Expire, Bounded
    <2>2. buffer'.total \in Nat /\ buffer.total \in Nat
      BY <2>1 DEF Bounded, Sound, Buffers
    <2>3. Bounded(buffer')
      BY <2>1, <2>2, Parameters DEF Bounded
    <2>. QED
      BY <1>7, <2>3 DEF Expire, TablesTyped, OneId, ReplayOwned
  <1>8. CASE Clear
    <2>1. Bounded(buffer')
      BY <1>8, NoBufferSound, Parameters DEF Clear, Bounded
    <2>2. TablesTyped'
      BY <1>8 DEF Clear, TablesTyped
    <2>. QED
      BY <1>8, <2>1, <2>2 DEF Clear, OneId, ReplayOwned
  <1>9. CASE UNCHANGED vars
    BY <1>9 DEF vars, TablesTyped, OneId, ReplayOwned
  <1>. QED
    BY <1>1, <1>2, <1>3, <1>4, <1>5, <1>6, <1>7, <1>8, <1>9 DEF Next

LEMMA Invariant == Spec => []Inv
  BY InitInv, NextInv, PTL DEF Spec

-----------------------------------------------------------------------------
(* The theorems. *)

\* Every variable keeps the kind of value the code has in it.
THEOREM TypeCorrect == Spec => []TypeOK
  <1>1. Inv => TypeOK
    BY Parameters DEF Inv, Bounded, Sound, Buffers, TablesTyped, TypeOK
  <1>. QED
    BY <1>1, Invariant, PTL

\* The three limits on what nobody announced hold for every mixture of ids, sizes,
\* duplicates, evictions and expirations.
THEOREM MemoryIsBounded == Spec => []MemoryBounded
  <1>1. Inv => MemoryBounded
    BY DEF Inv, Bounded, Sound, MemoryBounded, Held, Sum
  <1>. QED
    BY <1>1, Invariant, PTL

\* The counters of the buffer are exact for each entry, and together never too low.
THEOREM AccountsAreExact == Spec => []Accounted
  <1>1. Inv => Accounted
    BY DEF Inv, Bounded, Sound, Accounted, Held, Sum
  <1>. QED
    BY <1>1, Invariant, PTL

\* What a version gathered stays when the tables only grow.
LEMMA GatheredGrows ==
  ASSUME NEW v, known \subseteq known', \A p \in known : got[p] \subseteq got'[p],
         \A p \in Tid, c \in Chunk : p = replay.tid /\ c \in replay.chunks =>
           \/ p = replay'.tid /\ c \in replay'.chunks
           \/ p \in known' /\ c \in got'[p]
  PROVE  Gathered(v) \subseteq Gathered(v)'
  <1>1. ASSUME NEW c \in Chunk, NEW p \in Tid, Version[p] = v,
               (p \in known /\ c \in got[p]) \/ (p = replay.tid /\ c \in replay.chunks)
        PROVE  (p \in known' /\ c \in got'[p]) \/ (p = replay'.tid /\ c \in replay'.chunks)
    BY <1>1
  <1>. QED
    BY <1>1 DEF Gathered

LEMMA GatheredStep ==
  ASSUME Inv, Next, NEW t \in Tid, NEW u \in Tid, Version[t] = Version[u],
         t \in known, u \in known'
  PROVE  Gathered(Version[t]) \subseteq Gathered(Version[t])'
  <1>1. known \subseteq Tid /\ got \in [Tid -> SUBSET Chunk] /\ OneId /\ ReplayOwned
    BY DEF Inv, TablesTyped
  <1>2. ASSUME NEW w \in Tid, NEW c \in Chunk, DataUnknown(w, c) \/ DataKnown(w, c)
        PROVE  Gathered(Version[t]) \subseteq Gathered(Version[t])'
    <2>1. known' = known /\ replay' = replay /\ \A p \in known : got[p] \subseteq got'[p]
      BY <1>1, <1>2 DEF DataUnknown, DataKnown
    <2>. QED
      BY <2>1, GatheredGrows
  <1>3. ASSUME NEW w \in Tid, MetadataNew(w)
        PROVE  Gathered(Version[t]) \subseteq Gathered(Version[t])'
    <2>1. known \subseteq known' /\ got' = got /\ replay.chunks = {}
      BY <1>3 DEF MetadataNew, NoReplay
    <2>. QED
      BY <2>1, GatheredGrows
  \* The new id takes over all that the old one had.
  <1>4. ASSUME NEW w \in Tid, MetadataResumed(w)
        PROVE  Gathered(Version[t]) \subseteq Gathered(Version[t])'
    <2>1. PICK q \in known : /\ Version[q] = Version[w]
                             /\ known' = (known \ {q}) \cup {w}
                             /\ got' = [got EXCEPT ![w] = got[q], ![q] = {}]
      BY <1>4 DEF MetadataResumed
    <2>2. replay.chunks = {} /\ w \notin known
      BY <1>4 DEF MetadataResumed, NoReplay
    <2>3. /\ w \in known' /\ got'[w] = got[q] /\ q # w
          /\ \A p \in known \ {q} : p \in known' /\ got'[p] = got[p]
      BY <1>1, <2>1, <2>2
    <2>4. ASSUME NEW c \in Chunk, NEW p \in Tid, Version[p] = Version[t], p \in known, c \in got[p]
          PROVE  \E x \in Tid : Version[x] = Version[t] /\ x \in known' /\ c \in got'[x]
      BY <2>1, <2>3, <2>4
    <2>. QED
      BY <2>2, <2>4 DEF Gathered
  \* The version of t stays, so what the worker takes is of another one.
  <1>5. ASSUME NEW w \in Tid, Finalized(w)
        PROVE  Gathered(Version[t]) \subseteq Gathered(Version[t])'
    <2>1. known' = known \ {w} /\ got' = [got EXCEPT ![w] = {}] /\ replay' = replay
      BY <1>5 DEF Finalized
    <2>2. t = u /\ t # w
      BY <1>1, <2>1 DEF OneId
    <2>3. \A p \in known : Version[p] = Version[t] => p = t
      BY <1>1 DEF OneId
    <2>4. t \in known' /\ got'[t] = got[t]
      BY <1>1, <2>1, <2>2
    <2>5. ASSUME NEW c \in Chunk, NEW p \in Tid, Version[p] = Version[t],
                 (p \in known /\ c \in got[p]) \/ (p = replay.tid /\ c \in replay.chunks)
          PROVE  (p \in known' /\ c \in got'[p]) \/ (p = replay'.tid /\ c \in replay'.chunks)
      BY <2>1, <2>3, <2>4, <2>5
    <2>. QED
      BY <2>5 DEF Gathered
  \* A chunk leaves the list for the transfer, or for the buffer when the transfer is gone;
  \* then no other id has its version.
  <1>6. CASE Replay
    <2>. DEFINE c == Min(replay.chunks)
    <2>1. /\ replay # NoReplay /\ known' = known
          /\ replay' = IF replay.chunks \ {c} = {} THEN NoReplay
                       ELSE [replay EXCEPT !.chunks = replay.chunks \ {c}]
          /\ replay.tid \in known => got' = [got EXCEPT ![replay.tid] = @ \cup {c}]
          /\ replay.tid \notin known => got' = got
      BY <1>6 DEF Replay
    <2>2. replay.tid \in Tid /\ replay = [tid |-> replay.tid, chunks |-> replay.chunks]
      BY <2>1, ReplayTyped DEF Inv
    <2>. HIDE DEF c
    <2>3. \A d \in replay.chunks \ {c} : replay'.tid = replay.tid /\ d \in replay'.chunks
      BY <2>1, <2>2
    <2>4. CASE replay.tid \in known
      <3>1. /\ \A p \in known : got[p] \subseteq got'[p]
            /\ c \in got'[replay.tid]
        BY <1>1, <2>1, <2>2, <2>4
      <3>. QED
        BY <2>1, <2>3, <2>4, <3>1, GatheredGrows
    <2>5. CASE replay.tid \notin known
      <3>1. Version[replay.tid] # Version[t]
        BY <1>1, <2>1, <2>5 DEF ReplayOwned
      <3>2. ASSUME NEW d \in Chunk, NEW p \in Tid, Version[p] = Version[t],
                   (p \in known /\ d \in got[p]) \/ (p = replay.tid /\ d \in replay.chunks)
            PROVE  p \in known' /\ d \in got'[p]
        BY <2>1, <2>5, <3>1, <3>2
      <3>. QED
        BY <3>2 DEF Gathered
    <2>. QED
      BY <2>4, <2>5
  <1>7. CASE Expire
    BY <1>7, GatheredGrows DEF Expire
  <1>8. CASE Clear
    BY <1>8 DEF Clear
  <1>. QED
    BY <1>2, <1>3, <1>4, <1>5, <1>6, <1>7, <1>8 DEF Next

\* No chunk of a version that stays in the table is lost between the buffer and the
\* transfer, whatever the finalize worker and the maintenance thread do meanwhile.
THEOREM ReplayKeepsEverything == Spec => ReplayKeepsAll
  <1>1. Inv /\ [Next]_vars =>
          [\A t, u \in Tid :
             (Version[t] = Version[u] /\ t \in known /\ u \in known') =>
               Gathered(Version[t]) \subseteq Gathered(Version[t])']_vars
    BY GatheredStep
  <1>. QED
    BY <1>1, Invariant, PTL DEF Spec, ReplayKeepsAll
=============================================================================
