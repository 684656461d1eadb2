------------------------- MODULE ChunkTrackerProofs -------------------------
(***************************************************************************)
(* Theorems about Ranges and ChunkTracker, for files of any number of      *)
(* chunks, any journals and any budgets.                                   *)
(***************************************************************************)
EXTENDS ChunkTracker, FiniteSetTheorems, SequenceTheorems, WellFoundedInduction, TLAPS

-----------------------------------------------------------------------------
(* Numbers. *)

\* A set of naturals that is not empty has a least element.
LEMMA Least ==
  ASSUME NEW S \in SUBSET Nat, S # {}
  PROVE  \E m \in S : \A n \in S : m <= n
  <1>. DEFINE R == OpToRel(<, Nat)
  <1>1. \A i \in Nat, j \in Nat : i < j => <<i, j>> \in R
    BY DEF OpToRel
  <1>2. PICK m \in S : \A n \in S : ~(<<n, m>> \in R)
    BY WFMin, NatLessThanWellFounded
  <1>. HIDE DEF R
  <1>3. \A n \in S : ~(n < m)
    <2>1. TAKE n \in S
    <2>2. n \in Nat /\ m \in Nat
      OBVIOUS
    <2>3. n < m => <<n, m>> \in R
      BY <1>1, <2>2, Zenon
    <2>. QED
      BY <1>2, <2>3, Zenon
  <1>. QED
    BY <1>3

\* What holds at 0 and at the successor of where it holds, holds up to n.
LEMMA Upto ==
  ASSUME NEW n \in Nat, NEW P, 0 \in P, \A k \in 0 .. n - 1 : k \in P => k + 1 \in P
  PROVE  \A k \in 0 .. n : k \in P
  <1>. DEFINE Bad == {k \in 0 .. n : k \notin P}
  <1>1. SUFFICES ASSUME Bad # {} PROVE FALSE
    OBVIOUS
  <1>2. Bad \in SUBSET Nat
    OBVIOUS
  <1>3. PICK m \in Bad : \A k \in Bad : m <= k
    BY <1>1, <1>2, Least
  <1>4. m # 0 /\ m \in 0 .. n
    BY <1>3
  <1>5. m - 1 \in 0 .. n - 1 /\ m - 1 \in 0 .. n /\ ~(m <= m - 1)
    BY <1>4
  <1>6. m - 1 \in P
    BY <1>3, <1>5
  <1>7. m - 1 + 1 = m /\ m - 1 + 1 \in P
    BY <1>4, <1>5, <1>6
  <1>. QED
    BY <1>3, <1>7

\* Max and Min of two numbers, which the code writes max(a, b) and min(a, b).
LEMMA MaxOfTwo ==
  ASSUME NEW a \in Int, NEW b \in Int
  PROVE  Max({a, b}) = IF a >= b THEN a ELSE b
  <1>1. \E x \in {a, b} : \A y \in {a, b} : x >= y
    OBVIOUS
  <1>. QED
    BY <1>1 DEF Max

LEMMA MinOfTwo ==
  ASSUME NEW a \in Int, NEW b \in Int
  PROVE  Min({a, b}) = IF a <= b THEN a ELSE b
  <1>1. \E x \in {a, b} : \A y \in {a, b} : x =< y
    OBVIOUS
  <1>. QED
    BY <1>1 DEF Min

\* The greatest index of a set of indexes.
LEMMA MaxIsGreatest ==
  ASSUME NEW n \in Nat, NEW S \in SUBSET (1 .. n), S # {}
  PROVE  Max(S) \in S /\ \A x \in S : Max(S) >= x
  <1>. DEFINE D == {n - x : x \in S}
  <1>1. D \in SUBSET Nat /\ D # {}
    <2>1. \A x \in S : x \in Nat /\ x <= n
      OBVIOUS
    <2>2. \A x \in S : n - x \in Nat
      BY <2>1
    <2>. QED
      BY <2>2
  <1>2. PICK d \in D : \A e \in D : d <= e
    BY <1>1, Least
  <1>3. PICK m \in S : d = n - m
    OBVIOUS
  <1>4. \A x \in S : m >= x
    <2>1. \A x \in S : n - m <= n - x
      BY <1>2, <1>3
    <2>. QED
      BY <2>1
  <1>. QED
    BY <1>4 DEF Max

-----------------------------------------------------------------------------
(* Folds. *)

\* g is the recursive function in a fold of the step A over s.
IsFold(A, base, s, n, g) ==
  g = [t \in SUBSET (1 .. n) |->
         IF t = {} THEN base ELSE A[<<g[t \ {Max(t)}], s[Max(t)]>>]]

\* There is such a function: a fold takes one element after the other.
LEMMA FoldExists ==
  ASSUME NEW X, NEW Y, NEW A \in [X \X Y -> X], NEW base \in X, NEW s \in Seq(Y)
  PROVE  \E g \in [SUBSET (1 .. Len(s)) -> X] : IsFold(A, base, s, Len(s), g)
  <1>. DEFINE n == Len(s)
              P == {k \in 0 .. n : \E g \in [SUBSET (1 .. k) -> X] : IsFold(A, base, s, k, g)}
  <1>1. n \in Nat
    OBVIOUS
  <1>2. 0 \in P
    <2>. DEFINE g == [t \in SUBSET (1 .. 0) |-> base]
    <2>1. \A t \in SUBSET (1 .. 0) : t = {}
      OBVIOUS
    <2>2. g = [t \in SUBSET (1 .. 0) |->
                 IF t = {} THEN base ELSE A[<<g[t \ {Max(t)}], s[Max(t)]>>]]
      BY <2>1
    <2>3. g \in [SUBSET (1 .. 0) -> X] /\ 0 \in 0 .. n
      BY <1>1
    <2>. QED
      BY <2>2, <2>3 DEF IsFold
  <1>3. ASSUME NEW k \in 0 .. n - 1, k \in P PROVE k + 1 \in P
    <2>1. PICK h \in [SUBSET (1 .. k) -> X] : IsFold(A, base, s, k, h)
      BY <1>3
    <2>2. k + 1 \in 1 .. n /\ k \in Nat /\ k + 1 \in Nat /\ s[k + 1] \in Y
      BY <1>1
    <2>. DEFINE g == [t \in SUBSET (1 .. k + 1) |->
                        IF k + 1 \in t THEN A[<<h[t \ {k + 1}], s[k + 1]>>] ELSE h[t]]
    <2>3. ASSUME NEW t \in SUBSET (1 .. k + 1)
          PROVE  /\ k + 1 \in t => t \ {k + 1} \in SUBSET (1 .. k)
                 /\ k + 1 \notin t => t \in SUBSET (1 .. k)
      BY <2>2
    <2>4. g \in [SUBSET (1 .. k + 1) -> X]
      <3>1. ASSUME NEW t \in SUBSET (1 .. k + 1)
            PROVE  (IF k + 1 \in t THEN A[<<h[t \ {k + 1}], s[k + 1]>>] ELSE h[t]) \in X
        BY <2>2, <2>3
      <3>. QED
        BY <3>1
    <2>5. ASSUME NEW t \in SUBSET (1 .. k + 1)
          PROVE  g[t] = IF t = {} THEN base ELSE A[<<g[t \ {Max(t)}], s[Max(t)]>>]
      <3>1. CASE k + 1 \in t
        <4>1. Max(t) = k + 1
          <5>1. t # {}
            BY <3>1
          <5>2. Max(t) \in t /\ \A x \in t : Max(t) >= x
            BY <2>2, <5>1, MaxIsGreatest
          <5>3. Max(t) \in 1 .. k + 1 /\ Max(t) >= k + 1
            BY <3>1, <5>2
          <5>. QED
            BY <2>2, <5>3
        <4>2. t \ {k + 1} \in SUBSET (1 .. k + 1) /\ k + 1 \notin t \ {k + 1}
          OBVIOUS
        <4>3. g[t \ {k + 1}] = h[t \ {k + 1}]
          BY <4>2
        <4>. QED
          BY <3>1, <4>1, <4>3
      <3>2. CASE k + 1 \notin t
        <4>1. t \in SUBSET (1 .. k)
          BY <2>3, <3>2
        <4>2. h[t] = IF t = {} THEN base ELSE A[<<h[t \ {Max(t)}], s[Max(t)]>>]
          BY <2>1, <4>1 DEF IsFold
        <4>3. t \ {Max(t)} \in SUBSET (1 .. k + 1) /\ k + 1 \notin t \ {Max(t)}
          BY <3>2
        <4>4. g[t] = h[t] /\ g[t \ {Max(t)}] = h[t \ {Max(t)}]
          BY <3>2, <4>3
        <4>. QED
          BY <4>2, <4>4
      <3>. QED
        BY <3>1, <3>2
    <2>6. IsFold(A, base, s, k + 1, g)
      <3>. HIDE DEF g
      <3>1. \A t \in SUBSET (1 .. k + 1) :
              g[t] = IF t = {} THEN base ELSE A[<<g[t \ {Max(t)}], s[Max(t)]>>]
        BY <2>5
      <3>2. g = [t \in SUBSET (1 .. k + 1) |-> g[t]]
        BY <2>4
      <3>. QED
        BY <3>1, <3>2 DEF IsFold
    <2>. HIDE DEF g
    <2>7. k + 1 \in 0 .. n
      BY <2>2
    <2>. QED
      BY <2>4, <2>6, <2>7
  <1>4. n \in P
    <2>. HIDE DEF P
    <2>1. \A k \in 0 .. n : k \in P
      BY <1>1, <1>2, <1>3, Upto
    <2>. QED
      BY <1>1, <2>1
  <1>. QED
    BY <1>4

\* The elements seen so far.
LEMMA Prefix ==
  ASSUME NEW n \in Nat, NEW k \in 1 .. n
  PROVE  /\ 1 .. k \in SUBSET (1 .. n) /\ 1 .. k # {}
         /\ Max(1 .. k) = k /\ (1 .. k) \ {Max(1 .. k)} = 1 .. k - 1
  <1>1. k \in Nat /\ k \in 1 .. k /\ 1 .. k \in SUBSET (1 .. k)
    OBVIOUS
  <1>2. 1 .. k # {}
    BY <1>1
  <1>3. Max(1 .. k) \in 1 .. k /\ \A x \in 1 .. k : Max(1 .. k) >= x
    BY <1>1, <1>2, MaxIsGreatest
  <1>4. Max(1 .. k) = k
    BY <1>1, <1>3
  <1>5. (1 .. k) \ {k} = 1 .. k - 1
    OBVIOUS
  <1>6. 1 .. k \in SUBSET (1 .. n)
    OBVIOUS
  <1>. QED
    BY <1>2, <1>4, <1>5, <1>6

-----------------------------------------------------------------------------
(* Lists of ranges. *)

\* Ranges and lists of ranges, of any numbers.
Pair == Int \X Int
Lists == Seq(Pair)

\* A list with one more range.
LEMMA Appended ==
  ASSUME NEW l \in Lists, NEW r \in Pair
  PROVE  /\ Append(l, r) \in Lists /\ Len(Append(l, r)) = Len(l) + 1 /\ Len(l) \in Nat
         /\ Append(l, r)[Len(l) + 1] = r
         /\ \A i \in 1 .. Len(l) : Append(l, r)[i] = l[i]
  BY AppendProperties, LenProperties DEF Lists

\* The last range gives way to another one.
LEMMA Replaced ==
  ASSUME NEW l \in Lists, l # <<>>, NEW r \in Pair
  PROVE  /\ Front(l) \o <<r>> \in Lists /\ Len(Front(l) \o <<r>>) = Len(l)
         /\ Len(l) \in Nat \ {0} /\ Last(l) = l[Len(l)] /\ Last(l) \in Pair
         /\ (Front(l) \o <<r>>)[Len(l)] = r
         /\ \A i \in 1 .. Len(l) - 1 : (Front(l) \o <<r>>)[i] = l[i]
  <1>1. Len(l) \in Nat \ {0}
    BY EmptySeq, LenProperties DEF Lists
  <1>2. Front(l) \in Lists /\ Len(Front(l)) = Len(l) - 1
        /\ \A i \in 1 .. Len(l) - 1 : Front(l)[i] = l[i]
    <2>1. Len(l) - 1 \in Nat /\ \A i \in 1 .. Len(l) - 1 : l[i] \in Pair
      BY <1>1 DEF Lists
    <2>2. Front(l) = SubSeq(l, 1, Len(l) - 1)
      BY DEF Front
    <2>3. /\ SubSeq(l, 1, Len(l) - 1) \in Seq(Pair)
          /\ Len(SubSeq(l, 1, Len(l) - 1)) = IF 1 <= Len(l) - 1 THEN Len(l) - 1 - 1 + 1 ELSE 0
          /\ \A i \in 1 .. Len(l) - 1 - 1 + 1 : SubSeq(l, 1, Len(l) - 1)[i] = l[1 + i - 1]
      BY <1>1, <2>1, SubSeqProperties
    <2>4. Front(l) \in Lists /\ Len(Front(l)) = Len(l) - 1
      <3>1. CASE Len(l) = 1
        BY <2>2, <2>3, <3>1 DEF Lists
      <3>2. CASE Len(l) # 1
        <4>1. 1 <= Len(l) - 1 /\ Len(l) - 1 - 1 + 1 = Len(l) - 1
          BY <1>1, <3>2
        <4>. QED
          BY <2>2, <2>3, <4>1 DEF Lists
      <3>. QED
        BY <3>1, <3>2
    <2>5. ASSUME NEW i \in 1 .. Len(l) - 1 PROVE Front(l)[i] = l[i]
      <3>1. i \in 1 .. Len(l) - 1 - 1 + 1 /\ 1 + i - 1 = i
        BY <1>1
      <3>2. SubSeq(l, 1, Len(l) - 1)[i] = l[1 + i - 1]
        BY <2>3, <3>1
      <3>. QED
        BY <2>2, <3>1, <3>2
    <2>. QED
      BY <2>4, <2>5
  <1>3. <<r>> \in Lists /\ Len(<<r>>) = 1 /\ <<r>>[1] = r
    BY DEF Lists
  <1>4. Front(l) \o <<r>> \in Lists /\ Len(Front(l) \o <<r>>) = Len(l) - 1 + 1
        /\ \A i \in 1 .. Len(l) - 1 + 1 :
              (Front(l) \o <<r>>)[i] = IF i <= Len(l) - 1 THEN Front(l)[i] ELSE <<r>>[i - (Len(l) - 1)]
    BY <1>1, <1>2, <1>3, ConcatProperties DEF Lists
  <1>5. Last(l) = l[Len(l)] /\ l[Len(l)] \in Pair
    BY <1>1 DEF Last, Lists
  <1>. QED
    BY <1>1, <1>2, <1>3, <1>4, <1>5

\* The last range of a list that has one.
LEMMA LastRange ==
  ASSUME NEW l \in Lists, l # <<>>
  PROVE  /\ Len(l) \in Nat \ {0} /\ Len(l) \in 1 .. Len(l)
         /\ Last(l) = l[Len(l)] /\ Last(l) \in Pair
  <1>1. <<0, 1>> \in Pair
    BY DEF Pair
  <1>2. Len(l) \in Nat \ {0} /\ Last(l) = l[Len(l)] /\ Last(l) \in Pair
    BY <1>1, Replaced
  <1>3. Len(l) \in 1 .. Len(l)
    BY <1>2
  <1>. QED
    BY <1>2, <1>3

-----------------------------------------------------------------------------
(* The loops of ranges.py, one element after the other. *)

\* A round of merge_ranges leaves a list.
LEMMA AbsorbTyped ==
  ASSUME NEW m \in Lists, NEW r \in Pair
  PROVE  Absorb(m, r) \in Lists
  <1>1. CASE m # <<>> /\ r[1] <= Last(m)[2]
    <2>1. Last(m) \in Pair
      BY <1>1, Replaced
    <2>2. <<Last(m)[1], Max({Last(m)[2], r[2]})>> \in Pair
      BY <2>1, MaxOfTwo DEF Pair
    <2>. QED
      BY <1>1, <2>2, Replaced DEF Absorb
  <1>2. CASE ~(m # <<>> /\ r[1] <= Last(m)[2])
    BY <1>2, Appended DEF Absorb
  <1>. QED
    BY <1>1, <1>2

\* The lists that the loop of merge_ranges goes through.
LEMMA Absorbing ==
  ASSUME NEW s \in Lists
  PROVE  \E f : /\ f[0] = <<>>
                /\ \A k \in 1 .. Len(s) : f[k] = Absorb(f[k - 1], s[k])
                /\ FoldLeft(Absorb, <<>>, s) = f[Len(s)]
  <1>. DEFINE n == Len(s)
              A == [p \in Lists \X Pair |-> Absorb(p[1], p[2])]
              Is(g) == g = [t \in SUBSET (1 .. n) |->
                              IF t = {} THEN <<>> ELSE Absorb(g[t \ {Max(t)}], s[Max(t)])]
  <1>1. n \in Nat /\ DOMAIN s = 1 .. n /\ <<>> \in Lists
    BY DEF Lists
  <1>2. PICK h \in [SUBSET (1 .. n) -> Lists] : IsFold(A, <<>>, s, n, h)
    <2>1. A \in [Lists \X Pair -> Lists]
      BY AbsorbTyped
    <2>. HIDE DEF A
    <2>. QED
      BY <1>1, <2>1, FoldExists DEF Lists
  <1>3. Is(h)
    <2>1. ASSUME NEW t \in SUBSET (1 .. n), t # {}
          PROVE  A[<<h[t \ {Max(t)}], s[Max(t)]>>] = Absorb(h[t \ {Max(t)}], s[Max(t)])
      <3>1. Max(t) \in 1 .. n
        BY <1>1, <2>1, MaxIsGreatest
      <3>2. s[Max(t)] \in Pair
        BY <1>1, <3>1, ElementOfSeq DEF Lists
      <3>3. h[t \ {Max(t)}] \in Lists
        BY <1>2
      <3>. QED
        BY <3>2, <3>3
    <2>. HIDE DEF A
    <2>. QED
      BY <1>2, <2>1 DEF IsFold
  <1>4. FoldLeft(Absorb, <<>>, s) = (CHOOSE g : Is(g))[1 .. n]
    BY <1>1 DEF FoldLeft, MapThenFoldSet
  <1>5. PICK g : Is(g) /\ FoldLeft(Absorb, <<>>, s) = g[1 .. n]
    <2>. HIDE DEF Is
    <2>. QED
      BY <1>3, <1>4
  <1>. DEFINE f == [k \in 0 .. n |-> g[1 .. k]]
  <1>6. f[0] = <<>> /\ f[n] = g[1 .. n]
    <2>1. 1 .. 0 = {} /\ {} \in SUBSET (1 .. n) /\ 0 \in 0 .. n /\ n \in 0 .. n
      BY <1>1
    <2>. QED
      BY <1>5, <2>1
  <1>7. ASSUME NEW k \in 1 .. n PROVE f[k] = Absorb(f[k - 1], s[k])
    <2>1. f[k] = g[1 .. k] /\ f[k - 1] = g[1 .. k - 1]
      BY <1>1
    <2>2. g[1 .. k] = Absorb(g[(1 .. k) \ {Max(1 .. k)}], s[Max(1 .. k)])
      BY <1>1, <1>5, Prefix
    <2>3. g[1 .. k] = Absorb(g[1 .. k - 1], s[k])
      BY <1>1, <2>2, Prefix
    <2>. HIDE DEF f
    <2>. QED
      BY <2>1, <2>3
  <1>. HIDE DEF f
  <1>. QED
    BY <1>5, <1>6, <1>7

\* A round of ranges_from_indexes leaves a list.
LEMMA ExtendTyped ==
  ASSUME NEW m \in Lists, NEW v \in Int
  PROVE  Extend(m, v) \in Lists
  <1>1. <<v, v + 1>> \in Pair /\ (m # <<>> => <<Last(m)[1], v + 1>> \in Pair)
    <2>1. m # <<>> => Last(m) \in Pair
      <3>1. <<0, 1>> \in Pair
        BY DEF Pair
      <3>. QED
        BY <3>1, Replaced
    <2>. QED
      BY <2>1 DEF Pair
  <1>. QED
    BY <1>1, Appended, Replaced DEF Extend

\* The lists that the loop of ranges_from_indexes goes through.
LEMMA Extending ==
  ASSUME NEW s \in Seq(Int)
  PROVE  \E f : /\ f[0] = <<>>
                /\ \A k \in 1 .. Len(s) : f[k] = Extend(f[k - 1], s[k])
                /\ FoldLeft(Extend, <<>>, s) = f[Len(s)]
  <1>. DEFINE n == Len(s)
              A == [p \in Lists \X Int |-> Extend(p[1], p[2])]
              Is(g) == g = [t \in SUBSET (1 .. n) |->
                              IF t = {} THEN <<>> ELSE Extend(g[t \ {Max(t)}], s[Max(t)])]
  <1>1. n \in Nat /\ DOMAIN s = 1 .. n /\ <<>> \in Lists
    BY DEF Lists
  <1>2. PICK h \in [SUBSET (1 .. n) -> Lists] : IsFold(A, <<>>, s, n, h)
    <2>1. A \in [Lists \X Int -> Lists]
      BY ExtendTyped
    <2>. HIDE DEF A
    <2>. QED
      BY <1>1, <2>1, FoldExists
  <1>3. Is(h)
    <2>1. ASSUME NEW t \in SUBSET (1 .. n), t # {}
          PROVE  A[<<h[t \ {Max(t)}], s[Max(t)]>>] = Extend(h[t \ {Max(t)}], s[Max(t)])
      <3>1. Max(t) \in 1 .. n
        BY <1>1, <2>1, MaxIsGreatest
      <3>2. s[Max(t)] \in Int
        BY <1>1, <3>1, ElementOfSeq
      <3>3. h[t \ {Max(t)}] \in Lists
        BY <1>2
      <3>. QED
        BY <3>2, <3>3
    <2>. HIDE DEF A
    <2>. QED
      BY <1>2, <2>1 DEF IsFold
  <1>4. FoldLeft(Extend, <<>>, s) = (CHOOSE g : Is(g))[1 .. n]
    BY <1>1 DEF FoldLeft, MapThenFoldSet
  <1>5. PICK g : Is(g) /\ FoldLeft(Extend, <<>>, s) = g[1 .. n]
    <2>. HIDE DEF Is
    <2>. QED
      BY <1>3, <1>4
  <1>. DEFINE f == [k \in 0 .. n |-> g[1 .. k]]
  <1>6. f[0] = <<>> /\ f[n] = g[1 .. n]
    <2>1. 1 .. 0 = {} /\ {} \in SUBSET (1 .. n) /\ 0 \in 0 .. n /\ n \in 0 .. n
      BY <1>1
    <2>. QED
      BY <1>5, <2>1
  <1>7. ASSUME NEW k \in 1 .. n PROVE f[k] = Extend(f[k - 1], s[k])
    <2>1. f[k] = g[1 .. k] /\ f[k - 1] = g[1 .. k - 1]
      BY <1>1
    <2>2. g[1 .. k] = Extend(g[(1 .. k) \ {Max(1 .. k)}], s[Max(1 .. k)])
      BY <1>1, <1>5, Prefix
    <2>3. g[1 .. k] = Extend(g[1 .. k - 1], s[k])
      BY <1>1, <2>2, Prefix
    <2>. HIDE DEF f
    <2>. QED
      BY <2>1, <2>3
  <1>. HIDE DEF f
  <1>. QED
    BY <1>5, <1>6, <1>7

\* What limit_ranges_to_chunk_budget keeps between rounds.
Budgets == [left : Int, out : Lists]

\* A round of limit_ranges_to_chunk_budget leaves a budget and a list.
LEMMA SpendTyped ==
  ASSUME NEW b \in Budgets, NEW r \in Pair
  PROVE  Spend(b, r) \in Budgets
  <1>. DEFINE n == Min({b.left, r[2] - r[1]})
  <1>1. n \in Int /\ b.left \in Int /\ b.out \in Lists
    BY MinOfTwo DEF Budgets, Pair
  <1>. HIDE DEF n
  <1>2. <<r[1], r[1] + n>> \in Pair
    BY <1>1 DEF Pair
  <1>3. Append(b.out, <<r[1], r[1] + n>>) \in Lists
    BY <1>1, <1>2, Appended
  <1>4. Spend(b, r) = IF n <= 0 THEN b
                      ELSE [left |-> b.left - n, out |-> Append(b.out, <<r[1], r[1] + n>>)]
    BY DEF Spend, n
  <1>. QED
    BY <1>1, <1>3, <1>4 DEF Budgets

\* What the loop of limit_ranges_to_chunk_budget goes through.
LEMMA Spending ==
  ASSUME NEW s \in Seq(Pair), NEW budget \in Int
  PROVE  \E f : /\ f[0] = [left |-> budget, out |-> <<>>]
                /\ \A k \in 1 .. Len(s) : f[k] = Spend(f[k - 1], s[k])
                /\ FoldLeft(Spend, [left |-> budget, out |-> <<>>], s) = f[Len(s)]
  <1>. DEFINE n == Len(s)
              A == [p \in Budgets \X Pair |-> Spend(p[1], p[2])]
              Is(g) == g = [t \in SUBSET (1 .. n) |->
                              IF t = {} THEN [left |-> budget, out |-> <<>>] ELSE Spend(g[t \ {Max(t)}], s[Max(t)])]
  <1>1. n \in Nat /\ DOMAIN s = 1 .. n /\ [left |-> budget, out |-> <<>>] \in Budgets
    BY DEF Lists, Budgets
  <1>2. PICK h \in [SUBSET (1 .. n) -> Budgets] : IsFold(A, [left |-> budget, out |-> <<>>], s, n, h)
    <2>1. A \in [Budgets \X Pair -> Budgets]
      BY SpendTyped
    <2>. HIDE DEF A
    <2>. QED
      BY <1>1, <2>1, FoldExists
  <1>3. Is(h)
    <2>1. ASSUME NEW t \in SUBSET (1 .. n), t # {}
          PROVE  A[<<h[t \ {Max(t)}], s[Max(t)]>>] = Spend(h[t \ {Max(t)}], s[Max(t)])
      <3>1. Max(t) \in 1 .. n
        BY <1>1, <2>1, MaxIsGreatest
      <3>2. s[Max(t)] \in Pair
        BY <1>1, <3>1, ElementOfSeq
      <3>3. h[t \ {Max(t)}] \in Budgets
        BY <1>2
      <3>. QED
        BY <3>2, <3>3
    <2>. HIDE DEF A
    <2>. QED
      BY <1>2, <2>1 DEF IsFold
  <1>4. FoldLeft(Spend, [left |-> budget, out |-> <<>>], s) = (CHOOSE g : Is(g))[1 .. n]
    BY <1>1 DEF FoldLeft, MapThenFoldSet
  <1>5. PICK g : Is(g) /\ FoldLeft(Spend, [left |-> budget, out |-> <<>>], s) = g[1 .. n]
    <2>. HIDE DEF Is
    <2>. QED
      BY <1>3, <1>4
  <1>. DEFINE f == [k \in 0 .. n |-> g[1 .. k]]
  <1>6. f[0] = [left |-> budget, out |-> <<>>] /\ f[n] = g[1 .. n]
    <2>1. 1 .. 0 = {} /\ {} \in SUBSET (1 .. n) /\ 0 \in 0 .. n /\ n \in 0 .. n
      BY <1>1
    <2>. QED
      BY <1>5, <2>1
  <1>7. ASSUME NEW k \in 1 .. n PROVE f[k] = Spend(f[k - 1], s[k])
    <2>1. f[k] = g[1 .. k] /\ f[k - 1] = g[1 .. k - 1]
      BY <1>1
    <2>2. g[1 .. k] = Spend(g[(1 .. k) \ {Max(1 .. k)}], s[Max(1 .. k)])
      BY <1>1, <1>5, Prefix
    <2>3. g[1 .. k] = Spend(g[1 .. k - 1], s[k])
      BY <1>1, <2>2, Prefix
    <2>. HIDE DEF f
    <2>. QED
      BY <2>1, <2>3
  <1>. HIDE DEF f
  <1>. QED
    BY <1>5, <1>6, <1>7

\* What _missing_ranges_between keeps between rounds.
Gaps == [cursor : Int, out : Lists]

\* A round of _missing_ranges_between leaves a cursor and a list.
LEMMA SkipTyped ==
  ASSUME NEW g \in Gaps, NEW r \in Pair, NEW end \in Int
  PROVE  Skip(g, r, end) \in Gaps
  <1>1. g.cursor \in Int /\ g.out \in Lists /\ r[1] \in Int /\ r[2] \in Int
    BY DEF Gaps, Pair
  <1>2. Min({r[1], end}) \in Int /\ Min({r[2], end}) \in Int
    BY <1>1, MinOfTwo
  <1>3. Max({g.cursor, Min({r[2], end})}) \in Int
    BY <1>1, <1>2, MaxOfTwo
  <1>4. <<g.cursor, Min({r[1], end})>> \in Pair
    BY <1>1, <1>2 DEF Pair
  <1>5. Append(g.out, <<g.cursor, Min({r[1], end})>>) \in Lists
    BY <1>1, <1>4, Appended
  <1>. QED
    BY <1>1, <1>3, <1>5 DEF Skip, Gaps

\* The loop of _missing_ranges_between.
SkipAll(s, start, end) ==
  FoldLeft(LAMBDA gap, r : Skip(gap, r, end), [cursor |-> start, out |-> <<>>], s)

\* What the loop of _missing_ranges_between goes through.
LEMMA Skipping ==
  ASSUME NEW s \in Seq(Pair), NEW start \in Int, NEW end \in Int
  PROVE  \E f : /\ f[0] = [cursor |-> start, out |-> <<>>]
                /\ \A k \in 1 .. Len(s) : f[k] = Skip(f[k - 1], s[k], end)
                /\ SkipAll(s, start, end) = f[Len(s)]
  <1>. DEFINE n == Len(s)
              A == [p \in Gaps \X Pair |-> Skip(p[1], p[2], end)]
              Is(g) == g = [t \in SUBSET (1 .. n) |->
                              IF t = {} THEN [cursor |-> start, out |-> <<>>] ELSE Skip(g[t \ {Max(t)}], s[Max(t)], end)]
  <1>1. n \in Nat /\ DOMAIN s = 1 .. n /\ [cursor |-> start, out |-> <<>>] \in Gaps
    BY DEF Lists, Gaps
  <1>2. PICK h \in [SUBSET (1 .. n) -> Gaps] : IsFold(A, [cursor |-> start, out |-> <<>>], s, n, h)
    <2>1. A \in [Gaps \X Pair -> Gaps]
      BY SkipTyped
    <2>. HIDE DEF A
    <2>. QED
      BY <1>1, <2>1, FoldExists
  <1>3. Is(h)
    <2>1. ASSUME NEW t \in SUBSET (1 .. n), t # {}
          PROVE  A[<<h[t \ {Max(t)}], s[Max(t)]>>] = Skip(h[t \ {Max(t)}], s[Max(t)], end)
      <3>1. Max(t) \in 1 .. n
        BY <1>1, <2>1, MaxIsGreatest
      <3>2. s[Max(t)] \in Pair
        BY <1>1, <3>1, ElementOfSeq
      <3>3. h[t \ {Max(t)}] \in Gaps
        BY <1>2
      <3>. QED
        BY <3>2, <3>3
    <2>. HIDE DEF A
    <2>. QED
      BY <1>2, <2>1 DEF IsFold
  <1>4. SkipAll(s, start, end) = (CHOOSE g : Is(g))[1 .. n]
    BY <1>1 DEF SkipAll, FoldLeft, MapThenFoldSet
  <1>5. PICK g : Is(g) /\ SkipAll(s, start, end) = g[1 .. n]
    <2>. HIDE DEF Is
    <2>. QED
      BY <1>3, <1>4
  <1>. DEFINE f == [k \in 0 .. n |-> g[1 .. k]]
  <1>6. f[0] = [cursor |-> start, out |-> <<>>] /\ f[n] = g[1 .. n]
    <2>1. 1 .. 0 = {} /\ {} \in SUBSET (1 .. n) /\ 0 \in 0 .. n /\ n \in 0 .. n
      BY <1>1
    <2>. QED
      BY <1>5, <2>1
  <1>7. ASSUME NEW k \in 1 .. n PROVE f[k] = Skip(f[k - 1], s[k], end)
    <2>1. f[k] = g[1 .. k] /\ f[k - 1] = g[1 .. k - 1]
      BY <1>1
    <2>2. g[1 .. k] = Skip(g[(1 .. k) \ {Max(1 .. k)}], s[Max(1 .. k)], end)
      BY <1>1, <1>5, Prefix
    <2>3. g[1 .. k] = Skip(g[1 .. k - 1], s[k], end)
      BY <1>1, <2>2, Prefix
    <2>. HIDE DEF f
    <2>. QED
      BY <2>1, <2>3
  <1>. HIDE DEF f
  <1>. QED
    BY <1>5, <1>6, <1>7

\* A position brought into the file.
LEMMA CutTyped ==
  ASSUME NEW n \in Int, NEW limit \in Nat
  PROVE  Cut(n, limit) = IF n <= 0 THEN 0 ELSE IF n <= limit THEN n ELSE limit
  <1>1. Min({n, limit}) = IF n <= limit THEN n ELSE limit
    BY MinOfTwo
  <1>2. Min({n, limit}) \in Int
    BY <1>1
  <1>3. Max({0, Min({n, limit})}) = IF 0 >= Min({n, limit}) THEN 0 ELSE Min({n, limit})
    BY <1>2, MaxOfTwo
  <1>. QED
    BY <1>1, <1>3 DEF Cut

\* A round of from_received_ranges leaves a list.
LEMMA KeepTyped ==
  ASSUME NEW m \in Lists, NEW r \in Pair, NEW limit \in Nat
  PROVE  Keep(m, r, limit) \in Lists
  <1>1. <<Cut(r[1], limit), Cut(r[2], limit)>> \in Pair
    BY CutTyped DEF Pair
  <1>. QED
    BY <1>1, Appended DEF Keep

\* The loop of from_received_ranges.
KeepAll(s, limit) == FoldLeft(LAMBDA kept, r : Keep(kept, r, limit), <<>>, s)

\* The lists that the loop of from_received_ranges goes through.
LEMMA Keeping ==
  ASSUME NEW s \in Seq(Pair), NEW limit \in Nat
  PROVE  \E f : /\ f[0] = <<>>
                /\ \A k \in 1 .. Len(s) : f[k] = Keep(f[k - 1], s[k], limit)
                /\ KeepAll(s, limit) = f[Len(s)]
  <1>. DEFINE n == Len(s)
              A == [p \in Lists \X Pair |-> Keep(p[1], p[2], limit)]
              Is(g) == g = [t \in SUBSET (1 .. n) |->
                              IF t = {} THEN <<>> ELSE Keep(g[t \ {Max(t)}], s[Max(t)], limit)]
  <1>1. n \in Nat /\ DOMAIN s = 1 .. n /\ <<>> \in Lists
    BY DEF Lists
  <1>2. PICK h \in [SUBSET (1 .. n) -> Lists] : IsFold(A, <<>>, s, n, h)
    <2>1. A \in [Lists \X Pair -> Lists]
      BY KeepTyped
    <2>. HIDE DEF A
    <2>. QED
      BY <1>1, <2>1, FoldExists
  <1>3. Is(h)
    <2>1. ASSUME NEW t \in SUBSET (1 .. n), t # {}
          PROVE  A[<<h[t \ {Max(t)}], s[Max(t)]>>] = Keep(h[t \ {Max(t)}], s[Max(t)], limit)
      <3>1. Max(t) \in 1 .. n
        BY <1>1, <2>1, MaxIsGreatest
      <3>2. s[Max(t)] \in Pair
        BY <1>1, <3>1, ElementOfSeq
      <3>3. h[t \ {Max(t)}] \in Lists
        BY <1>2
      <3>. QED
        BY <3>2, <3>3
    <2>. HIDE DEF A
    <2>. QED
      BY <1>2, <2>1 DEF IsFold
  <1>4. KeepAll(s, limit) = (CHOOSE g : Is(g))[1 .. n]
    BY <1>1 DEF KeepAll, FoldLeft, MapThenFoldSet
  <1>5. PICK g : Is(g) /\ KeepAll(s, limit) = g[1 .. n]
    <2>. HIDE DEF Is
    <2>. QED
      BY <1>3, <1>4
  <1>. DEFINE f == [k \in 0 .. n |-> g[1 .. k]]
  <1>6. f[0] = <<>> /\ f[n] = g[1 .. n]
    <2>1. 1 .. 0 = {} /\ {} \in SUBSET (1 .. n) /\ 0 \in 0 .. n /\ n \in 0 .. n
      BY <1>1
    <2>. QED
      BY <1>5, <2>1
  <1>7. ASSUME NEW k \in 1 .. n PROVE f[k] = Keep(f[k - 1], s[k], limit)
    <2>1. f[k] = g[1 .. k] /\ f[k - 1] = g[1 .. k - 1]
      BY <1>1
    <2>2. g[1 .. k] = Keep(g[(1 .. k) \ {Max(1 .. k)}], s[Max(1 .. k)], limit)
      BY <1>1, <1>5, Prefix
    <2>3. g[1 .. k] = Keep(g[1 .. k - 1], s[k], limit)
      BY <1>1, <2>2, Prefix
    <2>. HIDE DEF f
    <2>. QED
      BY <2>1, <2>3
  <1>. HIDE DEF f
  <1>. QED
    BY <1>5, <1>6, <1>7

\* The sums that the count of chunks goes through.
LEMMA Counting ==
  ASSUME NEW s \in Seq(Pair)
  PROVE  \E f : /\ f[0] = 0
                /\ \A k \in 1 .. Len(s) : f[k] = f[k - 1] + s[k][2] - s[k][1]
                /\ CountOf(s) = f[Len(s)]
  <1>. DEFINE n == Len(s)
              A == [p \in Int \X Pair |-> p[1] + p[2][2] - p[2][1]]
              Is(g) == g = [t \in SUBSET (1 .. n) |->
                              IF t = {} THEN 0 ELSE g[t \ {Max(t)}] + s[Max(t)][2] - s[Max(t)][1]]
  <1>1. n \in Nat /\ DOMAIN s = 1 .. n /\ 0 \in Int
    BY DEF Lists
  <1>2. PICK h \in [SUBSET (1 .. n) -> Int] : IsFold(A, 0, s, n, h)
    <2>1. A \in [Int \X Pair -> Int]
      BY DEF Pair
    <2>. HIDE DEF A
    <2>. QED
      BY <1>1, <2>1, FoldExists
  <1>3. Is(h)
    <2>1. ASSUME NEW t \in SUBSET (1 .. n), t # {}
          PROVE  A[<<h[t \ {Max(t)}], s[Max(t)]>>] = h[t \ {Max(t)}] + s[Max(t)][2] - s[Max(t)][1]
      <3>1. Max(t) \in 1 .. n
        BY <1>1, <2>1, MaxIsGreatest
      <3>2. s[Max(t)] \in Pair
        BY <1>1, <3>1, ElementOfSeq
      <3>3. h[t \ {Max(t)}] \in Int
        BY <1>2
      <3>. QED
        BY <3>2, <3>3
    <2>. HIDE DEF A
    <2>. QED
      BY <1>2, <2>1 DEF IsFold
  <1>4. CountOf(s) = (CHOOSE g : Is(g))[1 .. n]
    BY <1>1 DEF CountOf, FoldLeft, MapThenFoldSet
  <1>5. PICK g : Is(g) /\ CountOf(s) = g[1 .. n]
    <2>. HIDE DEF Is
    <2>. QED
      BY <1>3, <1>4
  <1>. DEFINE f == [k \in 0 .. n |-> g[1 .. k]]
  <1>6. f[0] = 0 /\ f[n] = g[1 .. n]
    <2>1. 1 .. 0 = {} /\ {} \in SUBSET (1 .. n) /\ 0 \in 0 .. n /\ n \in 0 .. n
      BY <1>1
    <2>. QED
      BY <1>5, <2>1
  <1>7. ASSUME NEW k \in 1 .. n PROVE f[k] = f[k - 1] + s[k][2] - s[k][1]
    <2>1. f[k] = g[1 .. k] /\ f[k - 1] = g[1 .. k - 1]
      BY <1>1
    <2>2. g[1 .. k] = g[(1 .. k) \ {Max(1 .. k)}] + s[Max(1 .. k)][2] - s[Max(1 .. k)][1]
      BY <1>1, <1>5, Prefix
    <2>3. g[1 .. k] = g[1 .. k - 1] + s[k][2] - s[k][1]
      BY <1>1, <2>2, Prefix
    <2>. HIDE DEF f
    <2>. QED
      BY <2>1, <2>3
  <1>. HIDE DEF f
  <1>. QED
    BY <1>5, <1>6, <1>7

-----------------------------------------------------------------------------
(* Sorting. *)

\* How many elements of S stand before one in the order B.
RankIn(S, B) == [x \in S |-> Cardinality({w \in S : <<w, x>> \in B})]

\* In a finite set with a strict total order, one element has k before it for each k.
LEMMA Ranks ==
  ASSUME NEW S, IsFiniteSet(S), NEW B,
         \A x \in S : <<x, x>> \notin B,
         \A x \in S, y \in S, z \in S : <<x, y>> \in B /\ <<y, z>> \in B => <<x, z>> \in B,
         \A x \in S, y \in S : x = y \/ <<x, y>> \in B \/ <<y, x>> \in B
  PROVE  /\ Cardinality(S) \in Nat
         /\ \A x \in S : RankIn(S, B)[x] \in 0 .. Cardinality(S) - 1
         /\ \A k \in 0 .. Cardinality(S) - 1 : \E x \in S : RankIn(S, B)[x] = k
         /\ \A x \in S, y \in S : RankIn(S, B)[x] = RankIn(S, B)[y] => x = y
         /\ \A x \in S, y \in S : RankIn(S, B)[x] < RankIn(S, B)[y] => <<x, y>> \in B
  <1>. DEFINE n == Cardinality(S)
              Under(x) == {w \in S : <<w, x>> \in B}
              Rank == RankIn(S, B)
  <1>1. n \in Nat
    BY FS_CardinalityType
  <1>2. ASSUME NEW x \in S
        PROVE  IsFiniteSet(Under(x)) /\ Rank[x] = Cardinality(Under(x)) /\ Rank[x] \in 0 .. n - 1
    <2>1. Under(x) \in SUBSET (S \ {x})
      OBVIOUS
    <2>2. IsFiniteSet(S \ {x}) /\ Cardinality(S \ {x}) = n - 1
      BY FS_RemoveElement
    <2>0. Rank[x] = Cardinality(Under(x))
      BY DEF RankIn
    <2>. HIDE DEF Under, n
    <2>3. IsFiniteSet(Under(x)) /\ Cardinality(Under(x)) <= n - 1
      <3>1. Cardinality(Under(x)) <= Cardinality(S \ {x})
        BY <2>1, <2>2, FS_Subset
      <3>. QED
        BY <2>1, <2>2, <3>1, FS_Subset
    <2>4. Cardinality(Under(x)) \in Nat
      BY <2>3, FS_CardinalityType
    <2>. QED
      BY <1>1, <2>0, <2>3, <2>4
  <1>. HIDE DEF n, Under
  <1>7. Rank = [x \in S |-> Rank[x]]
    BY DEF RankIn
  <1>. HIDE DEF Rank
  <1>3. ASSUME NEW x \in S, NEW y \in S, <<x, y>> \in B
        PROVE  Rank[x] < Rank[y]
    <2>1. Under(x) \in SUBSET Under(y) /\ x \in Under(y) /\ x \notin Under(x)
      BY <1>3 DEF Under
    <2>2. IsFiniteSet(Under(x)) /\ IsFiniteSet(Under(y))
      BY <1>2
    <2>3. /\ Cardinality(Under(x)) <= Cardinality(Under(y))
          /\ Cardinality(Under(x)) # Cardinality(Under(y))
      BY <2>1, <2>2, FS_Subset
    <2>. QED
      BY <1>1, <1>2, <2>3
  <1>4. \A x \in S, y \in S : Rank[x] = Rank[y] => x = y
    <2>. SUFFICES ASSUME NEW x \in S, NEW y \in S, Rank[x] = Rank[y], x # y PROVE FALSE
      OBVIOUS
    <2>1. Rank[x] < Rank[y] \/ Rank[y] < Rank[x]
      BY <1>3
    <2>2. Rank[x] \in Int /\ Rank[y] \in Int
      <3>1. Rank[x] \in 0 .. n - 1 /\ Rank[y] \in 0 .. n - 1
        BY <1>2
      <3>. QED
        BY <1>1, <3>1
    <2>. QED
      BY <2>1, <2>2
  <1>5. \A x \in S, y \in S : Rank[x] < Rank[y] => <<x, y>> \in B
    <2>. SUFFICES ASSUME NEW x \in S, NEW y \in S, Rank[x] < Rank[y], <<x, y>> \notin B
                  PROVE  FALSE
      OBVIOUS
    <2>1. Rank[x] \in Int /\ Rank[y] \in Int
      <3>1. Rank[x] \in 0 .. n - 1 /\ Rank[y] \in 0 .. n - 1
        BY <1>2
      <3>. QED
        BY <1>1, <3>1
    <2>2. x # y
      BY <2>1
    <2>3. Rank[y] < Rank[x]
      BY <1>3, <2>2
    <2>. QED
      BY <2>1, <2>3
  <1>6. \A k \in 0 .. n - 1 : \E x \in S : Rank[x] = k
    <2>1. Rank \in [S -> 0 .. n - 1]
      BY <1>2, <1>7
    <2>2. Rank \in Injection(S, 0 .. n - 1)
      BY <1>4, <2>1 DEF Injection, IsInjective
    <2>3. IsFiniteSet(0 .. n - 1) /\ Cardinality(0 .. n - 1) = n
      <3>1. IsFiniteSet(0 .. n - 1)
            /\ Cardinality(0 .. n - 1) = IF 0 > n - 1 THEN 0 ELSE n - 1 - 0 + 1
        BY <1>1, FS_Interval
      <3>. QED
        BY <1>1, <3>1
    <2>4. Rank \in Surjection(S, 0 .. n - 1)
      BY <2>2, <2>3, FS_Injection DEF n
    <2>. QED
      BY <2>4 DEF Surjection
  <1>. QED
    BY <1>1, <1>2, <1>4, <1>5, <1>6 DEF n, Rank

\* Sorting keeps the ranges and puts them in order.
LEMMA Sorted ==
  ASSUME NEW l \in Lists
  PROVE  /\ ByStart(l) \in Lists /\ Len(ByStart(l)) = Len(l)
         /\ \A i \in 1 .. Len(l), j \in 1 .. Len(l) : i < j => ByStart(l)[i][1] <= ByStart(l)[j][1]
         /\ \A i \in 1 .. Len(l) : \E j \in 1 .. Len(l) : ByStart(l)[i] = l[j]
         /\ \A j \in 1 .. Len(l) : \E i \in 1 .. Len(l) : ByStart(l)[i] = l[j]
  <1>. DEFINE n == Len(l)
              S == 1 .. n
              B == {p \in S \X S : \/ l[p[1]][1] < l[p[2]][1]
                                   \/ l[p[1]][1] = l[p[2]][1] /\ p[1] < p[2]}
              Rank == RankIn(S, B)
              At(p) == CHOOSE j \in S : Rank[j] = p - 1
  <1>1. n \in Nat /\ DOMAIN l = S /\ \A i \in S : l[i] \in Pair /\ l[i][1] \in Int
    BY ElementOfSeq DEF Lists, Pair
  <1>2. IsFiniteSet(S) /\ Cardinality(S) = n
    <2>1. IsFiniteSet(S) /\ Cardinality(S) = IF 1 > n THEN 0 ELSE n - 1 + 1
      <3>1. 1 \in Int /\ n \in Int
        BY <1>1
      <3>. HIDE DEF n
      <3>. QED
        BY <3>1, FS_Interval
    <2>. QED
      BY <1>1, <2>1
  <1>3. \A i \in S, j \in S : <<i, j>> \in B <=> l[i][1] < l[j][1] \/ (l[i][1] = l[j][1] /\ i < j)
    OBVIOUS
  <1>4. /\ \A x \in S : Rank[x] \in 0 .. n - 1
        /\ \A k \in 0 .. n - 1 : \E x \in S : Rank[x] = k
        /\ \A x \in S, y \in S : Rank[x] = Rank[y] => x = y
        /\ \A x \in S, y \in S : Rank[x] < Rank[y] => <<x, y>> \in B
    <2>. HIDE DEF B
    <2>1. \A x \in S : <<x, x>> \notin B
      BY <1>1, <1>3
    <2>2. \A x \in S, y \in S, z \in S : <<x, y>> \in B /\ <<y, z>> \in B => <<x, z>> \in B
      BY <1>1, <1>3
    <2>3. ASSUME NEW x \in S, NEW y \in S PROVE x = y \/ <<x, y>> \in B \/ <<y, x>> \in B
      <3>1. x \in Int /\ y \in Int /\ l[x][1] \in Int /\ l[y][1] \in Int
        BY <1>1
      <3>. QED
        BY <1>3, <3>1
    <2>. HIDE DEF S, B
    <2>4. /\ \A x \in S : Rank[x] \in 0 .. Cardinality(S) - 1
          /\ \A k \in 0 .. Cardinality(S) - 1 : \E x \in S : Rank[x] = k
          /\ \A x \in S, y \in S : Rank[x] = Rank[y] => x = y
          /\ \A x \in S, y \in S : Rank[x] < Rank[y] => <<x, y>> \in B
      <3>. IsFiniteSet(S)
        BY <1>2
      <3>1. \A x \in S : Rank[x] \in 0 .. Cardinality(S) - 1
        BY <2>1, <2>2, <2>3, Ranks
      <3>2. \A k \in 0 .. Cardinality(S) - 1 : \E x \in S : Rank[x] = k
        BY <2>1, <2>2, <2>3, Ranks
      <3>3. \A x \in S, y \in S : Rank[x] = Rank[y] => x = y
        BY <2>1, <2>2, <2>3, Ranks
      <3>4. \A x \in S, y \in S : Rank[x] < Rank[y] => <<x, y>> \in B
        BY <2>1, <2>2, <2>3, Ranks
      <3>. QED
        BY <3>1, <3>2, <3>3, <3>4
    <2>. QED
      BY <1>2, <2>4
  <1>5. ByStart(l) = [p \in S |-> l[At(p)]]
    <2>1. ASSUME NEW j \in S PROVE Rank[j] = Cardinality(Before(l, j))
      <3>1. {i \in S : <<i, j>> \in B} = Before(l, j)
        BY <1>1, <1>3 DEF Before
      <3>. QED
        BY <3>1 DEF RankIn
    <2>2. ByStart(l) = [p \in S |-> l[CHOOSE j \in S : Cardinality(Before(l, j)) = p - 1]]
      BY <1>1 DEF ByStart
    <2>. HIDE DEF Rank, S
    <2>3. ASSUME NEW p \in S
          PROVE  (CHOOSE j \in S : Cardinality(Before(l, j)) = p - 1) = At(p)
      BY <2>1
    <2>. HIDE DEF At
    <2>. QED
      BY <2>2, <2>3
  <1>. HIDE DEF B, Rank
  <1>6. ASSUME NEW p \in S PROVE At(p) \in S /\ Rank[At(p)] = p - 1
    <2>1. p - 1 \in 0 .. n - 1
      BY <1>1
    <2>2. \E j \in S : Rank[j] = p - 1
      BY <1>4, <2>1
    <2>. QED
      BY <2>2
  <1>. HIDE DEF At
  <1>7. ByStart(l) \in [S -> Pair] /\ \A p \in S : ByStart(l)[p] = l[At(p)]
    BY <1>1, <1>5, <1>6
  <1>8. ByStart(l) \in Lists /\ Len(ByStart(l)) = n
    BY <1>1, <1>7 DEF Lists
  <1>9. ASSUME NEW i \in S, NEW j \in S, i < j PROVE ByStart(l)[i][1] <= ByStart(l)[j][1]
    <2>1. Rank[At(i)] < Rank[At(j)]
      BY <1>1, <1>6, <1>9
    <2>2. <<At(i), At(j)>> \in B
      BY <1>4, <1>6, <2>1
    <2>3. At(i) \in S /\ At(j) \in S
      BY <1>6
    <2>4. l[At(i)][1] <= l[At(j)][1]
      BY <1>1, <1>3, <2>2, <2>3
    <2>. QED
      BY <1>7, <2>4
  <1>10. ASSUME NEW j \in S PROVE \E i \in S : ByStart(l)[i] = l[j]
    <2>1. \E p \in S : p - 1 = Rank[j]
      <3>1. Rank[j] \in 0 .. n - 1
        BY <1>4
      <3>. DEFINE p == Rank[j] + 1
      <3>2. p \in S /\ p - 1 = Rank[j]
        BY <1>1, <3>1
      <3>. HIDE DEF p, S
      <3>. QED
        BY <3>2
    <2>2. PICK p \in S : p - 1 = Rank[j]
      BY <2>1
    <2>3. At(p) \in S /\ Rank[At(p)] = Rank[j]
      BY <1>6, <2>2
    <2>4. At(p) = j
      BY <1>4, <2>3
    <2>. QED
      BY <1>7, <2>2, <2>4
  <1>. QED
    BY <1>6, <1>7, <1>8, <1>9, <1>10

-----------------------------------------------------------------------------
(* Canonical lists. *)

\* Chunk v is in range r, in a list.
Within(r, v) == r[1] <= v /\ v < r[2]
Has(l, v) == \E i \in 1 .. Len(l) : Within(l[i], v)

\* In order, with a chunk or more between two ranges.
Separate(l) == \A i \in 1 .. Len(l), j \in 1 .. Len(l) : i < j => l[i][2] < l[j][1]
Proper(l) == \A i \in 1 .. Len(l) : l[i][1] < l[i][2]
Canonical(l) == l \in Lists /\ Separate(l) /\ Proper(l)

\* Positions and ends of a list.
LEMMA Ends ==
  ASSUME NEW l \in Lists
  PROVE  /\ Len(l) \in Nat /\ DOMAIN l = 1 .. Len(l)
         /\ \A i \in 1 .. Len(l) : l[i] \in Pair /\ l[i][1] \in Int /\ l[i][2] \in Int
  BY ElementOfSeq DEF Lists, Pair

\* The chunks of a list are those in one of its ranges.
LEMMA Expanded ==
  ASSUME NEW l \in Lists
  PROVE  Expand(l) \in SUBSET Int /\ \A v \in Int : v \in Expand(l) <=> Has(l, v)
  <1>1. ToSet(l) = {l[i] : i \in 1 .. Len(l)}
    BY Ends DEF ToSet
  <1>2. \A v : v \in Expand(l) <=> \E i \in 1 .. Len(l) : v \in l[i][1] .. l[i][2] - 1
    BY <1>1 DEF Expand
  <1>3. ASSUME NEW i \in 1 .. Len(l), NEW v
        PROVE  v \in l[i][1] .. l[i][2] - 1 <=> v \in Int /\ Within(l[i], v)
    <2>1. l[i][1] \in Int /\ l[i][2] \in Int
      BY Ends
    <2>. QED
      BY <2>1 DEF Within
  <1>. QED
    BY <1>2, <1>3 DEF Has

\* The empty list is canonical and has nothing.
LEMMA NoRanges == Canonical(<<>>) /\ \A v : ~Has(<<>>, v)
  <1>1. <<>> \in Lists /\ Len(<<>>) = 0 /\ \A i : i \notin 1 .. 0
    BY DEF Lists
  <1>. QED
    BY <1>1 DEF Canonical, Separate, Proper, Has

\* A range of one list that is none of the other starts where the other has no chunk,
\* or ends there.
LEMMA SameRange ==
  ASSUME NEW l, Canonical(l), NEW m, Canonical(m),
         \A v \in Int : Has(l, v) <=> Has(m, v),
         NEW i \in 1 .. Len(l),
         \A k \in 1 .. Len(l) : k < i => k \in 1 .. Len(m) /\ m[k] = l[k]
  PROVE  i \in 1 .. Len(m) /\ m[i][1] <= l[i][1]
  <1>1. l \in Lists /\ m \in Lists /\ i \in Nat /\ Len(m) \in Nat
    BY Ends DEF Canonical
  <1>2. l[i][1] \in Int /\ Has(l, l[i][1])
    BY <1>1, Ends DEF Canonical, Proper, Has, Within
  <1>3. PICK j \in 1 .. Len(m) : Within(m[j], l[i][1])
    BY <1>2 DEF Has
  <1>4. ~(j < i)
    <2>. SUFFICES ASSUME j < i PROVE FALSE
      OBVIOUS
    <2>1. j \in 1 .. Len(l) /\ m[j] = l[j]
      <3>1. j \in 1 .. Len(l)
        BY <1>1, Ends
      <3>. QED
        BY <3>1
    <2>2. l[j][2] < l[i][1]
      BY <2>1 DEF Canonical, Separate
    <2>3. l[i][1] < l[j][2]
      BY <1>3, <2>1 DEF Within
    <2>. QED
      BY <1>1, <1>2, <2>1, <2>2, <2>3, Ends
  <1>5. i \in 1 .. Len(m)
    BY <1>1, <1>4
  <1>6. m[i][1] <= m[j][1]
    <2>1. CASE i = j
      BY <1>1, <1>5, <2>1, Ends
    <2>2. CASE i < j
      <3>1. m[i][1] < m[i][2] /\ m[i][2] < m[j][1]
        BY <1>5, <2>2 DEF Canonical, Separate, Proper
      <3>. QED
        BY <1>1, <1>5, <3>1, Ends
    <2>. QED
      BY <1>1, <1>4, <2>1, <2>2
  <1>7. m[j][1] <= l[i][1]
    BY <1>3 DEF Within
  <1>. QED
    BY <1>1, <1>2, <1>5, <1>6, <1>7, Ends

\* Of two ranges that start together in lists of the same chunks, neither ends first.
LEMMA SameEnd ==
  ASSUME NEW l, Canonical(l), NEW m, Canonical(m),
         \A v \in Int : Has(l, v) <=> Has(m, v),
         NEW i \in 1 .. Len(l), i \in 1 .. Len(m), m[i][1] = l[i][1]
  PROVE  ~(l[i][2] < m[i][2])
  <1>. SUFFICES ASSUME l[i][2] < m[i][2] PROVE FALSE
    OBVIOUS
  <1>1. l \in Lists /\ m \in Lists
    BY DEF Canonical
  <1>2. l[i][1] \in Int /\ l[i][2] \in Int /\ l[i][1] < l[i][2]
    BY <1>1, Ends DEF Canonical, Proper
  <1>3. Within(m[i], l[i][2])
    BY <1>2 DEF Within
  <1>4. PICK j \in 1 .. Len(l) : Within(l[j], l[i][2])
    BY <1>2, <1>3 DEF Has
  <1>5. l[j][1] \in Int /\ l[j][2] \in Int /\ l[j][1] <= l[i][2] /\ l[i][2] < l[j][2]
    BY <1>1, <1>4, Ends DEF Within
  <1>6. j # i
    BY <1>2, <1>5
  <1>7. i < j => l[i][2] < l[j][1]
    BY DEF Canonical, Separate
  <1>8. j < i => l[j][2] < l[i][1]
    BY DEF Canonical, Separate
  <1>9. i < j \/ j < i
    BY <1>6, <1>1, Ends
  <1>. QED
    BY <1>2, <1>5, <1>7, <1>8, <1>9

\* A set of chunks has one canonical list.
LEMMA OneList ==
  ASSUME NEW l, Canonical(l), NEW m, Canonical(m),
         \A v \in Int : Has(l, v) <=> Has(m, v)
  PROVE  l = m
  <1>. DEFINE Bad == {i \in 1 .. Len(l) : ~(i \in 1 .. Len(m) /\ m[i] = l[i])}
  <1>1. l \in Lists /\ m \in Lists /\ Len(l) \in Nat /\ Len(m) \in Nat
    BY Ends DEF Canonical
  <1>2. Bad = {}
    <2>. SUFFICES ASSUME Bad # {} PROVE FALSE
      OBVIOUS
    <2>1. PICK i \in Bad : \A k \in Bad : i <= k
      <3>1. Bad \in SUBSET Nat
        BY <1>1
      <3>. QED
        BY <3>1, Least
    <2>2. \A k \in 1 .. Len(l) : k < i => k \in 1 .. Len(m) /\ m[k] = l[k]
      BY <1>1, <2>1
    <2>3. i \in 1 .. Len(l) /\ i \in 1 .. Len(m) /\ m[i][1] <= l[i][1]
      BY <2>1, <2>2, SameRange
    <2>4. l[i][1] <= m[i][1]
      <3>1. \A k \in 1 .. Len(m) : k < i => k \in 1 .. Len(l) /\ l[k] = m[k]
        BY <1>1, <2>2, <2>3
      <3>. QED
        BY <2>3, <3>1, SameRange
    <2>5. l[i] \in Pair /\ m[i] \in Pair /\ l[i][1] \in Int /\ l[i][2] \in Int
          /\ m[i][1] \in Int /\ m[i][2] \in Int
      BY <1>1, <2>3, Ends
    <2>6. l[i][1] = m[i][1]
      BY <2>3, <2>4, <2>5
    <2>7. ~(l[i][2] < m[i][2]) /\ ~(m[i][2] < l[i][2])
      BY <2>3, <2>6, SameEnd
    <2>8. l[i] = m[i]
      BY <2>5, <2>6, <2>7 DEF Pair
    <2>. QED
      BY <2>1, <2>3, <2>8
  <1>3. Len(l) = Len(m)
    <2>1. \A i \in 1 .. Len(l) : i \in 1 .. Len(m) /\ m[i] = l[i]
      BY <1>2
    <2>2. Len(l) <= Len(m)
      BY <1>1, <2>1
    <2>3. CASE Len(l) < Len(m)
      <3>1. Len(l) + 1 \in 1 .. Len(m)
        BY <1>1, <2>3
      <3>2. m[Len(l) + 1][1] \in Int /\ m[Len(l) + 1][1] < m[Len(l) + 1][2]
        BY <1>1, <3>1, Ends DEF Canonical, Proper
      <3>3. Has(m, m[Len(l) + 1][1])
        BY <3>1, <3>2 DEF Has, Within
      <3>4. PICK j \in 1 .. Len(l) : Within(l[j], m[Len(l) + 1][1])
        BY <3>2, <3>3 DEF Has
      <3>5. j \in 1 .. Len(m) /\ m[j] = l[j] /\ j < Len(l) + 1
        BY <1>1, <2>1
      <3>6. m[j][2] < m[Len(l) + 1][1]
        BY <3>1, <3>5 DEF Canonical, Separate
      <3>7. m[j][2] \in Int /\ m[Len(l) + 1][1] < m[j][2]
        BY <1>1, <3>4, <3>5, Ends DEF Within
      <3>. QED
        BY <3>2, <3>6, <3>7
    <2>. QED
      BY <1>1, <2>2, <2>3
  <1>. QED
    BY <1>1, <1>2, <1>3, SeqEqual DEF Lists

-----------------------------------------------------------------------------
(* merge_ranges. *)

\* What the loop keeps: "m" has what the first k ranges of s have.
MergedUpto(s, k, m) ==
  /\ m \in Lists /\ Separate(m)
  /\ \A v \in Int : Has(m, v) <=> \E i \in 1 .. k : Within(s[i], v)
  /\ \A i \in 1 .. Len(m) : \E j \in 1 .. k : m[i][1] = s[j][1]
  /\ (\A i \in 1 .. k : s[i][1] < s[i][2]) => Proper(m)

\* The next range begins behind the last one.
LEMMA AppendedRange ==
  ASSUME NEW m \in Lists, Separate(m), NEW r \in Pair,
         \A i \in 1 .. Len(m) : m[i][2] < r[1]
  PROVE  /\ Append(m, r) \in Lists /\ Separate(Append(m, r))
         /\ \A v : Has(Append(m, r), v) <=> Has(m, v) \/ Within(r, v)
         /\ Proper(m) /\ r[1] < r[2] => Proper(Append(m, r))
  <1>. DEFINE l == Append(m, r)
  <1>1. /\ l \in Lists /\ Len(l) = Len(m) + 1 /\ Len(m) \in Nat /\ l[Len(m) + 1] = r
        /\ \A i \in 1 .. Len(m) : l[i] = m[i]
    BY Appended
  <1>. HIDE DEF l
  <1>2. \A i \in 1 .. Len(l) : i \in 1 .. Len(m) \/ i = Len(m) + 1
    BY <1>1
  <1>3. Separate(l)
    <2>. SUFFICES ASSUME NEW i \in 1 .. Len(l), NEW j \in 1 .. Len(l), i < j
                  PROVE  l[i][2] < l[j][1]
      BY DEF Separate
    <2>1. i \in 1 .. Len(m)
      BY <1>1
    <2>. QED
      BY <1>1, <1>2, <2>1 DEF Separate
  <1>4. \A v : Has(l, v) <=> Has(m, v) \/ Within(r, v)
    <2>1. \A i \in 1 .. Len(m) : i \in 1 .. Len(l)
      BY <1>1
    <2>2. Len(m) + 1 \in 1 .. Len(l)
      BY <1>1
    <2>. QED
      BY <1>1, <1>2, <2>1, <2>2 DEF Has
  <1>5. Proper(m) /\ r[1] < r[2] => Proper(l)
    BY <1>1, <1>2 DEF Proper
  <1>. QED
    BY <1>1, <1>3, <1>4, <1>5 DEF l

\* The last range is replaced by one that begins where it began.
LEMMA ReplacedRange ==
  ASSUME NEW m \in Lists, m # <<>>, Separate(m), NEW r \in Pair, r[1] = Last(m)[1]
  PROVE  /\ Front(m) \o <<r>> \in Lists /\ Separate(Front(m) \o <<r>>)
         /\ \A v : (Within(Last(m), v) => Within(r, v))
              => (Has(Front(m) \o <<r>>, v) <=> Has(m, v) \/ Within(r, v))
         /\ Proper(m) /\ r[1] < r[2] => Proper(Front(m) \o <<r>>)
  <1>. DEFINE l == Front(m) \o <<r>>
              n == Len(m)
  <1>1. /\ l \in Lists /\ Len(l) = n /\ n \in Nat \ {0} /\ Last(m) = m[n] /\ Last(m) \in Pair
        /\ l[n] = r /\ \A i \in 1 .. n - 1 : l[i] = m[i]
    BY Replaced
  <1>. HIDE DEF l, n
  <1>2. \A i \in 1 .. n : i \in 1 .. n - 1 \/ i = n
    BY <1>1
  <1>3. Separate(l)
    <2>. SUFFICES ASSUME NEW i \in 1 .. n, NEW j \in 1 .. n, i < j
                  PROVE  l[i][2] < l[j][1]
      BY <1>1 DEF Separate
    <2>1. i \in 1 .. n - 1 /\ l[i] = m[i] /\ m[i][2] < m[j][1]
      BY <1>1 DEF Separate, n
    <2>2. l[j][1] = m[j][1]
      BY <1>1, <1>2
    <2>. QED
      BY <2>1, <2>2
  <1>4. ASSUME NEW v, Within(Last(m), v) => Within(r, v)
        PROVE  Has(l, v) <=> Has(m, v) \/ Within(r, v)
    <2>1. \A i \in 1 .. n - 1 : i \in 1 .. n
      BY <1>1
    <2>2. n \in 1 .. n
      BY <1>1
    <2>. QED
      BY <1>1, <1>2, <1>4, <2>1, <2>2 DEF Has, n
  <1>5. Proper(m) /\ r[1] < r[2] => Proper(l)
    BY <1>1, <1>2 DEF Proper, n
  <1>. QED
    BY <1>1, <1>3, <1>4, <1>5 DEF l

\* One round of the loop.
LEMMA AbsorbStep ==
  ASSUME NEW s \in Lists, NEW k \in Nat, k + 1 \in 1 .. Len(s), NEW m, MergedUpto(s, k, m),
         \A i \in 1 .. Len(s), j \in 1 .. Len(s) : i < j => s[i][1] <= s[j][1]
  PROVE  MergedUpto(s, k + 1, Absorb(m, s[k + 1]))
  <1>. DEFINE r == s[k + 1]
              e == <<Last(m)[1], Max({Last(m)[2], r[2]})>>
  <1>1. r \in Pair /\ r[1] \in Int /\ r[2] \in Int /\ m \in Lists /\ Separate(m)
    BY Ends DEF MergedUpto
  <1>2. \A i \in 1 .. Len(m) : m[i][1] \in Int /\ m[i][2] \in Int /\ m[i][1] <= r[1]
    <2>. SUFFICES ASSUME NEW i \in 1 .. Len(m)
                  PROVE  m[i][1] \in Int /\ m[i][2] \in Int /\ m[i][1] <= r[1]
      OBVIOUS
    <2>1. PICK j \in 1 .. k : m[i][1] = s[j][1]
      BY DEF MergedUpto
    <2>2. j \in 1 .. Len(s) /\ j < k + 1
      BY Ends
    <2>. QED
      BY <1>1, <2>1, <2>2, Ends
  <1>3. /\ \A v : (\E i \in 1 .. k + 1 : Within(s[i], v)) <=> (\E i \in 1 .. k : Within(s[i], v)) \/ Within(r, v)
        /\ (\A i \in 1 .. k + 1 : s[i][1] < s[i][2]) => (\A i \in 1 .. k : s[i][1] < s[i][2]) /\ r[1] < r[2]
        /\ \A j \in 1 .. k : j \in 1 .. k + 1
        /\ k + 1 \in 1 .. k + 1
    <2>1. \A i : i \in 1 .. k + 1 <=> i \in 1 .. k \/ i = k + 1
      OBVIOUS
    <2>. QED
      BY <2>1
  <1>4. CASE m # <<>> /\ r[1] <= Last(m)[2]
    <2>1. /\ Len(m) \in Nat \ {0} /\ Last(m) = m[Len(m)]
          /\ Len(Front(m) \o <<e>>) = Len(m)
          /\ (Front(m) \o <<e>>)[Len(m)] = e
          /\ \A i \in 1 .. Len(m) - 1 : (Front(m) \o <<e>>)[i] = m[i]
          /\ e \in Pair /\ e[2] = IF Last(m)[2] >= r[2] THEN Last(m)[2] ELSE r[2]
      <3>1. Len(m) \in Nat \ {0} /\ Last(m) = m[Len(m)] /\ Len(m) \in 1 .. Len(m)
        BY <1>1, <1>4, LastRange
      <3>2. Last(m)[1] \in Int /\ Last(m)[2] \in Int
        BY <1>2, <3>1
      <3>3. e \in Pair /\ e[2] = IF Last(m)[2] >= r[2] THEN Last(m)[2] ELSE r[2]
        BY <1>1, <3>2, MaxOfTwo DEF Pair
      <3>. HIDE DEF e
      <3>. QED
        BY <1>1, <1>4, <3>1, <3>3, Replaced
    <2>2. e[1] = Last(m)[1]
      OBVIOUS
    <2>. HIDE DEF e
    <2>3. /\ Last(m)[1] \in Int /\ Last(m)[2] \in Int /\ Last(m)[1] <= r[1] /\ e[1] \in Int
      BY <1>2, <2>1, <2>2
    <2>4. /\ Front(m) \o <<e>> \in Lists /\ Separate(Front(m) \o <<e>>)
          /\ \A v : (Within(Last(m), v) => Within(e, v))
               => (Has(Front(m) \o <<e>>, v) <=> Has(m, v) \/ Within(e, v))
          /\ Proper(m) /\ e[1] < e[2] => Proper(Front(m) \o <<e>>)
      BY <1>1, <1>4, <2>1, <2>2, ReplacedRange
    <2>5. ASSUME NEW v \in Int PROVE Within(e, v) <=> Within(Last(m), v) \/ Within(r, v)
      <3>. DEFINE a == Last(m)[1]
                  b == Last(m)[2]
                  c == r[1]
                  d == r[2]
      <3>1. /\ a \in Int /\ b \in Int /\ c \in Int /\ d \in Int /\ a <= c /\ c <= b
            /\ e[1] = a /\ e[2] = IF b >= d THEN b ELSE d
        BY <1>1, <1>4, <2>1, <2>2, <2>3
      <3>. HIDE DEF a, b, c, d
      <3>2. a <= v /\ v < e[2] <=> (a <= v /\ v < b) \/ (c <= v /\ v < d)
        BY <3>1
      <3>. QED
        BY <3>1, <3>2 DEF Within, a, b, c, d
    <2>6. \A v : Within(Last(m), v) => Has(m, v)
      BY <2>1 DEF Has
    <2>7. ASSUME NEW v \in Int
          PROVE  Has(Front(m) \o <<e>>, v) <=> Has(m, v) \/ Within(r, v)
      <3>1. Within(e, v) <=> Within(Last(m), v) \/ Within(r, v)
        BY <2>5
      <3>2. Within(Last(m), v) => Has(m, v)
        BY <2>6
      <3>3. Has(Front(m) \o <<e>>, v) <=> Has(m, v) \/ Within(e, v)
        BY <2>4, <3>1
      <3>. QED
        BY <3>1, <3>2, <3>3
    <2>8. ASSUME NEW i \in 1 .. Len(m)
          PROVE  \E j \in 1 .. k : (Front(m) \o <<e>>)[i][1] = s[j][1]
      <3>1. (Front(m) \o <<e>>)[i][1] = m[i][1]
        BY <2>1, <2>2
      <3>. QED
        BY <3>1 DEF MergedUpto
    <2>9. r[1] < r[2] => e[1] < e[2]
      <3>1. /\ r[1] \in Int /\ r[2] \in Int /\ Last(m)[2] \in Int
            /\ e[1] \in Int /\ e[1] <= r[1] /\ r[2] <= e[2] /\ e[2] \in Int
        BY <1>1, <2>1, <2>2, <2>3
      <3>. HIDE DEF r
      <3>. QED
        BY <3>1
    <2>10. Absorb(m, r) = Front(m) \o <<e>>
      BY <1>4 DEF Absorb, e
    <2>. HIDE DEF r
    <2>11. \A v \in Int : Has(Absorb(m, r), v) <=> \E i \in 1 .. k + 1 : Within(s[i], v)
      BY <1>3, <2>7, <2>10 DEF MergedUpto
    <2>12. \A i \in 1 .. Len(Absorb(m, r)) : \E j \in 1 .. k + 1 : Absorb(m, r)[i][1] = s[j][1]
      <3>1. Len(Absorb(m, r)) = Len(m)
        BY <2>1, <2>10
      <3>2. \A i \in 1 .. Len(m) : \E j \in 1 .. k : Absorb(m, r)[i][1] = s[j][1]
        BY <2>8, <2>10
      <3>3. \A j \in 1 .. k : j \in 1 .. k + 1
        BY <1>3
      <3>. QED
        BY <3>1, <3>2, <3>3
    <2>13. (\A i \in 1 .. k + 1 : s[i][1] < s[i][2]) => Proper(Absorb(m, r))
      BY <1>3, <2>4, <2>9, <2>10 DEF MergedUpto
    <2>. QED
      BY <2>4, <2>10, <2>11, <2>12, <2>13 DEF MergedUpto, r
  <1>5. CASE ~(m # <<>> /\ r[1] <= Last(m)[2])
    <2>1. \A i \in 1 .. Len(m) : m[i][2] < r[1]
      <3>. SUFFICES ASSUME NEW i \in 1 .. Len(m) PROVE m[i][2] < r[1]
        OBVIOUS
      <3>1. m # <<>>
        BY <1>1, EmptySeq, Ends
      <3>2. Last(m) = m[Len(m)] /\ Len(m) \in 1 .. Len(m)
        BY <1>1, <3>1, LastRange
      <3>3. m[Len(m)][2] < r[1]
        BY <1>1, <1>2, <1>5, <3>1, <3>2
      <3>4. CASE i = Len(m)
        BY <3>3, <3>4
      <3>5. CASE i < Len(m)
        <4>1. m[i][2] < m[Len(m)][1] /\ m[Len(m)][1] <= r[1]
          BY <1>1, <1>2, <3>2, <3>5 DEF Separate
        <4>. QED
          BY <1>1, <1>2, <3>2, <4>1
      <3>. QED
        BY <1>1, <3>4, <3>5, Ends
    <2>2. /\ Append(m, r) \in Lists /\ Separate(Append(m, r))
          /\ \A v : Has(Append(m, r), v) <=> Has(m, v) \/ Within(r, v)
          /\ Proper(m) /\ r[1] < r[2] => Proper(Append(m, r))
      BY <1>1, <2>1, AppendedRange
    <2>3. ASSUME NEW i \in 1 .. Len(Append(m, r))
          PROVE  \E j \in 1 .. k + 1 : Append(m, r)[i][1] = s[j][1]
      <3>1. /\ Len(Append(m, r)) = Len(m) + 1 /\ Len(m) \in Nat /\ Append(m, r)[Len(m) + 1] = r
            /\ \A x \in 1 .. Len(m) : Append(m, r)[x] = m[x]
        BY <1>1, Appended
      <3>2. i \in 1 .. Len(m) \/ i = Len(m) + 1
        BY <3>1
      <3>. QED
        BY <1>3, <3>1, <3>2 DEF MergedUpto
    <2>4. Absorb(m, r) = Append(m, r)
      BY <1>5 DEF Absorb
    <2>5. \A v \in Int : Has(Append(m, r), v) <=> \E i \in 1 .. k + 1 : Within(s[i], v)
      BY <1>3, <2>2 DEF MergedUpto
    <2>6. (\A i \in 1 .. k + 1 : s[i][1] < s[i][2]) => Proper(Append(m, r))
      BY <1>3, <2>2 DEF MergedUpto
    <2>. DEFINE z == Append(m, r)
    <2>7. /\ z \in Lists /\ Separate(z)
          /\ \A v \in Int : Has(z, v) <=> \E i \in 1 .. k + 1 : Within(s[i], v)
          /\ \A i \in 1 .. Len(z) : \E j \in 1 .. k + 1 : z[i][1] = s[j][1]
          /\ (\A i \in 1 .. k + 1 : s[i][1] < s[i][2]) => Proper(z)
      BY <2>2, <2>3, <2>5, <2>6
    <2>. HIDE DEF z
    <2>8. MergedUpto(s, k + 1, z)
      BY <2>7 DEF MergedUpto
    <2>. QED
      BY <2>4, <2>8 DEF z
  <1>. QED
    BY <1>4, <1>5

\* merge_ranges keeps the chunks, in separate ranges; no range of it is empty unless one
\* that came was.
LEMMA Merged ==
  ASSUME NEW l \in Lists
  PROVE  /\ MergeRanges(l) \in Lists /\ Separate(MergeRanges(l))
         /\ \A v \in Int : Has(MergeRanges(l), v) <=> Has(l, v)
         /\ Proper(l) => Proper(MergeRanges(l))
  <1>. DEFINE s == ByStart(l)
              n == Len(s)
  <1>1. /\ s \in Lists /\ n = Len(l) /\ n \in Nat
        /\ \A i \in 1 .. n, j \in 1 .. n : i < j => s[i][1] <= s[j][1]
        /\ \A i \in 1 .. n : \E j \in 1 .. n : s[i] = l[j]
        /\ \A j \in 1 .. n : \E i \in 1 .. n : s[i] = l[j]
    <2>1. s \in Lists /\ n = Len(l)
      BY Sorted
    <2>2. n \in Nat
      BY <2>1, Ends
    <2>3. \A i \in 1 .. Len(l), j \in 1 .. Len(l) : i < j => s[i][1] <= s[j][1]
      BY Sorted
    <2>4. \A i \in 1 .. Len(l) : \E j \in 1 .. Len(l) : s[i] = l[j]
      BY Sorted
    <2>5. \A j \in 1 .. Len(l) : \E i \in 1 .. Len(l) : s[i] = l[j]
      BY Sorted
    <2>. HIDE DEF s
    <2>. QED
      BY <2>1, <2>2, <2>3, <2>4, <2>5
  <1>. HIDE DEF s
  <1>2. PICK f : /\ f[0] = <<>>
                 /\ \A k \in 1 .. n : f[k] = Absorb(f[k - 1], s[k])
                 /\ FoldLeft(Absorb, <<>>, s) = f[n]
    BY <1>1, Absorbing DEF Lists
  <1>. DEFINE P == {k \in 0 .. n : MergedUpto(s, k, f[k])}
  <1>3. 0 \in P
    <2>1. MergedUpto(s, 0, <<>>)
      <3>1. Len(<<>>) = 0 /\ \A i : i \notin 1 .. 0
        OBVIOUS
      <3>. QED
        BY <3>1, NoRanges DEF MergedUpto, Canonical
    <2>. QED
      BY <1>1, <1>2, <2>1
  <1>4. ASSUME NEW k \in 0 .. n - 1, k \in P PROVE k + 1 \in P
    <2>1. k \in Nat /\ k + 1 \in 1 .. n /\ k + 1 \in 0 .. n /\ k + 1 - 1 = k
      BY <1>1
    <2>2. MergedUpto(s, k + 1, Absorb(f[k], s[k + 1]))
      BY <1>1, <1>4, <2>1, AbsorbStep
    <2>3. f[k + 1] = Absorb(f[k], s[k + 1])
      BY <1>2, <2>1
    <2>. QED
      BY <2>1, <2>2, <2>3
  <1>5. MergedUpto(s, n, f[n])
    <2>. HIDE DEF P
    <2>1. \A k \in 0 .. n : k \in P
      BY <1>1, <1>3, <1>4, Upto
    <2>2. n \in P
      BY <1>1, <2>1
    <2>. QED
      BY <2>2 DEF P
  <1>6. MergeRanges(l) = f[n]
    BY <1>2 DEF MergeRanges, s
  <1>7. \A v : (\E i \in 1 .. n : Within(s[i], v)) <=> Has(l, v)
    BY <1>1 DEF Has
  <1>8. Proper(l) => \A i \in 1 .. n : s[i][1] < s[i][2]
    BY <1>1 DEF Proper
  <1>. HIDE DEF n
  <1>. QED
    BY <1>5, <1>6, <1>7, <1>8 DEF MergedUpto

\* A canonical list is merged already, whichever end does it.
LEMMA MergedAlready ==
  ASSUME NEW l, Canonical(l)
  PROVE  MergeRanges(l) = l /\ OverTheWire(l) = l
  <1>1. Canonical(MergeRanges(l)) /\ \A v \in Int : Has(MergeRanges(l), v) <=> Has(l, v)
    BY Merged DEF Canonical
  <1>2. MergeRanges(l) = l
    BY <1>1, OneList
  <1>. QED
    BY <1>2 DEF OverTheWire

-----------------------------------------------------------------------------
(* ranges_from_indexes. *)

\* A set in ascending order.
LEMMA AscendingOrder ==
  ASSUME NEW S \in SUBSET Int, IsFiniteSet(S)
  PROVE  /\ Ascending(S) \in Seq(Int) /\ Len(Ascending(S)) \in Nat
         /\ \A i \in 1 .. Len(Ascending(S)), j \in 1 .. Len(Ascending(S)) :
              i < j => Ascending(S)[i] < Ascending(S)[j]
         /\ \A v : v \in S <=> \E i \in 1 .. Len(Ascending(S)) : Ascending(S)[i] = v
  <1>. DEFINE n == Cardinality(S)
              B == {p \in S \X S : p[1] < p[2]}
              Rank == RankIn(S, B)
              At(p) == CHOOSE v \in S : Rank[v] = p - 1
  <1>1. \A x \in S, y \in S : <<x, y>> \in B <=> x < y
    OBVIOUS
  <1>. HIDE DEF B
  <1>2. /\ n \in Nat
        /\ \A x \in S : Rank[x] \in 0 .. n - 1
        /\ \A k \in 0 .. n - 1 : \E x \in S : Rank[x] = k
        /\ \A x \in S, y \in S : Rank[x] = Rank[y] => x = y
        /\ \A x \in S, y \in S : Rank[x] < Rank[y] => <<x, y>> \in B
    <2>1. \A x \in S : <<x, x>> \notin B
      BY <1>1
    <2>2. \A x \in S, y \in S, z \in S : <<x, y>> \in B /\ <<y, z>> \in B => <<x, z>> \in B
      BY <1>1
    <2>3. ASSUME NEW x \in S, NEW y \in S PROVE x = y \/ <<x, y>> \in B \/ <<y, x>> \in B
      <3>1. x \in Int /\ y \in Int
        OBVIOUS
      <3>. QED
        BY <1>1, <3>1
    <2>. QED
      BY <2>1, <2>2, <2>3, Ranks
  <1>3. Ascending(S) = [p \in 1 .. n |-> At(p)]
    <2>1. ASSUME NEW v \in S PROVE Rank[v] = Cardinality(Below(S, v))
      <3>1. {w \in S : <<w, v>> \in B} = Below(S, v)
        BY <1>1 DEF Below
      <3>. QED
        BY <3>1 DEF RankIn
    <2>. HIDE DEF Rank
    <2>2. ASSUME NEW p \in 1 .. n
          PROVE  (CHOOSE v \in S : Cardinality(Below(S, v)) = p - 1) = At(p)
      BY <2>1
    <2>. HIDE DEF At
    <2>. QED
      BY <2>2 DEF Ascending
  <1>. HIDE DEF Rank, n
  <1>4. ASSUME NEW p \in 1 .. n PROVE At(p) \in S /\ Rank[At(p)] = p - 1
    <2>1. p - 1 \in 0 .. n - 1
      BY <1>2
    <2>2. \E v \in S : Rank[v] = p - 1
      BY <1>2, <2>1
    <2>. QED
      BY <2>2
  <1>. HIDE DEF At
  <1>. DEFINE s == Ascending(S)
  <1>5. s \in [1 .. n -> Int] /\ \A p \in 1 .. n : s[p] = At(p)
    BY <1>3, <1>4
  <1>6. s \in Seq(Int) /\ Len(s) = n
    BY <1>2, <1>5
  <1>. HIDE DEF s
  <1>7. ASSUME NEW i \in 1 .. n, NEW j \in 1 .. n, i < j PROVE s[i] < s[j]
    <2>1. Rank[At(i)] < Rank[At(j)]
      BY <1>2, <1>4, <1>7
    <2>2. At(i) \in S /\ At(j) \in S
      BY <1>4
    <2>3. At(i) < At(j)
      BY <1>1, <1>2, <2>1, <2>2
    <2>. QED
      BY <1>5, <2>3
  <1>8. ASSUME NEW v \in S PROVE \E i \in 1 .. n : s[i] = v
    <2>1. \E p \in 1 .. n : p - 1 = Rank[v]
      <3>1. Rank[v] \in 0 .. n - 1
        BY <1>2
      <3>. DEFINE p == Rank[v] + 1
      <3>2. p \in 1 .. n /\ p - 1 = Rank[v]
        BY <1>2, <3>1
      <3>. HIDE DEF p
      <3>. QED
        BY <3>2
    <2>2. PICK p \in 1 .. n : p - 1 = Rank[v]
      BY <2>1
    <2>3. At(p) \in S /\ Rank[At(p)] = Rank[v]
      BY <1>4, <2>2
    <2>4. At(p) = v
      BY <1>2, <2>3
    <2>. QED
      BY <1>5, <2>2, <2>4
  <1>9. \A i \in 1 .. n : s[i] \in S
    BY <1>4, <1>5
  <1>10. \A v : v \in S <=> \E i \in 1 .. n : s[i] = v
    BY <1>8, <1>9
  <1>11. n \in Nat
    BY <1>2
  <1>. QED
    BY <1>6, <1>7, <1>10, <1>11 DEF s

\* After k values: they are in the list, and the last range ends behind the last one.
ExtendedUpto(s, k, m) ==
  /\ Canonical(m)
  /\ \A v \in Int : Has(m, v) <=> \E i \in 1 .. k : s[i] = v
  /\ m = <<>> <=> k = 0
  /\ k # 0 => Last(m)[2] = s[k] + 1

\* One round of the loop.
LEMMA ExtendStep ==
  ASSUME NEW s \in Seq(Int), NEW k \in Nat, k + 1 \in 1 .. Len(s), NEW m, ExtendedUpto(s, k, m),
         \A i \in 1 .. Len(s), j \in 1 .. Len(s) : i < j => s[i] < s[j]
  PROVE  ExtendedUpto(s, k + 1, Extend(m, s[k + 1]))
  <1>. DEFINE v == s[k + 1]
  <1>1. v \in Int /\ m \in Lists /\ Separate(m) /\ Proper(m) /\ Len(s) \in Nat
    BY ElementOfSeq, LenProperties DEF ExtendedUpto, Canonical
  <1>2. \A w : (\E i \in 1 .. k + 1 : s[i] = w) <=> (\E i \in 1 .. k : s[i] = w) \/ v = w
    <2>1. \A i : i \in 1 .. k + 1 <=> i \in 1 .. k \/ i = k + 1
      OBVIOUS
    <2>. QED
      BY <2>1
  <1>3. CASE m # <<>> /\ Last(m)[2] = v
    <2>. DEFINE e == <<Last(m)[1], v + 1>>
    <2>1. /\ Len(m) \in Nat \ {0} /\ Len(m) \in 1 .. Len(m)
          /\ Last(m) = m[Len(m)] /\ Last(m) \in Pair
      BY <1>1, <1>3, LastRange
    <2>2. Last(m)[1] \in Int /\ Last(m)[1] < v /\ e \in Pair
      BY <1>1, <1>3, <2>1 DEF Pair, Proper
    <2>3. e[1] = Last(m)[1] /\ e[2] = v + 1
      OBVIOUS
    <2>4. Extend(m, v) = Front(m) \o <<e>>
      BY <1>3 DEF Extend
    <2>. HIDE DEF e
    <2>5. /\ Front(m) \o <<e>> \in Lists /\ Separate(Front(m) \o <<e>>)
          /\ \A w : (Within(Last(m), w) => Within(e, w))
               => (Has(Front(m) \o <<e>>, w) <=> Has(m, w) \/ Within(e, w))
          /\ Proper(m) /\ e[1] < e[2] => Proper(Front(m) \o <<e>>)
      BY <1>1, <1>3, <2>2, <2>3, ReplacedRange
    <2>6. Canonical(Front(m) \o <<e>>)
      BY <1>1, <2>2, <2>3, <2>5 DEF Canonical
    <2>7. ASSUME NEW w \in Int PROVE Has(Front(m) \o <<e>>, w) <=> Has(m, w) \/ v = w
      <3>1. Within(e, w) <=> Within(Last(m), w) \/ w = v
        BY <1>1, <1>3, <2>2, <2>3 DEF Within
      <3>2. Within(Last(m), w) => Has(m, w)
        BY <2>1 DEF Has
      <3>3. Has(Front(m) \o <<e>>, w) <=> Has(m, w) \/ Within(e, w)
        BY <2>5, <3>1
      <3>. QED
        BY <3>1, <3>2, <3>3
    <2>8. Len(Front(m) \o <<e>>) = Len(m) /\ (Front(m) \o <<e>>)[Len(m)] = e
      BY <1>1, <1>3, <2>2, Replaced
    <2>9. Front(m) \o <<e>> # <<>> /\ Last(Front(m) \o <<e>>)[2] = v + 1
      BY <2>1, <2>3, <2>8 DEF Last
    <2>10. \A w \in Int : Has(Front(m) \o <<e>>, w) <=> \E i \in 1 .. k + 1 : s[i] = w
      BY <1>2, <2>7 DEF ExtendedUpto
    <2>. DEFINE z == Front(m) \o <<e>>
    <2>11. /\ Canonical(z) /\ z # <<>> /\ Last(z)[2] = s[k + 1] + 1
           /\ \A w \in Int : Has(z, w) <=> \E i \in 1 .. k + 1 : s[i] = w
      BY <2>6, <2>9, <2>10, Zenon
    <2>. HIDE DEF v, z
    <2>12. ExtendedUpto(s, k + 1, z)
      <3>1. k + 1 # 0
        OBVIOUS
      <3>. QED
        BY <2>11, <3>1 DEF ExtendedUpto
    <2>13. ExtendedUpto(s, k + 1, Extend(m, v))
      BY <2>4, <2>12 DEF z
    <2>. QED
      BY <2>13 DEF v
  <1>4. CASE ~(m # <<>> /\ Last(m)[2] = v)
    <2>. DEFINE e == <<v, v + 1>>
    <2>1. e \in Pair /\ e[1] = v /\ e[2] = v + 1
      BY <1>1 DEF Pair
    <2>2. Extend(m, v) = Append(m, e)
      BY <1>4 DEF Extend
    <2>. HIDE DEF e
    <2>3. \A i \in 1 .. Len(m) : m[i][2] < v
      <3>. SUFFICES ASSUME NEW i \in 1 .. Len(m) PROVE m[i][2] < v
        OBVIOUS
      <3>1. m # <<>> /\ Len(m) \in Nat
        BY <1>1, EmptySeq, Ends
      <3>2. Last(m) = m[Len(m)] /\ Len(m) \in 1 .. Len(m)
        BY <1>1, <3>1, LastRange
      <3>3. k # 0 /\ m[Len(m)][2] = s[k] + 1
        BY <3>1, <3>2 DEF ExtendedUpto
      <3>4. s[k] < v /\ s[k] \in Int
        <4>1. k \in 1 .. Len(s) /\ k < k + 1
          BY <1>1, <3>3
        <4>. QED
          BY <4>1, ElementOfSeq
      <3>5. m[Len(m)][2] < v
        BY <1>1, <1>4, <3>1, <3>2, <3>3, <3>4
      <3>6. CASE i = Len(m)
        BY <3>5, <3>6
      <3>7. CASE i < Len(m)
        <4>1. m[i][2] < m[Len(m)][1] /\ m[Len(m)][1] < m[Len(m)][2]
          BY <1>1, <3>2, <3>7 DEF Separate, Proper
        <4>. DEFINE a == m[i][2]
                    b == m[Len(m)][1]
                    c == m[Len(m)][2]
        <4>2. a \in Int /\ b \in Int /\ c \in Int /\ a < b /\ b < c /\ c < v /\ v \in Int
          BY <1>1, <3>2, <3>5, <4>1, Ends
        <4>. HIDE DEF a, b, c, v
        <4>3. a < v
          BY <4>2
        <4>. QED
          BY <4>3 DEF a
      <3>. QED
        BY <3>1, <3>6, <3>7
    <2>4. /\ Append(m, e) \in Lists /\ Separate(Append(m, e))
          /\ \A w : Has(Append(m, e), w) <=> Has(m, w) \/ Within(e, w)
          /\ Proper(m) /\ e[1] < e[2] => Proper(Append(m, e))
      BY <1>1, <2>1, <2>3, AppendedRange
    <2>5. Canonical(Append(m, e))
      BY <1>1, <2>1, <2>4 DEF Canonical
    <2>6. ASSUME NEW w \in Int PROVE Has(Append(m, e), w) <=> Has(m, w) \/ v = w
      <3>1. Within(e, w) <=> w = v
        BY <1>1, <2>1 DEF Within
      <3>. QED
        BY <2>4, <3>1
    <2>7. Append(m, e) # <<>> /\ Last(Append(m, e)) = e
      <3>1. Len(Append(m, e)) = Len(m) + 1 /\ Len(m) \in Nat /\ Append(m, e)[Len(m) + 1] = e
        BY <1>1, <2>1, Appended
      <3>2. Len(Append(m, e)) # 0 /\ Len(<<>>) = 0
        BY <3>1
      <3>. QED
        BY <3>1, <3>2 DEF Last
    <2>8. \A w \in Int : Has(Append(m, e), w) <=> \E i \in 1 .. k + 1 : s[i] = w
      BY <1>2, <2>6 DEF ExtendedUpto
    <2>. DEFINE z == Append(m, e)
    <2>9. /\ Canonical(z) /\ z # <<>> /\ k + 1 # 0 /\ Last(z)[2] = s[k + 1] + 1
          /\ \A w \in Int : Has(z, w) <=> \E i \in 1 .. k + 1 : s[i] = w
      BY <2>1, <2>5, <2>7, <2>8
    <2>. HIDE DEF v, z
    <2>10. ExtendedUpto(s, k + 1, z)
      BY <2>9 DEF ExtendedUpto
    <2>11. ExtendedUpto(s, k + 1, Extend(m, v))
      BY <2>2, <2>10 DEF z
    <2>. QED
      BY <2>11 DEF v
  <1>. QED
    BY <1>3, <1>4

\* ranges_from_indexes makes the canonical list of a set.
LEMMA FromIndexes ==
  ASSUME NEW S \in SUBSET Int, IsFiniteSet(S)
  PROVE  /\ Canonical(RangesFromIndexes(S))
         /\ \A v \in Int : Has(RangesFromIndexes(S), v) <=> v \in S
  <1>. DEFINE s == Ascending(S)
              n == Len(s)
  <1>1. /\ s \in Seq(Int) /\ n \in Nat
        /\ \A i \in 1 .. n, j \in 1 .. n : i < j => s[i] < s[j]
        /\ \A v : v \in S <=> \E i \in 1 .. n : s[i] = v
    BY AscendingOrder
  <1>. HIDE DEF s
  <1>2. PICK f : /\ f[0] = <<>>
                 /\ \A k \in 1 .. n : f[k] = Extend(f[k - 1], s[k])
                 /\ FoldLeft(Extend, <<>>, s) = f[n]
    BY <1>1, Extending
  <1>. DEFINE P == {k \in 0 .. n : ExtendedUpto(s, k, f[k])}
  <1>3. 0 \in P
    <2>1. ExtendedUpto(s, 0, <<>>)
      <3>1. \A i : i \notin 1 .. 0
        OBVIOUS
      <3>. QED
        BY <3>1, NoRanges DEF ExtendedUpto
    <2>. QED
      BY <1>1, <1>2, <2>1
  <1>4. ASSUME NEW k \in 0 .. n - 1, k \in P PROVE k + 1 \in P
    <2>1. k \in Nat /\ k + 1 \in 1 .. n /\ k + 1 \in 0 .. n /\ k + 1 - 1 = k
      BY <1>1
    <2>2. ExtendedUpto(s, k + 1, Extend(f[k], s[k + 1]))
      BY <1>1, <1>4, <2>1, ExtendStep
    <2>3. f[k + 1] = Extend(f[k], s[k + 1])
      BY <1>2, <2>1
    <2>. QED
      BY <2>1, <2>2, <2>3
  <1>5. ExtendedUpto(s, n, f[n])
    <2>. HIDE DEF P
    <2>1. \A k \in 0 .. n : k \in P
      BY <1>1, <1>3, <1>4, Upto
    <2>2. n \in P
      BY <1>1, <2>1
    <2>. QED
      BY <2>2 DEF P
  <1>6. RangesFromIndexes(S) = f[n]
    BY <1>2 DEF RangesFromIndexes, s
  <1>. HIDE DEF n
  <1>. QED
    BY <1>1, <1>5, <1>6 DEF ExtendedUpto

\* So a list with the chunks of a set is the list that ranges_from_indexes makes.
LEMMA IsFromIndexes ==
  ASSUME NEW l, Canonical(l), NEW S \in SUBSET Int, IsFiniteSet(S),
         \A v \in Int : Has(l, v) <=> v \in S
  PROVE  l = RangesFromIndexes(S)
  <1>1. Canonical(RangesFromIndexes(S))
        /\ \A v \in Int : Has(RangesFromIndexes(S), v) <=> Has(l, v)
    BY FromIndexes
  <1>. QED
    BY <1>1, OneList

-----------------------------------------------------------------------------
(* from_received_ranges. *)

\* A range cut to the file has the chunks of the file that it had.
LEMMA CutWithin ==
  ASSUME NEW a \in Int, NEW b \in Int, NEW v \in Int, NEW limit \in Nat
  PROVE  Cut(a, limit) <= v /\ v < Cut(b, limit) <=> 0 <= v /\ v < limit /\ a <= v /\ v < b
  BY CutTyped

\* What the loop keeps: the chunks of the file in the first k ranges, none behind their ends.
KeptUpto(l, limit, k, m) ==
  /\ Canonical(m)
  /\ \A v \in Int : Has(m, v) <=> 0 <= v /\ v < limit /\ \E i \in 1 .. k : Within(l[i], v)
  /\ \A i \in 1 .. Len(m) : \E j \in 1 .. k : m[i][2] <= l[j][2]

\* One round of the loop.
LEMMA KeepStep ==
  ASSUME NEW l \in Lists, Separate(l), NEW limit \in Nat, NEW k \in Nat, k + 1 \in 1 .. Len(l),
         NEW m, KeptUpto(l, limit, k, m)
  PROVE  KeptUpto(l, limit, k + 1, Keep(m, l[k + 1], limit))
  <1>. DEFINE r == l[k + 1]
              e == <<Cut(r[1], limit), Cut(r[2], limit)>>
  <1>1. r \in Pair /\ r[1] \in Int /\ r[2] \in Int /\ m \in Lists /\ Separate(m) /\ Proper(m)
    BY Ends DEF KeptUpto, Canonical
  <1>2. e \in Pair /\ e[1] \in Int /\ e[2] \in Int
        /\ e[1] = Cut(r[1], limit) /\ e[2] = Cut(r[2], limit)
    BY <1>1, CutTyped DEF Pair
  <1>3. \A v \in Int : Within(e, v) <=> 0 <= v /\ v < limit /\ Within(r, v)
    BY <1>1, <1>2, CutWithin DEF Within
  <1>4. e[1] < e[2] => r[1] <= e[1] /\ e[2] <= r[2]
    BY <1>1, <1>2, CutTyped
  <1>5. Keep(m, r, limit) = IF e[1] < e[2] THEN Append(m, e) ELSE m
    BY DEF Keep
  <1>. HIDE DEF e
  <1>6. \A v : (\E i \in 1 .. k + 1 : Within(l[i], v)) <=> (\E i \in 1 .. k : Within(l[i], v)) \/ Within(r, v)
    <2>1. \A i : i \in 1 .. k + 1 <=> i \in 1 .. k \/ i = k + 1
      OBVIOUS
    <2>. QED
      BY <2>1
  <1>7. \A j \in 1 .. k : j \in 1 .. k + 1
    OBVIOUS
  <1>8. CASE e[1] < e[2]
    <2>1. \A i \in 1 .. Len(m) : m[i][2] < e[1]
      <3>. SUFFICES ASSUME NEW i \in 1 .. Len(m) PROVE m[i][2] < e[1]
        OBVIOUS
      <3>1. PICK j \in 1 .. k : m[i][2] <= l[j][2]
        BY DEF KeptUpto
      <3>2. j \in 1 .. Len(l) /\ j < k + 1
        BY Ends
      <3>3. l[j][2] < r[1] /\ l[j][2] \in Int
        BY <3>2, Ends DEF Separate
      <3>4. m[i][2] \in Int
        BY <1>1, Ends
      <3>5. r[1] <= e[1] /\ r[1] \in Int /\ e[1] \in Int
        BY <1>1, <1>2, <1>4, <1>8
      <3>. DEFINE x == m[i][2]
                  y == l[j][2]
                  z == r[1]
      <3>6. x \in Int /\ y \in Int /\ z \in Int /\ x <= y /\ y < z /\ z <= e[1]
        BY <3>1, <3>3, <3>4, <3>5
      <3>. HIDE DEF x, y, z
      <3>7. x < e[1]
        BY <3>5, <3>6
      <3>. QED
        BY <3>7 DEF x
    <2>2. /\ Append(m, e) \in Lists /\ Separate(Append(m, e))
          /\ \A v : Has(Append(m, e), v) <=> Has(m, v) \/ Within(e, v)
          /\ Proper(m) /\ e[1] < e[2] => Proper(Append(m, e))
      BY <1>1, <1>2, <2>1, AppendedRange
    <2>3. Canonical(Append(m, e))
      BY <1>1, <1>8, <2>2 DEF Canonical
    <2>4. ASSUME NEW i \in 1 .. Len(Append(m, e))
          PROVE  \E j \in 1 .. k + 1 : Append(m, e)[i][2] <= l[j][2]
      <3>1. /\ Len(Append(m, e)) = Len(m) + 1 /\ Len(m) \in Nat /\ Append(m, e)[Len(m) + 1] = e
            /\ \A x \in 1 .. Len(m) : Append(m, e)[x] = m[x]
        BY <1>1, <1>2, Appended
      <3>2. CASE i = Len(m) + 1
        <4>1. k + 1 \in 1 .. k + 1
          OBVIOUS
        <4>. QED
          BY <1>4, <1>8, <3>1, <3>2, <4>1
      <3>3. CASE i \in 1 .. Len(m)
        BY <1>7, <3>1, <3>3 DEF KeptUpto
      <3>. QED
        BY <3>1, <3>2, <3>3
    <2>5. \A v \in Int : Has(Append(m, e), v) <=>
                           0 <= v /\ v < limit /\ \E i \in 1 .. k + 1 : Within(l[i], v)
      BY <1>3, <1>6, <2>2 DEF KeptUpto
    <2>. HIDE DEF r
    <2>6. KeptUpto(l, limit, k + 1, Keep(m, r, limit))
      BY <1>5, <1>8, <2>3, <2>4, <2>5 DEF KeptUpto
    <2>. QED
      BY <2>6 DEF r
  <1>9. CASE ~(e[1] < e[2])
    <2>1. \A v \in Int : ~Within(e, v)
      BY <1>2, <1>9 DEF Within
    <2>2. \A v \in Int : Has(m, v) <=>
                           0 <= v /\ v < limit /\ \E i \in 1 .. k + 1 : Within(l[i], v)
      BY <1>3, <1>6, <2>1 DEF KeptUpto
    <2>3. \A i \in 1 .. Len(m) : \E j \in 1 .. k + 1 : m[i][2] <= l[j][2]
      BY <1>7 DEF KeptUpto
    <2>. HIDE DEF r
    <2>4. KeptUpto(l, limit, k + 1, Keep(m, r, limit))
      BY <1>5, <1>9, <2>2, <2>3 DEF KeptUpto
    <2>. QED
      BY <2>4 DEF r
  <1>. QED
    BY <1>8, <1>9

\* Whatever a journal says, the tracker starts from the canonical list of the chunks of
\* the file in it.
LEMMA NormalizedList ==
  ASSUME NEW l \in Lists, NEW limit \in Nat
  PROVE  /\ Canonical(Normalized(limit, l))
         /\ \A v \in Int : Has(Normalized(limit, l), v) <=> 0 <= v /\ v < limit /\ Has(l, v)
  <1>. DEFINE s == MergeRanges(l)
              n == Len(s)
  <1>1. s \in Lists /\ Separate(s) /\ n \in Nat /\ \A v \in Int : Has(s, v) <=> Has(l, v)
    BY Merged, Ends
  <1>. HIDE DEF s
  <1>2. PICK f : /\ f[0] = <<>>
                 /\ \A k \in 1 .. n : f[k] = Keep(f[k - 1], s[k], limit)
                 /\ KeepAll(s, limit) = f[n]
    BY <1>1, Keeping DEF Lists
  <1>. DEFINE P == {k \in 0 .. n : KeptUpto(s, limit, k, f[k])}
  <1>3. 0 \in P
    <2>1. KeptUpto(s, limit, 0, <<>>)
      <3>1. Len(<<>>) = 0 /\ \A i : i \notin 1 .. 0
        OBVIOUS
      <3>. QED
        BY <3>1, NoRanges DEF KeptUpto
    <2>. QED
      BY <1>1, <1>2, <2>1
  <1>4. ASSUME NEW k \in 0 .. n - 1, k \in P PROVE k + 1 \in P
    <2>1. k \in Nat /\ k + 1 \in 1 .. n /\ k + 1 \in 0 .. n /\ k + 1 - 1 = k
      BY <1>1
    <2>2. KeptUpto(s, limit, k + 1, Keep(f[k], s[k + 1], limit))
      BY <1>1, <1>4, <2>1, KeepStep
    <2>3. f[k + 1] = Keep(f[k], s[k + 1], limit)
      BY <1>2, <2>1
    <2>. QED
      BY <2>1, <2>2, <2>3
  <1>5. KeptUpto(s, limit, n, f[n])
    <2>. HIDE DEF P
    <2>1. \A k \in 0 .. n : k \in P
      BY <1>1, <1>3, <1>4, Upto
    <2>2. n \in P
      BY <1>1, <2>1
    <2>. QED
      BY <2>2 DEF P
  <1>6. Normalized(limit, l) = f[n]
    BY <1>2 DEF Normalized, KeepAll, s
  <1>7. \A v : (\E i \in 1 .. n : Within(s[i], v)) <=> Has(s, v)
    BY DEF Has
  <1>. HIDE DEF n
  <1>. QED
    BY <1>1, <1>5, <1>6, <1>7 DEF KeptUpto

-----------------------------------------------------------------------------
(* _missing_ranges_between. *)

\* What the loop keeps: everything before the cursor is known or in the list, nothing
\* that the first k ranges have lies between the cursor and the end.
SkippedUpto(l, start, end, k, g) ==
  /\ g \in Gaps /\ start <= g.cursor
  /\ start <= end => g.cursor <= end
  /\ start >= end => g.cursor = start
  /\ Canonical(g.out)
  /\ \A v \in Int : Has(g.out, v) <=> start <= v /\ v < g.cursor /\ ~Has(l, v)
  /\ \A i \in 1 .. Len(g.out) : g.out[i][2] < g.cursor
  /\ \A v \in Int : g.cursor <= v /\ v < end => ~\E i \in 1 .. k : Within(l[i], v)

\* Behind a range come only later ones.
LEMMA Later ==
  ASSUME NEW l, Canonical(l), NEW i \in 1 .. Len(l), NEW j \in 1 .. Len(l), i < j, NEW v \in Int,
         Within(l[j], v)
  PROVE  l[i][2] < v
  <1>1. l[i][2] < l[j][1] /\ l[j][1] <= v
    BY DEF Canonical, Separate, Within
  <1>2. l[i][2] \in Int /\ l[j][1] \in Int
    BY Ends DEF Canonical
  <1>. QED
    BY <1>1, <1>2

\* One round of the loop.
LEMMA SkipStep ==
  ASSUME NEW l, Canonical(l), NEW start \in Int, NEW end \in Int,
         NEW k \in Nat, k + 1 \in 1 .. Len(l), NEW g, SkippedUpto(l, start, end, k, g)
  PROVE  SkippedUpto(l, start, end, k + 1, Skip(g, l[k + 1], end))
  <1>. DEFINE r == l[k + 1]
              c == g.cursor
              d == IF r[2] <= end THEN r[2] ELSE end
  <1>1. /\ r \in Pair /\ r[1] \in Int /\ r[2] \in Int /\ r[1] < r[2] /\ l \in Lists
        /\ c \in Int /\ d \in Int /\ g.out \in Lists /\ Separate(g.out) /\ Proper(g.out)
    BY Ends DEF SkippedUpto, Canonical, Proper, Gaps
  <1>2. \A v : (\E i \in 1 .. k + 1 : Within(l[i], v)) <=> (\E i \in 1 .. k : Within(l[i], v)) \/ Within(r, v)
    <2>1. \A i : i \in 1 .. k + 1 <=> i \in 1 .. k \/ i = k + 1
      OBVIOUS
    <2>. QED
      BY <2>1
  <1>3. CASE r[2] <= c \/ r[1] >= end \/ c >= end
    <2>1. Skip(g, r, end) = g
      BY <1>3 DEF Skip
    <2>2. ASSUME NEW v \in Int, c <= v, v < end PROVE ~\E i \in 1 .. k + 1 : Within(l[i], v)
      <3>1. ~Within(r, v)
        BY <1>1, <1>3, <2>2 DEF Within
      <3>. QED
        BY <1>2, <2>2, <3>1 DEF SkippedUpto
    <2>. HIDE DEF r
    <2>3. SkippedUpto(l, start, end, k + 1, Skip(g, r, end))
      BY <2>1, <2>2 DEF SkippedUpto
    <2>. QED
      BY <2>3 DEF r
  <1>4. CASE ~(r[2] <= c \/ r[1] >= end \/ c >= end)
    <2>1. /\ c < r[2] /\ r[1] < end /\ c < end /\ c < d /\ d <= end /\ d <= r[2]
          /\ start <= c /\ ~(start >= end) /\ start <= end
      <3>1. start <= c
        BY DEF SkippedUpto
      <3>. DEFINE a == r[1]
                  z == r[2]
      <3>2. /\ c \in Int /\ a \in Int /\ z \in Int /\ c < z /\ a < end /\ c < end /\ a < z
            /\ d = IF z <= end THEN z ELSE end
        BY <1>1, <1>4
      <3>. HIDE DEF a, z, c, d
      <3>3. /\ c < z /\ a < end /\ c < end /\ c < d /\ d <= end /\ d <= z
            /\ start <= c /\ ~(start >= end) /\ start <= end
        BY <3>1, <3>2
      <3>. QED
        BY <3>3 DEF a, z
    <2>2. Max({c, Min({r[2], end})}) = d /\ Min({r[1], end}) = r[1]
      <3>1. Min({r[2], end}) = d /\ Min({r[1], end}) = r[1]
        BY <1>1, <2>1, MinOfTwo
      <3>2. Max({c, d}) = d
        BY <1>1, <2>1, MaxOfTwo
      <3>. QED
        BY <3>1, <3>2
    <2>. DEFINE e == <<c, r[1]>>
                out == IF r[1] > c THEN Append(g.out, e) ELSE g.out
    <2>3. Skip(g, r, end) = [cursor |-> d, out |-> out]
      BY <1>4, <2>2 DEF Skip
    <2>4. e \in Pair /\ e[1] = c /\ e[2] = r[1]
      BY <1>1 DEF Pair
    <2>. HIDE DEF e
    <2>5. \A i \in 1 .. Len(g.out) : g.out[i][2] < e[1]
      BY <2>4 DEF SkippedUpto
    <2>6. /\ Canonical(out)
          /\ \A v \in Int : Has(out, v) <=> Has(g.out, v) \/ (c <= v /\ v < r[1])
      <3>1. CASE r[1] > c
        <4>1. /\ Append(g.out, e) \in Lists /\ Separate(Append(g.out, e))
              /\ \A v : Has(Append(g.out, e), v) <=> Has(g.out, v) \/ Within(e, v)
              /\ Proper(g.out) /\ e[1] < e[2] => Proper(Append(g.out, e))
          BY <1>1, <2>4, <2>5, AppendedRange
        <4>2. e[1] < e[2]
          BY <1>1, <2>4, <3>1
        <4>. QED
          BY <1>1, <2>4, <3>1, <4>1, <4>2 DEF Canonical, Within
      <3>2. CASE ~(r[1] > c)
        <4>1. \A v \in Int : ~(c <= v /\ v < r[1])
          BY <1>1, <3>2
        <4>. QED
          BY <3>2, <4>1 DEF SkippedUpto
      <3>. QED
        BY <3>1, <3>2
    <2>7. \A i \in 1 .. Len(out) : out[i][2] < d
      <3>. SUFFICES ASSUME NEW i \in 1 .. Len(out) PROVE out[i][2] < d
        OBVIOUS
      <3>1. CASE i \in 1 .. Len(g.out) /\ out[i] = g.out[i]
        <4>. DEFINE x == g.out[i][2]
        <4>1. x < c /\ x \in Int /\ c < d /\ c \in Int /\ d \in Int
          BY <1>1, <2>1, <3>1, Ends DEF SkippedUpto
        <4>. HIDE DEF x, c, d
        <4>2. x < d
          BY <4>1
        <4>. QED
          BY <3>1, <4>2 DEF x
      <3>2. CASE r[1] > c /\ out[i] = e
        BY <1>1, <2>1, <2>4, <3>2
      <3>3. \/ i \in 1 .. Len(g.out) /\ out[i] = g.out[i]
            \/ r[1] > c /\ out[i] = e
        <4>1. CASE r[1] > c
          <5>1. /\ Len(Append(g.out, e)) = Len(g.out) + 1 /\ Len(g.out) \in Nat
                /\ Append(g.out, e)[Len(g.out) + 1] = e
                /\ \A x \in 1 .. Len(g.out) : Append(g.out, e)[x] = g.out[x]
            BY <1>1, <2>4, Appended
          <5>2. i \in 1 .. Len(g.out) \/ i = Len(g.out) + 1
            BY <4>1, <5>1
          <5>. QED
            BY <4>1, <5>1, <5>2
        <4>2. CASE ~(r[1] > c)
          BY <4>2
        <4>. QED
          BY <4>1, <4>2
      <3>. QED
        BY <3>1, <3>2, <3>3
    <2>. HIDE DEF out
    <2>8. ASSUME NEW v \in Int PROVE Has(out, v) <=> start <= v /\ v < d /\ ~Has(l, v)
      <3>1. CASE v < c
        <4>1. ~(c <= v /\ v < r[1]) /\ v < d
          BY <1>1, <2>1, <3>1
        <4>. QED
          BY <2>6, <3>1, <4>1 DEF SkippedUpto
      <3>2. CASE c <= v /\ v < r[1]
        <4>1. v < end /\ v < d /\ start <= v
          BY <1>1, <2>1, <3>2 DEF SkippedUpto
        <4>2. ~\E i \in 1 .. k : Within(l[i], v)
          BY <3>2, <4>1 DEF SkippedUpto
        <4>3. ~Within(r, v)
          BY <1>1, <3>2 DEF Within
        <4>4. ASSUME NEW i \in 1 .. Len(l), k + 1 < i PROVE ~Within(l[i], v)
          <5>1. Within(l[i], v) => r[2] < v
            BY <4>4, Later
          <5>. QED
            BY <1>1, <3>2, <5>1
        <4>5. \A i \in 1 .. Len(l) : i \in 1 .. k \/ i = k + 1 \/ k + 1 < i
          BY <1>1, Ends
        <4>6. ~Has(l, v)
          BY <4>2, <4>3, <4>4, <4>5 DEF Has
        <4>. QED
          BY <2>6, <3>2, <4>1, <4>6
      <3>3. CASE c <= v /\ r[1] <= v /\ v < d
        <4>1. Within(r, v)
          BY <1>1, <2>1, <3>3 DEF Within
        <4>2. Has(l, v)
          BY <4>1 DEF Has
        <4>. QED
          BY <1>1, <2>6, <3>3, <4>2 DEF SkippedUpto
      <3>4. CASE d <= v
        <4>1. ~(v < c) /\ ~(v < r[1] /\ c <= v) /\ ~(v < d)
          BY <1>1, <2>1, <3>4
        <4>. QED
          BY <2>6, <4>1 DEF SkippedUpto
      <3>. QED
        BY <1>1, <3>1, <3>2, <3>3, <3>4
    <2>9. ASSUME NEW v \in Int, d <= v, v < end PROVE ~\E i \in 1 .. k + 1 : Within(l[i], v)
      <3>1. ~Within(r, v) /\ c <= v
        BY <1>1, <2>1, <2>9 DEF Within
      <3>. QED
        BY <1>2, <2>9, <3>1 DEF SkippedUpto
    <2>10. [cursor |-> d, out |-> out] \in Gaps
      BY <1>1, <2>6 DEF Gaps, Canonical
    <2>11. start <= d
      BY <1>1, <2>1
    <2>. HIDE DEF d, r
    <2>12. SkippedUpto(l, start, end, k + 1, [cursor |-> d, out |-> out])
      BY <2>1, <2>6, <2>7, <2>8, <2>9, <2>10, <2>11 DEF SkippedUpto
    <2>. QED
      BY <2>3, <2>12 DEF r
  <1>. QED
    BY <1>3, <1>4

\* The ranges missing between two positions are the canonical list of what is not there.
LEMMA MissingList ==
  ASSUME NEW l, Canonical(l), NEW start \in Int, NEW end \in Int
  PROVE  /\ Canonical(MissingBetween(l, start, end))
         /\ \A v \in Int : Has(MissingBetween(l, start, end), v) <=>
                             start <= v /\ v < end /\ ~Has(l, v)
  <1>. DEFINE n == Len(l)
  <1>1. l \in Lists /\ n \in Nat
    BY Ends DEF Canonical
  <1>2. PICK f : /\ f[0] = [cursor |-> start, out |-> <<>>]
                 /\ \A k \in 1 .. n : f[k] = Skip(f[k - 1], l[k], end)
                 /\ SkipAll(l, start, end) = f[n]
    BY <1>1, Skipping DEF Lists
  <1>. DEFINE P == {k \in 0 .. n : SkippedUpto(l, start, end, k, f[k])}
  <1>3. 0 \in P
    <2>1. SkippedUpto(l, start, end, 0, [cursor |-> start, out |-> <<>>])
      <3>1. Len(<<>>) = 0 /\ \A i : i \notin 1 .. 0
        OBVIOUS
      <3>2. [cursor |-> start, out |-> <<>>] \in Gaps
        BY NoRanges DEF Gaps, Canonical
      <3>3. \A v \in Int : ~(start <= v /\ v < start)
        OBVIOUS
      <3>. QED
        BY <3>1, <3>2, <3>3, NoRanges DEF SkippedUpto
    <2>. QED
      BY <1>1, <1>2, <2>1
  <1>4. ASSUME NEW k \in 0 .. n - 1, k \in P PROVE k + 1 \in P
    <2>1. k \in Nat /\ k + 1 \in 1 .. n /\ k + 1 \in 0 .. n /\ k + 1 - 1 = k
      BY <1>1
    <2>2. SkippedUpto(l, start, end, k + 1, Skip(f[k], l[k + 1], end))
      BY <1>4, <2>1, SkipStep
    <2>3. f[k + 1] = Skip(f[k], l[k + 1], end)
      BY <1>2, <2>1
    <2>. QED
      BY <2>1, <2>2, <2>3
  <1>5. SkippedUpto(l, start, end, n, f[n])
    <2>. HIDE DEF P
    <2>1. \A k \in 0 .. n : k \in P
      BY <1>1, <1>3, <1>4, Upto
    <2>2. n \in P
      BY <1>1, <2>1
    <2>. QED
      BY <2>2 DEF P
  <1>. DEFINE g == f[n]
              e == <<g.cursor, end>>
  <1>6. MissingBetween(l, start, end) = IF g.cursor < end THEN Append(g.out, e) ELSE g.out
    BY <1>2 DEF MissingBetween, SkipAll
  <1>7. \A v : (\E i \in 1 .. n : Within(l[i], v)) <=> Has(l, v)
    BY DEF Has
  <1>8. g.cursor \in Int /\ g.out \in Lists /\ e \in Pair /\ e[1] = g.cursor /\ e[2] = end
    BY <1>5 DEF SkippedUpto, Gaps, Pair
  <1>. HIDE DEF g, e, n
  <1>9. CASE g.cursor < end
    <2>1. /\ Append(g.out, e) \in Lists /\ Separate(Append(g.out, e))
          /\ \A v : Has(Append(g.out, e), v) <=> Has(g.out, v) \/ Within(e, v)
          /\ Proper(g.out) /\ e[1] < e[2] => Proper(Append(g.out, e))
      BY <1>5, <1>8, AppendedRange DEF SkippedUpto, Canonical, g
    <2>2. Canonical(Append(g.out, e))
      BY <1>5, <1>8, <1>9, <2>1 DEF SkippedUpto, Canonical, g
    <2>3. ASSUME NEW v \in Int
          PROVE  Has(Append(g.out, e), v) <=> start <= v /\ v < end /\ ~Has(l, v)
      <3>1. Within(e, v) <=> g.cursor <= v /\ v < end
        BY <1>8 DEF Within
      <3>2. Has(g.out, v) <=> start <= v /\ v < g.cursor /\ ~Has(l, v)
        BY <1>5 DEF SkippedUpto, g
      <3>3. g.cursor <= v /\ v < end => ~Has(l, v)
        BY <1>5, <1>7 DEF SkippedUpto, g
      <3>4. start <= g.cursor
        BY <1>5 DEF SkippedUpto, g
      <3>. QED
        BY <1>8, <1>9, <2>1, <3>1, <3>2, <3>3, <3>4
    <2>. QED
      BY <1>6, <1>9, <2>2, <2>3
  <1>10. CASE ~(g.cursor < end)
    <2>1. \A v \in Int : start <= v /\ v < g.cursor <=> start <= v /\ v < end
      BY <1>5, <1>8, <1>10 DEF SkippedUpto, g
    <2>. QED
      BY <1>5, <1>6, <1>10, <2>1 DEF SkippedUpto, g
  <1>. QED
    BY <1>9, <1>10

-----------------------------------------------------------------------------
(* _find_insert_at. *)

\* N ranges begin before c, and they are the first ones.
Begin(l, c, N) == N \in 0 .. Len(l) /\ \A j \in 1 .. Len(l) : j <= N <=> l[j][1] < c

\* There is such a number for every chunk.
LEMMA BeginExists ==
  ASSUME NEW l, Canonical(l), NEW c \in Int
  PROVE  \E N : Begin(l, c, N)
  <1>. DEFINE S == {j \in 1 .. Len(l) + 1 : j \in 1 .. Len(l) => ~(l[j][1] < c)}
  <1>1. Len(l) \in Nat /\ \A j \in 1 .. Len(l) : l[j][1] \in Int /\ l[j][2] \in Int
    BY Ends DEF Canonical
  <1>2. S \in SUBSET Nat /\ Len(l) + 1 \in S
    BY <1>1
  <1>3. PICK m \in S : \A j \in S : m <= j
    <2>. HIDE DEF S
    <2>. QED
      BY <1>2, Least
  <1>4. m - 1 \in 0 .. Len(l) /\ m \in 1 .. Len(l) + 1
    BY <1>1, <1>3
  <1>5. ASSUME NEW j \in 1 .. Len(l) PROVE j <= m - 1 <=> l[j][1] < c
    <2>1. CASE j <= m - 1
      <3>1. j \notin S
        BY <1>3, <1>4, <2>1
      <3>. QED
        BY <1>1, <2>1, <3>1
    <2>2. CASE j = m
      BY <1>3, <1>4, <2>2
    <2>3. CASE m < j
      <3>1. m \in 1 .. Len(l)
        BY <1>1, <1>4, <2>3
      <3>2. ~(l[m][1] < c)
        BY <1>3, <3>1
      <3>3. l[m][1] < l[m][2] /\ l[m][2] < l[j][1]
        BY <2>3, <3>1 DEF Canonical, Proper, Separate
      <3>. QED
        BY <1>1, <1>4, <2>3, <3>1, <3>2, <3>3
    <2>. QED
      BY <1>1, <1>4, <2>1, <2>2, <2>3
  <1>. QED
    BY <1>4, <1>5 DEF Begin

\* The bisection, and the function that it computes: N, brought into the span.
Bisects(l, c, find) ==
  find = [span \in (0 .. Len(l)) \X (0 .. Len(l)) |->
            IF span[1] >= span[2] THEN span[1]
            ELSE IF l[((span[1] + span[2]) \div 2) + 1][1] < c
                 THEN find[<<((span[1] + span[2]) \div 2) + 1, span[2]>>]
                 ELSE find[<<span[1], (span[1] + span[2]) \div 2>>]]
Into(span, N) ==
  IF span[1] >= span[2] \/ N <= span[1] THEN span[1] ELSE IF span[2] <= N THEN span[2] ELSE N

\* The middle of a span lies in it, before its end.
LEMMA Middle ==
  ASSUME NEW lo \in Int, NEW hi \in Int, lo < hi
  PROVE  /\ (lo + hi) \div 2 \in Int
         /\ lo <= (lo + hi) \div 2 /\ (lo + hi) \div 2 < hi
         /\ (lo + hi) \div 2 + 1 <= hi
  OBVIOUS

\* That function is a bisection.
LEMMA BisectExists ==
  ASSUME NEW l, Canonical(l), NEW c \in Int, NEW N, Begin(l, c, N)
  PROVE  \E find : Bisects(l, c, find)
  <1>. DEFINE At == 0 .. Len(l)
              find == [span \in At \X At |-> Into(span, N)]
  <1>1. Len(l) \in Nat /\ N \in 0 .. Len(l)
    BY Ends DEF Canonical, Begin
  <1>2. ASSUME NEW lo \in At, NEW hi \in At
        PROVE  Into(<<lo, hi>>, N) =
                 IF lo >= hi THEN lo
                 ELSE IF l[((lo + hi) \div 2) + 1][1] < c
                      THEN find[<<((lo + hi) \div 2) + 1, hi>>]
                      ELSE find[<<lo, (lo + hi) \div 2>>]
    <2>1. CASE lo >= hi
      BY <2>1 DEF Into
    <2>2. CASE lo < hi
      <3>. DEFINE mid == (lo + hi) \div 2
      <3>1. mid \in Int /\ lo <= mid /\ mid < hi /\ mid + 1 <= hi
        BY <2>2, Middle
      <3>. HIDE DEF mid
      <3>2. mid \in At /\ mid + 1 \in At /\ mid + 1 \in 1 .. Len(l)
        BY <1>1, <3>1
      <3>3. mid + 1 <= N <=> l[mid + 1][1] < c
        BY <3>2 DEF Begin
      <3>4. find[<<mid + 1, hi>>] = Into(<<mid + 1, hi>>, N) /\ find[<<lo, mid>>] = Into(<<lo, mid>>, N)
        BY <3>2
      <3>5. CASE mid + 1 <= N
        <4>1. Into(<<lo, hi>>, N) = Into(<<mid + 1, hi>>, N)
          BY <1>1, <2>2, <3>1, <3>5 DEF Into
        <4>. HIDE DEF find
        <4>2. Into(<<lo, hi>>, N) = find[<<mid + 1, hi>>] /\ l[mid + 1][1] < c /\ ~(lo >= hi)
          BY <2>2, <3>3, <3>4, <3>5, <4>1
        <4>. QED
          BY <4>2 DEF mid
      <3>6. CASE ~(mid + 1 <= N)
        <4>1. Into(<<lo, hi>>, N) = Into(<<lo, mid>>, N)
          BY <1>1, <2>2, <3>1, <3>6 DEF Into
        <4>. HIDE DEF find
        <4>2. Into(<<lo, hi>>, N) = find[<<lo, mid>>] /\ ~(l[mid + 1][1] < c) /\ ~(lo >= hi)
          BY <2>2, <3>3, <3>4, <3>6, <4>1
        <4>. QED
          BY <4>2 DEF mid
      <3>. QED
        BY <3>5, <3>6
    <2>. QED
      BY <2>1, <2>2
  <1>3. ASSUME NEW span \in At \X At
        PROVE  find[span] =
                 IF span[1] >= span[2] THEN span[1]
                 ELSE IF l[((span[1] + span[2]) \div 2) + 1][1] < c
                      THEN find[<<((span[1] + span[2]) \div 2) + 1, span[2]>>]
                      ELSE find[<<span[1], (span[1] + span[2]) \div 2>>]
    <2>1. PICK lo \in At, hi \in At : span = <<lo, hi>>
      OBVIOUS
    <2>2. find[span] = Into(<<lo, hi>>, N) /\ span[1] = lo /\ span[2] = hi
      BY <2>1
    <2>. HIDE DEF find
    <2>. QED
      BY <1>2, <2>2
  <1>4. find = [span \in At \X At |-> find[span]]
    OBVIOUS
  <1>. HIDE DEF find
  <1>5. Bisects(l, c, find)
    BY <1>3, <1>4 DEF Bisects
  <1>. QED
    BY <1>5

\* And every bisection of the whole list comes to N.
LEMMA BisectFinds ==
  ASSUME NEW l, Canonical(l), NEW c \in Int, NEW N, Begin(l, c, N), NEW find, Bisects(l, c, find)
  PROVE  find[<<0, Len(l)>>] = N
  <1>. DEFINE At == 0 .. Len(l)
              P == {k \in 0 .. Len(l) : \A lo \in At, hi \in At :
                      hi - lo <= k => find[<<lo, hi>>] = Into(<<lo, hi>>, N)}
  <1>1. Len(l) \in Nat /\ N \in 0 .. Len(l)
    BY Ends DEF Canonical, Begin
  <1>2. ASSUME NEW lo \in At, NEW hi \in At
        PROVE  find[<<lo, hi>>] =
                 IF lo >= hi THEN lo
                 ELSE IF l[((lo + hi) \div 2) + 1][1] < c
                      THEN find[<<((lo + hi) \div 2) + 1, hi>>]
                      ELSE find[<<lo, (lo + hi) \div 2>>]
    <2>. DEFINE span == <<lo, hi>>
    <2>1. span \in At \X At /\ span[1] = lo /\ span[2] = hi
      OBVIOUS
    <2>. HIDE DEF span
    <2>2. find[span] =
            IF span[1] >= span[2] THEN span[1]
            ELSE IF l[((span[1] + span[2]) \div 2) + 1][1] < c
                 THEN find[<<((span[1] + span[2]) \div 2) + 1, span[2]>>]
                 ELSE find[<<span[1], (span[1] + span[2]) \div 2>>]
      BY <2>1 DEF Bisects
    <2>3. find[span] =
            IF lo >= hi THEN lo
            ELSE IF l[((lo + hi) \div 2) + 1][1] < c
                 THEN find[<<((lo + hi) \div 2) + 1, hi>>]
                 ELSE find[<<lo, (lo + hi) \div 2>>]
      BY <2>1, <2>2
    <2>. QED
      BY <2>3 DEF span
  <1>3. 0 \in P
    <2>1. ASSUME NEW lo \in At, NEW hi \in At, hi - lo <= 0
          PROVE  find[<<lo, hi>>] = Into(<<lo, hi>>, N)
      <3>1. lo >= hi
        BY <1>1, <2>1
      <3>. QED
        BY <1>2, <3>1 DEF Into
    <2>2. 0 \in 0 .. Len(l)
      BY <1>1
    <2>. QED
      BY <2>1, <2>2
  <1>4. ASSUME NEW k \in 0 .. Len(l) - 1, k \in P PROVE k + 1 \in P
    <2>1. k + 1 \in 0 .. Len(l) /\ k \in Nat
      BY <1>1
    <2>2. ASSUME NEW lo \in At, NEW hi \in At, hi - lo <= k + 1
          PROVE  find[<<lo, hi>>] = Into(<<lo, hi>>, N)
      <3>1. CASE lo >= hi
        BY <1>2, <3>1 DEF Into
      <3>2. CASE lo < hi
        <4>. DEFINE mid == (lo + hi) \div 2
        <4>1. mid \in Int /\ lo <= mid /\ mid < hi /\ mid + 1 <= hi
          BY <3>2, Middle
        <4>2. find[<<lo, hi>>] = IF l[mid + 1][1] < c THEN find[<<mid + 1, hi>>] ELSE find[<<lo, mid>>]
          BY <1>2, <3>2
        <4>. HIDE DEF mid
        <4>3. /\ mid \in At /\ mid + 1 \in At /\ mid + 1 \in 1 .. Len(l)
              /\ hi - (mid + 1) <= k /\ mid - lo <= k
          BY <1>1, <2>1, <2>2, <4>1
        <4>4. mid + 1 <= N <=> l[mid + 1][1] < c
          BY <4>3 DEF Begin
        <4>5. find[<<mid + 1, hi>>] = Into(<<mid + 1, hi>>, N) /\ find[<<lo, mid>>] = Into(<<lo, mid>>, N)
          BY <1>4, <4>3
        <4>6. CASE mid + 1 <= N
          <5>1. Into(<<lo, hi>>, N) = Into(<<mid + 1, hi>>, N)
            BY <1>1, <3>2, <4>1, <4>6 DEF Into
          <5>. QED
            BY <4>2, <4>4, <4>5, <4>6, <5>1
        <4>7. CASE ~(mid + 1 <= N)
          <5>1. Into(<<lo, hi>>, N) = Into(<<lo, mid>>, N)
            BY <1>1, <3>2, <4>1, <4>7 DEF Into
          <5>. QED
            BY <4>2, <4>4, <4>5, <4>7, <5>1
        <4>. QED
          BY <4>6, <4>7
      <3>. QED
        BY <1>1, <3>1, <3>2
    <2>. QED
      BY <2>1, <2>2
  <1>5. Len(l) \in P
    <2>. HIDE DEF P
    <2>1. \A k \in 0 .. Len(l) : k \in P
      BY <1>1, <1>3, <1>4, Upto
    <2>. QED
      BY <1>1, <2>1
  <1>6. 0 \in At /\ Len(l) \in At /\ Len(l) - 0 <= Len(l)
    BY <1>1
  <1>7. find[<<0, Len(l)>>] = Into(<<0, Len(l)>>, N)
    BY <1>5, <1>6
  <1>8. Into(<<0, Len(l)>>, N) = N
    BY <1>1 DEF Into
  <1>. QED
    BY <1>7, <1>8

\* The bisection ends behind the ranges that begin before the chunk.
LEMMA FoundExact ==
  ASSUME NEW l, Canonical(l), NEW c \in Int
  PROVE  Begin(l, c, FindInsertAt(l, c))
  <1>1. PICK N : Begin(l, c, N)
    BY BeginExists
  <1>2. \E find : Bisects(l, c, find)
    BY <1>1, BisectExists
  <1>. DEFINE f == CHOOSE find : Bisects(l, c, find)
  <1>3. Bisects(l, c, f)
    BY <1>2
  <1>4. FindInsertAt(l, c) = f[<<0, Len(l)>>]
    BY DEF FindInsertAt, Bisects
  <1>. HIDE DEF f
  <1>5. f[<<0, Len(l)>>] = N
    BY <1>1, <1>3, BisectFinds
  <1>. QED
    BY <1>1, <1>4, <1>5

\* What add looks at decides whether the chunk is there.
Known(l, c) ==
  InRange(l, FindInsertAt(l, c), c) \/ InRange(l, FindInsertAt(l, c) + 1, c)

\* It says so exactly when a range of the list has it.
LEMMA KnownExact ==
  ASSUME NEW l, Canonical(l), NEW c \in Int
  PROVE  Known(l, c) <=> Has(l, c)
  <1>. DEFINE i == FindInsertAt(l, c)
  <1>1. Begin(l, c, i)
    BY FoundExact
  <1>2. Len(l) \in Nat /\ DOMAIN l = 1 .. Len(l)
        /\ \A j \in 1 .. Len(l) : l[j][1] \in Int /\ l[j][2] \in Int
    BY Ends DEF Canonical
  <1>. HIDE DEF i
  <1>3. i \in 0 .. Len(l) /\ \A j \in 1 .. Len(l) : j <= i <=> l[j][1] < c
    BY <1>1 DEF Begin
  <1>4. InRange(l, i, c) \/ InRange(l, i + 1, c) => Has(l, c)
    BY <1>2 DEF InRange, Has, Within
  <1>5. ASSUME NEW j \in 1 .. Len(l), Within(l[j], c) PROVE j = i \/ j = i + 1
    <2>1. CASE j < i
      <3>1. i \in 1 .. Len(l)
        BY <1>2, <1>3, <2>1
      <3>2. l[i][1] < c /\ l[j][2] < l[i][1]
        BY <1>3, <2>1, <3>1 DEF Canonical, Separate
      <3>. QED
        BY <1>2, <1>5, <3>1, <3>2 DEF Within
    <2>2. CASE i + 1 < j
      <3>1. i + 1 \in 1 .. Len(l)
        BY <1>2, <1>3, <2>2
      <3>2. ~(l[i + 1][1] < c) /\ l[i + 1][1] < l[i + 1][2] /\ l[i + 1][2] < l[j][1]
        BY <1>3, <2>2, <3>1 DEF Canonical, Separate, Proper
      <3>. QED
        BY <1>2, <1>5, <3>1, <3>2 DEF Within
    <2>. QED
      BY <1>2, <1>3, <2>1, <2>2
  <1>6. Has(l, c) => InRange(l, i, c) \/ InRange(l, i + 1, c)
    BY <1>2, <1>5 DEF InRange, Has, Within
  <1>. QED
    BY <1>4, <1>6 DEF Known, i

-----------------------------------------------------------------------------
(* add. *)

\* A range in the place of those between positions p and q.
Splice(l, p, q, e) == SubSeq(l, 1, p) \o <<e>> \o SubSeq(l, q, Len(l))

\* Where the ranges of the spliced list come from.
LEMMA Spliced ==
  ASSUME NEW l \in Lists, NEW p \in Int, NEW q \in Int, 0 <= p, p < q, q <= Len(l) + 1, NEW e \in Pair
  PROVE  /\ Splice(l, p, q, e) \in Lists
         /\ Len(Splice(l, p, q, e)) = p + 1 + (Len(l) - q + 1)
         /\ \A i \in 1 .. p : Splice(l, p, q, e)[i] = l[i]
         /\ Splice(l, p, q, e)[p + 1] = e
         /\ \A i \in q .. Len(l) : Splice(l, p, q, e)[p + 1 + (i - q + 1)] = l[i]
  <1>. DEFINE a == SubSeq(l, 1, p)
              b == SubSeq(l, q, Len(l))
              m == Len(l)
  <1>1. m \in Nat /\ \A i \in 1 .. m : l[i] \in Pair
    BY Ends
  <1>2. a \in Seq(Pair) /\ Len(a) = p /\ \A i \in 1 .. p : a[i] = l[i]
    <2>1. \A i \in 1 .. p : l[i] \in Pair
      BY <1>1
    <2>2. /\ SubSeq(l, 1, p) \in Seq(Pair)
          /\ Len(SubSeq(l, 1, p)) = IF 1 <= p THEN p - 1 + 1 ELSE 0
          /\ \A i \in 1 .. p - 1 + 1 : SubSeq(l, 1, p)[i] = l[1 + i - 1]
      BY <2>1, SubSeqProperties
    <2>3. Len(a) = p
      BY <2>2
    <2>4. ASSUME NEW i \in 1 .. p PROVE a[i] = l[i]
      <3>1. i \in 1 .. p - 1 + 1 /\ 1 + i - 1 = i
        OBVIOUS
      <3>2. SubSeq(l, 1, p)[i] = l[1 + i - 1]
        BY <2>2, <3>1
      <3>. QED
        BY <3>1, <3>2
    <2>. QED
      BY <2>2, <2>3, <2>4
  <1>3. b \in Seq(Pair) /\ Len(b) = m - q + 1 /\ \A i \in 1 .. m - q + 1 : b[i] = l[q + i - 1]
    <2>1. \A i \in q .. m : l[i] \in Pair
      BY <1>1
    <2>2. /\ SubSeq(l, q, m) \in Seq(Pair)
          /\ Len(SubSeq(l, q, m)) = IF q <= m THEN m - q + 1 ELSE 0
          /\ \A i \in 1 .. m - q + 1 : SubSeq(l, q, m)[i] = l[q + i - 1]
      BY <1>1, <2>1, SubSeqProperties
    <2>3. Len(b) = m - q + 1
      BY <1>1, <2>2
    <2>. QED
      BY <2>2, <2>3
  <1>. HIDE DEF a, b, m
  <1>4. <<e>> \in Seq(Pair) /\ Len(<<e>>) = 1 /\ <<e>>[1] = e
    OBVIOUS
  <1>5. /\ a \o <<e>> \in Seq(Pair) /\ Len(a \o <<e>>) = p + 1
        /\ \A i \in 1 .. p + 1 : (a \o <<e>>)[i] = IF i <= p THEN a[i] ELSE <<e>>[i - p]
    BY <1>2, <1>4, ConcatProperties
  <1>. DEFINE ae == a \o <<e>>
  <1>6. /\ \A i \in 1 .. p : ae[i] = l[i]
        /\ ae[p + 1] = e
    <2>1. p + 1 \in 1 .. p + 1 /\ ~(p + 1 <= p) /\ p + 1 - p = 1
      OBVIOUS
    <2>2. \A i \in 1 .. p : i \in 1 .. p + 1 /\ i <= p
      OBVIOUS
    <2>. QED
      BY <1>2, <1>4, <1>5, <2>1, <2>2
  <1>. HIDE DEF ae
  <1>7. ae \in Seq(Pair) /\ Len(ae) = p + 1
    BY <1>5 DEF ae
  <1>. DEFINE s == ae \o b
  <1>8. /\ s \in Seq(Pair) /\ Len(s) = p + 1 + (m - q + 1)
        /\ \A i \in 1 .. p + 1 + (m - q + 1) : s[i] = IF i <= p + 1 THEN ae[i] ELSE b[i - (p + 1)]
    <2>1. /\ s \in Seq(Pair) /\ Len(s) = Len(ae) + Len(b)
          /\ \A i \in 1 .. Len(ae) + Len(b) : s[i] = IF i <= Len(ae) THEN ae[i] ELSE b[i - Len(ae)]
      BY <1>3, <1>7, ConcatProperties
    <2>. HIDE DEF s
    <2>. QED
      BY <1>3, <1>7, <2>1
  <1>. HIDE DEF s
  <1>9. /\ \A i \in 1 .. p : s[i] = l[i]
        /\ s[p + 1] = e
    <2>1. p + 1 \in 1 .. p + 1 + (m - q + 1) /\ p + 1 <= p + 1
      BY <1>1 DEF m
    <2>2. \A i \in 1 .. p : i \in 1 .. p + 1 + (m - q + 1) /\ i <= p + 1
      BY <1>1 DEF m
    <2>. QED
      BY <1>6, <1>8, <2>1, <2>2
  <1>10. ASSUME NEW i \in q .. m PROVE s[p + 1 + (i - q + 1)] = l[i]
    <2>. DEFINE x == p + 1 + (i - q + 1)
    <2>1. /\ x \in 1 .. p + 1 + (m - q + 1) /\ ~(x <= p + 1) /\ x - (p + 1) = i - q + 1
          /\ i - q + 1 \in 1 .. m - q + 1 /\ q + (i - q + 1) - 1 = i
      BY <1>1
    <2>. HIDE DEF x
    <2>2. s[x] = b[i - q + 1]
      BY <1>8, <2>1
    <2>3. b[i - q + 1] = l[q + (i - q + 1) - 1]
      BY <1>3, <2>1
    <2>4. s[x] = l[i]
      BY <2>1, <2>2, <2>3
    <2>. QED
      BY <2>4 DEF x
  <1>11. Splice(l, p, q, e) = s
    BY DEF Splice, s, ae, a, b, m
  <1>. QED
    BY <1>8, <1>9, <1>10, <1>11 DEF Lists, m

\* With room around the new range the list is canonical again.
LEMMA SplicedRange ==
  ASSUME NEW l, Canonical(l), NEW p \in Int, NEW q \in Int, 0 <= p, p < q, q <= Len(l) + 1,
         NEW e \in Pair, e[1] < e[2],
         \A j \in 1 .. Len(l) : j <= p => l[j][2] < e[1],
         \A j \in 1 .. Len(l) : q <= j => e[2] < l[j][1]
  PROVE  /\ Canonical(Splice(l, p, q, e))
         /\ \A v : Has(Splice(l, p, q, e), v) <=>
                     \/ Within(e, v)
                     \/ \E j \in 1 .. Len(l) : (j <= p \/ q <= j) /\ Within(l[j], v)
  <1>. DEFINE s == Splice(l, p, q, e)
              m == Len(l)
              At(i, j) == j \in 1 .. m /\ ((j <= p /\ i = j) \/ (q <= j /\ i = p + 1 + (j - q + 1)))
  <1>1. /\ m \in Nat /\ l \in Lists /\ e[1] \in Int /\ e[2] \in Int
        /\ \A j \in 1 .. m : l[j][1] \in Int /\ l[j][2] \in Int
    BY Ends DEF Canonical, Pair
  <1>2. s \in Lists /\ Len(s) = p + 1 + (m - q + 1) /\ s[p + 1] = e
    BY <1>1, Spliced
  <1>3. ASSUME NEW i, NEW j, At(i, j) PROVE i \in 1 .. Len(s) /\ s[i] = l[j]
    <2>1. CASE j <= p /\ i = j
      <3>1. j \in 1 .. p /\ i \in 1 .. Len(s)
        BY <1>1, <1>2, <1>3, <2>1
      <3>. QED
        BY <1>1, <2>1, <3>1, Spliced
    <2>2. CASE q <= j /\ i = p + 1 + (j - q + 1)
      <3>1. j \in q .. m /\ i \in 1 .. Len(s)
        BY <1>1, <1>2, <1>3, <2>2
      <3>2. s[p + 1 + (j - q + 1)] = l[j]
        BY <1>1, <3>1, Spliced
      <3>. HIDE DEF s
      <3>. QED
        BY <2>2, <3>1, <3>2
    <2>. QED
      BY <1>3, <2>1, <2>2
  <1>4. ASSUME NEW i \in 1 .. Len(s) PROVE i = p + 1 \/ \E j \in 1 .. m : At(i, j)
    <2>1. CASE i <= p
      <3>1. i \in 1 .. m
        BY <1>1, <1>2, <2>1
      <3>2. At(i, i)
        BY <2>1, <3>1
      <3>. QED
        BY <3>1, <3>2
    <2>2. CASE p + 1 < i
      <3>1. i - p - 2 + q \in 1 .. m /\ q <= i - p - 2 + q /\ i = p + 1 + (i - p - 2 + q - q + 1)
        BY <1>1, <1>2, <2>2
      <3>2. At(i, i - p - 2 + q)
        BY <3>1
      <3>. QED
        BY <3>1, <3>2
    <2>. QED
      BY <1>1, <1>2, <2>1, <2>2
  <1>5. ASSUME NEW j \in 1 .. m, j <= p \/ q <= j PROVE \E i : At(i, j)
    <2>1. At(j, j) \/ At(p + 1 + (j - q + 1), j)
      BY <1>5
    <2>. HIDE DEF At
    <2>. QED
      BY <2>1
  <1>6. p + 1 \in 1 .. Len(s)
    BY <1>1, <1>2
  <1>7. ASSUME NEW i \in 1 .. Len(s), NEW j \in 1 .. Len(s), i < j
        PROVE  s[i][2] < s[j][1]
    <2>1. CASE i = p + 1
      <3>1. PICK y \in 1 .. m : At(j, y)
        BY <1>1, <1>4, <1>7, <2>1
      <3>2. q <= y
        BY <1>7, <2>1, <3>1
      <3>3. s[j] = l[y]
        BY <1>3, <3>1
      <3>. QED
        BY <1>2, <2>1, <3>2, <3>3
    <2>2. CASE j = p + 1
      <3>1. PICK x \in 1 .. m : At(i, x)
        BY <1>1, <1>4, <1>7, <2>2
      <3>2. x <= p
        BY <1>7, <2>2, <3>1
      <3>3. s[i] = l[x]
        BY <1>3, <3>1
      <3>. QED
        BY <1>2, <2>2, <3>2, <3>3
    <2>3. CASE i # p + 1 /\ j # p + 1
      <3>1. PICK x \in 1 .. m : At(i, x)
        BY <1>4, <2>3
      <3>2. PICK y \in 1 .. m : At(j, y)
        BY <1>4, <2>3
      <3>3. x < y
        BY <1>7, <3>1, <3>2
      <3>4. s[i] = l[x] /\ s[j] = l[y]
        BY <1>3, <3>1, <3>2
      <3>. QED
        BY <3>3, <3>4 DEF Canonical, Separate
    <2>. QED
      BY <2>1, <2>2, <2>3
  <1>8. ASSUME NEW i \in 1 .. Len(s) PROVE s[i][1] < s[i][2]
    <2>1. CASE i = p + 1
      BY <1>2, <2>1
    <2>2. CASE i # p + 1
      <3>1. PICK x \in 1 .. m : At(i, x)
        BY <1>4, <2>2
      <3>2. s[i] = l[x]
        BY <1>3, <3>1
      <3>. QED
        BY <3>2 DEF Canonical, Proper
    <2>. QED
      BY <2>1, <2>2
  <1>9. ASSUME NEW v
        PROVE  Has(s, v) <=> \/ Within(e, v)
                             \/ \E j \in 1 .. m : (j <= p \/ q <= j) /\ Within(l[j], v)
    <2>1. ASSUME NEW i \in 1 .. Len(s), Within(s[i], v)
          PROVE  Within(e, v) \/ \E j \in 1 .. m : (j <= p \/ q <= j) /\ Within(l[j], v)
      <3>1. CASE i = p + 1
        BY <1>2, <2>1, <3>1
      <3>2. CASE i # p + 1
        <4>1. PICK x \in 1 .. m : At(i, x)
          BY <1>4, <3>2
        <4>2. s[i] = l[x] /\ (x <= p \/ q <= x)
          BY <1>3, <4>1
        <4>. QED
          BY <2>1, <4>2
      <3>. QED
        BY <3>1, <3>2
    <2>2. Within(e, v) => Has(s, v)
      BY <1>2, <1>6 DEF Has
    <2>3. ASSUME NEW j \in 1 .. m, j <= p \/ q <= j, Within(l[j], v) PROVE Has(s, v)
      <3>1. PICK i : At(i, j)
        BY <1>5, <2>3
      <3>2. i \in 1 .. Len(s) /\ s[i] = l[j]
        BY <1>3, <3>1
      <3>. QED
        BY <2>3, <3>2 DEF Has
    <2>. QED
      BY <2>1, <2>2, <2>3 DEF Has
  <1>10. Separate(s) /\ Proper(s)
    <2>. HIDE DEF s
    <2>. QED
      BY <1>7, <1>8 DEF Separate, Proper
  <1>. HIDE DEF m
  <1>11. Canonical(s)
    <2>. HIDE DEF s
    <2>. QED
      BY <1>2, <1>10 DEF Canonical
  <1>. QED
    BY <1>9, <1>11 DEF m

\* A chunk that is new gets into the canonical list, and nothing else does.
LEMMA InsertedExact ==
  ASSUME NEW l, Canonical(l), NEW c \in Int, ~Has(l, c)
  PROVE  /\ Canonical(Inserted(l, c))
         /\ \A v \in Int : Has(Inserted(l, c), v) <=> Has(l, v) \/ v = c
  <1>. DEFINE i == FindInsertAt(l, c)
              after == i > 0 /\ l[i][2] = c
              before == i < Len(l) /\ l[i + 1][1] = c + 1
              first == IF after THEN l[i][1] ELSE c
              end == IF before THEN l[i + 1][2] ELSE c + 1
              p == IF after THEN i - 1 ELSE i
              q == IF before THEN i + 2 ELSE i + 1
              e == <<first, end>>
  <1>1. Begin(l, c, i)
    BY FoundExact
  <1>2. Inserted(l, c) = Splice(l, p, q, e)
    BY DEF Inserted, Splice
  <1>. HIDE DEF i
  <1>3. /\ i \in 0 .. Len(l) /\ Len(l) \in Nat
        /\ \A j \in 1 .. Len(l) : l[j][1] \in Int /\ l[j][2] \in Int
    BY <1>1, Ends DEF Canonical, Begin
  <1>4. ASSUME NEW j \in 1 .. Len(l)
        PROVE  /\ l[j][1] < l[j][2]
               /\ j <= i => l[j][1] < c /\ l[j][2] <= c
               /\ i < j => c < l[j][1]
    <2>1. l[j][1] < l[j][2] /\ l[j][1] \in Int /\ l[j][2] \in Int
      BY <1>3 DEF Canonical, Proper
    <2>2. ~(l[j][1] <= c /\ c < l[j][2])
      BY DEF Has, Within
    <2>3. j <= i <=> l[j][1] < c
      BY <1>1 DEF Begin
    <2>. QED
      BY <1>3, <2>1, <2>2, <2>3
  <1>5. \A j \in 1 .. Len(l), k \in 1 .. Len(l) : j < k => l[j][2] < l[k][1]
    BY DEF Canonical, Separate
  <1>6. i > 0 => i \in 1 .. Len(l)
    BY <1>3
  <1>7. i < Len(l) => i + 1 \in 1 .. Len(l)
    BY <1>3
  <1>8. /\ first \in Int /\ first <= c
        /\ \A v \in Int : first <= v /\ v < c <=> after /\ Within(l[i], v)
    <2>1. CASE after
      <3>1. first = l[i][1] /\ l[i][2] = c /\ i \in 1 .. Len(l) /\ l[i][1] \in Int /\ l[i][1] < c
        BY <1>3, <1>4, <1>6, <2>1
      <3>. HIDE DEF first
      <3>. QED
        BY <2>1, <3>1 DEF Within
    <2>2. CASE ~after
      BY <2>2
    <2>. QED
      BY <2>1, <2>2
  <1>9. /\ end \in Int /\ c + 1 <= end
        /\ \A v \in Int : c + 1 <= v /\ v < end <=> before /\ Within(l[i + 1], v)
    <2>1. CASE before
      <3>1. /\ end = l[i + 1][2] /\ l[i + 1][1] = c + 1 /\ i + 1 \in 1 .. Len(l)
            /\ l[i + 1][2] \in Int /\ c + 1 < l[i + 1][2]
        BY <1>3, <1>4, <1>7, <2>1
      <3>. HIDE DEF end
      <3>. QED
        BY <2>1, <3>1 DEF Within
    <2>2. CASE ~before
      BY <2>2
    <2>. QED
      BY <2>1, <2>2
  <1>10. /\ p \in Int /\ q \in Int /\ 0 <= p /\ p < q /\ q <= Len(l) + 1
         /\ \A j \in 1 .. Len(l) : /\ j <= p <=> j <= i /\ ~(after /\ j = i)
                                   /\ q <= j <=> i < j /\ ~(before /\ j = i + 1)
    <2>1. /\ after => p = i - 1 /\ 0 < i
          /\ ~after => p = i
          /\ before => q = i + 2 /\ i < Len(l)
          /\ ~before => q = i + 1
      OBVIOUS
    <2>. HIDE DEF after, before, p, q
    <2>2. p \in Int /\ 0 <= p /\ p <= i
      BY <1>3, <2>1
    <2>3. q \in Int /\ i < q /\ q <= Len(l) + 1
      BY <1>3, <2>1
    <2>4. ASSUME NEW j \in 1 .. Len(l) PROVE j <= p <=> j <= i /\ ~(after /\ j = i)
      BY <1>3, <2>1
    <2>5. ASSUME NEW j \in 1 .. Len(l) PROVE q <= j <=> i < j /\ ~(before /\ j = i + 1)
      BY <1>3, <2>1
    <2>6. p < q
      BY <1>3, <2>2, <2>3
    <2>. QED
      BY <2>2, <2>3, <2>4, <2>5, <2>6
  <1>11. ASSUME NEW j \in 1 .. Len(l), j <= p PROVE l[j][2] < first
    <2>1. j <= i /\ ~(after /\ j = i) /\ l[j][2] \in Int /\ l[j][2] <= c
      BY <1>3, <1>4, <1>10, <1>11
    <2>2. CASE after
      <3>1. j < i /\ i \in 1 .. Len(l)
        BY <1>3, <1>6, <2>1, <2>2
      <3>2. l[j][2] < l[i][1]
        BY <1>5, <3>1
      <3>. QED
        BY <2>2, <3>2
    <2>3. CASE ~after
      <3>1. CASE j = i
        <4>1. l[j][2] # c
          BY <2>3, <3>1
        <4>. QED
          BY <2>1, <2>3, <4>1
      <3>2. CASE j < i
        <4>1. i \in 1 .. Len(l)
          BY <1>3, <3>2
        <4>2. l[j][2] < l[i][1] /\ l[i][1] < c /\ l[i][1] \in Int
          BY <1>3, <1>4, <1>5, <3>2, <4>1
        <4>. QED
          BY <2>1, <2>3, <4>2
      <3>. QED
        BY <1>3, <2>1, <3>1, <3>2
    <2>. QED
      BY <2>2, <2>3
  <1>12. ASSUME NEW j \in 1 .. Len(l), q <= j PROVE end < l[j][1]
    <2>1. i < j /\ ~(before /\ j = i + 1) /\ l[j][1] \in Int /\ c < l[j][1]
          /\ i + 1 \in 1 .. Len(l)
      BY <1>3, <1>4, <1>10, <1>12
    <2>2. CASE before
      <3>1. i + 1 < j
        BY <1>3, <2>1, <2>2
      <3>2. l[i + 1][2] < l[j][1]
        BY <1>5, <2>1, <3>1
      <3>. QED
        BY <2>2, <3>2
    <2>3. CASE ~before
      <3>1. CASE j = i + 1
        <4>1. l[j][1] # c + 1
          BY <1>3, <2>1, <2>3, <3>1
        <4>. QED
          BY <2>1, <2>3, <4>1
      <3>2. CASE i + 1 < j
        <4>1. /\ l[i + 1][2] < l[j][1] /\ c < l[i + 1][1] /\ l[i + 1][1] < l[i + 1][2]
              /\ l[i + 1][1] \in Int /\ l[i + 1][2] \in Int
          <5>1. i < i + 1
            BY <1>3
          <5>. QED
            BY <1>3, <1>4, <1>5, <2>1, <3>2, <5>1
        <4>. QED
          BY <2>1, <2>3, <4>1
      <3>. QED
        BY <1>3, <2>1, <3>1, <3>2
    <2>. QED
      BY <2>2, <2>3
  <1>13. e \in Pair /\ e[1] = first /\ e[2] = end
    BY <1>8, <1>9 DEF Pair
  <1>. HIDE DEF p, q, e, first, end
  <1>14. e[1] < e[2]
    BY <1>8, <1>9, <1>13
  <1>. DEFINE s == Splice(l, p, q, e)
  <1>15. /\ Canonical(s)
         /\ \A v : Has(s, v) <=>
                     \/ Within(e, v)
                     \/ \E j \in 1 .. Len(l) : (j <= p \/ q <= j) /\ Within(l[j], v)
    BY <1>10, <1>11, <1>12, <1>13, <1>14, SplicedRange
  <1>. HIDE DEF s
  <1>16. ASSUME NEW v \in Int PROVE Has(s, v) <=> Has(l, v) \/ v = c
    <2>1. Within(e, v) <=> v = c \/ (after /\ Within(l[i], v)) \/ (before /\ Within(l[i + 1], v))
      BY <1>8, <1>9, <1>13 DEF Within
    <2>2. ASSUME NEW j \in 1 .. Len(l), Within(l[j], v) PROVE Has(s, v)
      <3>1. CASE j <= p \/ q <= j
        BY <1>15, <2>2, <3>1
      <3>2. CASE ~(j <= p \/ q <= j)
        <4>1. j <= i \/ i < j
          BY <1>3
        <4>2. (after /\ j = i) \/ (before /\ j = i + 1)
          BY <1>10, <3>2, <4>1
        <4>. HIDE DEF after, before
        <4>. QED
          BY <1>15, <2>1, <2>2, <4>2
      <3>. QED
        BY <3>1, <3>2
    <2>3. after /\ Within(l[i], v) => Has(l, v)
      BY <1>6 DEF Has
    <2>4. before /\ Within(l[i + 1], v) => Has(l, v)
      BY <1>7 DEF Has
    <2>. HIDE DEF after, before
    <2>5. Has(s, v) => Has(l, v) \/ v = c
      <3>1. (\E j \in 1 .. Len(l) : (j <= p \/ q <= j) /\ Within(l[j], v)) => Has(l, v)
        BY DEF Has
      <3>. QED
        BY <1>15, <2>1, <2>3, <2>4, <3>1
    <2>6. v = c => Has(s, v)
      BY <1>15, <2>1
    <2>7. Has(l, v) => Has(s, v)
      BY <2>2 DEF Has
    <2>. QED
      BY <2>5, <2>6, <2>7
  <1>17. Inserted(l, c) = s
    BY <1>2 DEF s
  <1>. QED
    BY <1>15, <1>16, <1>17

-----------------------------------------------------------------------------
(* Numbers of chunks. *)

\* Chunks behind all others are as many more as their interval is long.
LEMMA AddInterval ==
  ASSUME NEW S \in SUBSET Int, IsFiniteSet(S), NEW a \in Int, NEW b \in Int, a <= b,
         \A v \in S : v < a,
         NEW T \in SUBSET Int, \A v \in Int : v \in T <=> v \in S \/ (a <= v /\ v < b)
  PROVE  /\ IsFiniteSet(T) /\ Cardinality(S) \in Nat
         /\ Cardinality(T) = Cardinality(S) + (b - a)
  <1>1. IsFiniteSet(a .. b - 1) /\ Cardinality(a .. b - 1) = b - a
    <2>1. b - 1 \in Int
      OBVIOUS
    <2>2. /\ IsFiniteSet(a .. b - 1)
          /\ Cardinality(a .. b - 1) = IF a > b - 1 THEN 0 ELSE b - 1 - a + 1
      BY <2>1, FS_Interval
    <2>. QED
      BY <2>2
  <1>2. T = S \cup (a .. b - 1)
    <2>1. \A v \in Int : v \in a .. b - 1 <=> a <= v /\ v < b
      OBVIOUS
    <2>2. a .. b - 1 \in SUBSET Int
      OBVIOUS
    <2>. QED
      BY <2>1, <2>2
  <1>3. S \cap (a .. b - 1) = {}
    OBVIOUS
  <1>4. Cardinality(S \cap (a .. b - 1)) = 0
    BY <1>3, FS_EmptySet
  <1>5. /\ IsFiniteSet(S \cup (a .. b - 1))
        /\ Cardinality(S \cup (a .. b - 1)) =
             Cardinality(S) + Cardinality(a .. b - 1) - Cardinality(S \cap (a .. b - 1))
    BY <1>1, FS_Union
  <1>6. Cardinality(S) \in Nat
    BY FS_CardinalityType
  <1>. QED
    BY <1>1, <1>2, <1>4, <1>5, <1>6

\* The chunks of the first k ranges.
First(l, k) == {v \in Int : \E i \in 1 .. k : Within(l[i], v)}

\* The length of the ranges is the number of the chunks, and there are no more ranges
\* than chunks.
LEMMA Counted ==
  ASSUME NEW l, Canonical(l)
  PROVE  /\ IsFiniteSet(Expand(l)) /\ Cardinality(Expand(l)) \in Nat
         /\ CountOf(l) = Cardinality(Expand(l))
         /\ Len(l) <= Cardinality(Expand(l))
  <1>. DEFINE n == Len(l)
  <1>1. /\ l \in Lists /\ n \in Nat
        /\ \A i \in 1 .. n : l[i][1] \in Int /\ l[i][2] \in Int /\ l[i][1] < l[i][2]
        /\ \A i \in 1 .. n, j \in 1 .. n : i < j => l[i][2] < l[j][1]
    BY Ends DEF Canonical, Separate, Proper
  <1>2. PICK f : /\ f[0] = 0
                 /\ \A k \in 1 .. n : f[k] = f[k - 1] + l[k][2] - l[k][1]
                 /\ CountOf(l) = f[n]
    BY <1>1, Counting DEF Lists
  <1>. DEFINE P == {k \in 0 .. n : /\ IsFiniteSet(First(l, k))
                                   /\ f[k] = Cardinality(First(l, k)) /\ k <= f[k]}
  <1>3. 0 \in P
    <2>1. First(l, 0) = {}
      <3>1. \A i : i \notin 1 .. 0
        OBVIOUS
      <3>. QED
        BY <3>1 DEF First
    <2>2. IsFiniteSet(First(l, 0)) /\ Cardinality(First(l, 0)) = 0
      BY <2>1, FS_EmptySet
    <2>3. 0 \in 0 .. n
      BY <1>1
    <2>. QED
      BY <1>2, <2>2, <2>3
  <1>4. ASSUME NEW k \in 0 .. n - 1, k \in P PROVE k + 1 \in P
    <2>1. k \in Nat /\ k + 1 \in 1 .. n /\ k + 1 \in 0 .. n /\ k + 1 - 1 = k
      BY <1>1
    <2>2. IsFiniteSet(First(l, k)) /\ f[k] = Cardinality(First(l, k)) /\ k <= f[k]
      BY <1>4
    <2>. DEFINE a == l[k + 1][1]
                b == l[k + 1][2]
    <2>3. a \in Int /\ b \in Int /\ a < b
      BY <1>1, <2>1
    <2>4. \A v \in First(l, k) : v < a
      <3>. SUFFICES ASSUME NEW v \in First(l, k) PROVE v < a
        OBVIOUS
      <3>1. PICK i \in 1 .. k : Within(l[i], v)
        BY DEF First
      <3>2. i \in 1 .. n /\ i < k + 1 /\ v \in Int
        BY <1>1, <2>1 DEF First
      <3>3. l[i][2] < a /\ v < l[i][2] /\ l[i][2] \in Int
        BY <1>1, <2>1, <3>1, <3>2 DEF Within
      <3>. HIDE DEF a
      <3>. QED
        BY <2>3, <3>2, <3>3
    <2>5. \A v \in Int : v \in First(l, k + 1) <=> v \in First(l, k) \/ (a <= v /\ v < b)
      <3>1. \A i : i \in 1 .. k + 1 <=> i \in 1 .. k \/ i = k + 1
        BY <2>1
      <3>2. \A v : Within(l[k + 1], v) <=> a <= v /\ v < b
        BY DEF Within
      <3>. HIDE DEF a, b
      <3>. QED
        BY <3>1, <3>2 DEF First
    <2>6. First(l, k) \in SUBSET Int /\ First(l, k + 1) \in SUBSET Int
      BY DEF First
    <2>7. f[k + 1] = f[k] + b - a
      BY <1>2, <2>1
    <2>. HIDE DEF a, b
    <2>. DEFINE S == First(l, k)
                T == First(l, k + 1)
    <2>8. /\ IsFiniteSet(T) /\ Cardinality(S) \in Nat
          /\ Cardinality(T) = Cardinality(S) + (b - a)
      <3>1. /\ S \in SUBSET Int /\ IsFiniteSet(S) /\ T \in SUBSET Int
            /\ a \in Int /\ b \in Int /\ a <= b
        BY <2>2, <2>3, <2>6
      <3>2. \A v \in S : v < a
        BY <2>4
      <3>3. \A v \in Int : v \in T <=> v \in S \/ (a <= v /\ v < b)
        BY <2>5
      <3>. HIDE DEF S, T
      <3>4. Cardinality(T) = Cardinality(S) + (b - a)
        BY <3>1, <3>2, <3>3, AddInterval
      <3>5. IsFiniteSet(T) /\ Cardinality(S) \in Nat
        BY <3>1, <3>2, <3>3, AddInterval
      <3>. QED
        BY <3>4, <3>5
    <2>9. f[k + 1] = Cardinality(First(l, k + 1)) /\ k + 1 <= f[k + 1]
      BY <2>1, <2>2, <2>3, <2>7, <2>8
    <2>. QED
      BY <2>1, <2>8, <2>9
  <1>5. n \in P
    <2>. HIDE DEF P
    <2>1. \A k \in 0 .. n : k \in P
      BY <1>1, <1>3, <1>4, Upto
    <2>. QED
      BY <1>1, <2>1
  <1>6. Expand(l) = First(l, n)
    BY <1>1, Expanded DEF Has, First
  <1>. HIDE DEF n
  <1>7. IsFiniteSet(First(l, n)) /\ f[n] = Cardinality(First(l, n)) /\ n <= f[n]
    BY <1>5
  <1>8. Cardinality(First(l, n)) \in Nat
    BY <1>7, FS_CardinalityType
  <1>. QED
    BY <1>2, <1>6, <1>7, <1>8 DEF n

-----------------------------------------------------------------------------
(* limit_ranges_to_chunk_budget. *)

\* "a" has the first chunks of l.
Initial(a, l) ==
  /\ \A v \in Int : Has(a, v) => Has(l, v)
  /\ \A v \in Int, w \in Int : Has(a, v) /\ Has(l, w) /\ ~Has(a, w) => v < w

\* What the loop keeps; as long as something is left it has taken every range whole.
SpentUpto(l, budget, k, b) ==
  /\ b \in Budgets /\ 0 <= b.left /\ Canonical(b.out) /\ Initial(b.out, l)
  /\ Cardinality(Expand(b.out)) = budget - b.left
  /\ 0 < b.left => \A v \in Int : (\E i \in 1 .. k : Within(l[i], v)) => Has(b.out, v)
  /\ \A i \in 1 .. Len(b.out) : \E j \in 1 .. k : b.out[i][2] <= l[j][2]

\* One round of the loop.
LEMMA SpendStep ==
  ASSUME NEW l, Canonical(l), NEW budget \in Nat, NEW k \in Nat, k + 1 \in 1 .. Len(l),
         NEW b, SpentUpto(l, budget, k, b)
  PROVE  SpentUpto(l, budget, k + 1, Spend(b, l[k + 1]))
  <1>. DEFINE r == l[k + 1]
              n == IF b.left <= r[2] - r[1] THEN b.left ELSE r[2] - r[1]
              e == <<r[1], r[1] + n>>
              out == Append(b.out, e)
  <1>1. /\ l \in Lists /\ r \in Pair /\ r[1] \in Int /\ r[2] \in Int /\ r[1] < r[2]
        /\ b \in Budgets /\ b.left \in Int /\ 0 <= b.left /\ b.out \in Lists
        /\ Separate(b.out) /\ Proper(b.out)
    BY Ends DEF SpentUpto, Canonical, Proper, Budgets
  <1>2. Min({b.left, r[2] - r[1]}) = n
    BY <1>1, MinOfTwo
  <1>3. Spend(b, r) = IF n <= 0 THEN b ELSE [left |-> b.left - n, out |-> out]
    BY <1>2 DEF Spend
  <1>4. \A j \in 1 .. k : j \in 1 .. k + 1
    OBVIOUS
  <1>5. CASE b.left = 0
    <2>1. n <= 0
      BY <1>1, <1>5
    <2>2. Spend(b, r) = b
      BY <1>3, <2>1
    <2>3. \A i \in 1 .. Len(b.out) : \E j \in 1 .. k + 1 : b.out[i][2] <= l[j][2]
      BY <1>4 DEF SpentUpto
    <2>4. ~(0 < b.left)
      BY <1>5
    <2>. HIDE DEF r
    <2>5. SpentUpto(l, budget, k + 1, b)
      BY <2>3, <2>4 DEF SpentUpto
    <2>6. SpentUpto(l, budget, k + 1, Spend(b, r))
      BY <2>2, <2>5
    <2>. QED
      BY <2>6 DEF r
  <1>6. CASE b.left # 0
    <2>1. /\ n \in Int /\ 0 < n /\ n <= b.left /\ r[1] + n <= r[2]
          /\ 0 < b.left - n => r[1] + n = r[2]
      <3>. DEFINE x == r[1]
                  y == r[2]
                  left == b.left
      <3>1. /\ x \in Int /\ y \in Int /\ x < y /\ left \in Int /\ 0 <= left /\ left # 0
            /\ n = IF left <= y - x THEN left ELSE y - x
        BY <1>1, <1>6
      <3>. HIDE DEF x, y, left, n
      <3>2. /\ n \in Int /\ 0 < n /\ n <= left /\ x + n <= y
            /\ 0 < left - n => x + n = y
        BY <3>1
      <3>. QED
        BY <3>2 DEF x, y, left
    <2>2. e \in Pair /\ e[1] = r[1] /\ e[2] = r[1] + n
      BY <1>1, <2>1 DEF Pair
    <2>3. Spend(b, r) = [left |-> b.left - n, out |-> out]
      BY <1>3, <2>1
    <2>. HIDE DEF n, e
    <2>4. \A i \in 1 .. Len(b.out) : b.out[i][2] < e[1]
      <3>. SUFFICES ASSUME NEW i \in 1 .. Len(b.out) PROVE b.out[i][2] < e[1]
        OBVIOUS
      <3>1. PICK j \in 1 .. k : b.out[i][2] <= l[j][2]
        BY DEF SpentUpto
      <3>2. j \in 1 .. Len(l) /\ j < k + 1
        BY <1>1, Ends
      <3>3. l[j][2] < r[1] /\ l[j][2] \in Int
        BY <1>1, <3>2, Ends DEF Canonical, Separate
      <3>4. b.out[i][2] \in Int
        BY <1>1, Ends
      <3>5. r[1] \in Int /\ e[1] = r[1]
        BY <1>1, <2>2
      <3>. DEFINE x == b.out[i][2]
                  y == l[j][2]
      <3>6. x \in Int /\ y \in Int /\ e[1] \in Int /\ x <= y /\ y < e[1]
        BY <3>1, <3>3, <3>4, <3>5
      <3>. HIDE DEF x, y
      <3>7. x < e[1]
        BY <3>6
      <3>. QED
        BY <3>7 DEF x
    <2>5. /\ out \in Lists /\ Separate(out)
          /\ \A v : Has(out, v) <=> Has(b.out, v) \/ Within(e, v)
          /\ Proper(b.out) /\ e[1] < e[2] => Proper(out)
      BY <1>1, <2>2, <2>4, AppendedRange
    <2>6. /\ Len(out) = Len(b.out) + 1 /\ Len(b.out) \in Nat /\ out[Len(b.out) + 1] = e
          /\ \A i \in 1 .. Len(b.out) : out[i] = b.out[i]
      BY <1>1, <2>2, Appended
    <2>. HIDE DEF out
    <2>7. Canonical(out)
      <3>1. e[1] < e[2]
        BY <1>1, <2>1, <2>2
      <3>. QED
        BY <1>1, <2>5, <3>1 DEF Canonical
    <2>8. \A v \in Int : Within(e, v) <=> r[1] <= v /\ v < r[1] + n
      BY <2>2 DEF Within
    <2>9. \A v \in Int : Within(e, v) => Within(r, v)
      <3>. SUFFICES ASSUME NEW v \in Int, Within(e, v) PROVE r[1] <= v /\ v < r[2]
        BY DEF Within
      <3>1. /\ r[1] <= v /\ v < r[1] + n /\ r[1] + n <= r[2]
            /\ r[1] \in Int /\ r[2] \in Int /\ n \in Int
        BY <1>1, <2>1, <2>8
      <3>. HIDE DEF r
      <3>. QED
        BY <3>1
    <2>10. \A v : (\E i \in 1 .. k + 1 : Within(l[i], v)) <=> (\E i \in 1 .. k : Within(l[i], v)) \/ Within(r, v)
      <3>1. \A i : i \in 1 .. k + 1 <=> i \in 1 .. k \/ i = k + 1
        OBVIOUS
      <3>. QED
        BY <3>1
    <2>11. \A v \in Int : (\E i \in 1 .. k : Within(l[i], v)) => Has(b.out, v)
      <3>1. 0 < b.left
        BY <1>1, <1>6
      <3>. QED
        BY <3>1 DEF SpentUpto
    <2>12. Initial(out, l)
      <3>1. ASSUME NEW v \in Int, Has(out, v) PROVE Has(l, v)
        <4>1. Within(r, v) => Has(l, v)
          BY DEF Has
        <4>. QED
          BY <2>5, <2>9, <3>1, <4>1 DEF SpentUpto, Initial
      <3>2. ASSUME NEW v \in Int, NEW w \in Int, Has(out, v), Has(l, w), ~Has(out, w)
            PROVE  v < w
        <4>1. ~Has(b.out, w) /\ ~Within(e, w)
          BY <2>5, <3>2
        <4>2. CASE Has(b.out, v)
          BY <3>2, <4>1, <4>2 DEF SpentUpto, Initial
        <4>3. CASE Within(e, v)
          <5>1. PICK j \in 1 .. Len(l) : Within(l[j], w)
            BY <3>2 DEF Has
          <5>2. j \notin 1 .. k
            BY <2>11, <4>1, <5>1
          <5>3. CASE j = k + 1
            <6>1. r[1] <= w /\ ~(w < r[1] + n)
              BY <2>8, <4>1, <5>1, <5>3 DEF Within
            <6>2. v < r[1] + n
              BY <2>8, <4>3
            <6>. HIDE DEF r
            <6>. QED
              BY <1>1, <2>1, <6>1, <6>2
          <5>4. CASE k + 1 < j
            <6>1. r[2] < w
              BY <5>1, <5>4, Later
            <6>2. v < r[1] + n
              BY <2>8, <4>3
            <6>. HIDE DEF r
            <6>. QED
              BY <1>1, <2>1, <6>1, <6>2
          <5>5. Len(l) \in Nat
            BY <1>1, Ends
          <5>. QED
            BY <5>2, <5>3, <5>4, <5>5
        <4>. QED
          BY <2>5, <3>2, <4>2, <4>3
      <3>. QED
        BY <3>1, <3>2 DEF Initial
    <2>13. Cardinality(Expand(out)) = budget - (b.left - n)
      <3>1. IsFiniteSet(Expand(b.out)) /\ Cardinality(Expand(b.out)) = budget - b.left
        BY Counted DEF SpentUpto
      <3>2. /\ Expand(b.out) \in SUBSET Int /\ Expand(out) \in SUBSET Int
            /\ \A v \in Int : v \in Expand(b.out) <=> Has(b.out, v)
            /\ \A v \in Int : v \in Expand(out) <=> Has(out, v)
        BY <1>1, <2>5, Expanded
      <3>3. \A v \in Int : v \in Expand(out) <=> v \in Expand(b.out) \/ (e[1] <= v /\ v < e[2])
        BY <2>5, <3>2 DEF Within
      <3>4. \A v \in Expand(b.out) : v < e[1]
        <4>. SUFFICES ASSUME NEW v \in Expand(b.out) PROVE v < e[1]
          OBVIOUS
        <4>1. v \in Int
          BY <3>2
        <4>2. PICK i \in 1 .. Len(b.out) : Within(b.out[i], v)
          BY <3>2, <4>1 DEF Has
        <4>3. b.out[i][2] \in Int /\ v < b.out[i][2] /\ b.out[i][2] < e[1] /\ e[1] \in Int
          BY <1>1, <2>2, <2>4, <4>2, Ends DEF Within
        <4>. QED
          BY <4>1, <4>3
      <3>5. e[1] \in Int /\ e[2] \in Int /\ e[1] <= e[2] /\ e[2] - e[1] = n
        BY <1>1, <2>1, <2>2
      <3>6. Cardinality(Expand(out)) = Cardinality(Expand(b.out)) + (e[2] - e[1])
        <4>. DEFINE x == e[1]
                    y == e[2]
                    S == Expand(b.out)
                    T == Expand(out)
        <4>1. /\ S \in SUBSET Int /\ IsFiniteSet(S) /\ T \in SUBSET Int
              /\ x \in Int /\ y \in Int /\ x <= y
          BY <3>1, <3>2, <3>5
        <4>2. \A v \in S : v < x
          BY <3>4
        <4>3. \A v \in Int : v \in T <=> v \in S \/ (x <= v /\ v < y)
          BY <3>3
        <4>. HIDE DEF x, y, S, T
        <4>4. Cardinality(T) = Cardinality(S) + (y - x)
          BY <4>1, <4>2, <4>3, AddInterval
        <4>. QED
          BY <4>4 DEF x, y, S, T
      <3>. QED
        BY <1>1, <2>1, <3>1, <3>5, <3>6
    <2>14. 0 < b.left - n =>
             \A v \in Int : (\E i \in 1 .. k + 1 : Within(l[i], v)) => Has(out, v)
      <3>. SUFFICES ASSUME 0 < b.left - n, NEW v \in Int, \E i \in 1 .. k + 1 : Within(l[i], v)
                    PROVE  Has(out, v)
        OBVIOUS
      <3>1. CASE \E i \in 1 .. k : Within(l[i], v)
        BY <2>5, <2>11, <3>1
      <3>2. CASE Within(r, v)
        <4>1. Within(e, v)
          BY <1>1, <2>1, <2>8, <3>2 DEF Within
        <4>. QED
          BY <2>5, <4>1
      <3>. QED
        BY <2>10, <3>1, <3>2
    <2>15. ASSUME NEW i \in 1 .. Len(out)
           PROVE  \E j \in 1 .. k + 1 : out[i][2] <= l[j][2]
      <3>1. CASE i = Len(b.out) + 1
        <4>1. k + 1 \in 1 .. k + 1 /\ out[i][2] <= l[k + 1][2]
          BY <2>1, <2>2, <2>6, <3>1
        <4>. QED
          BY <4>1
      <3>2. CASE i \in 1 .. Len(b.out)
        BY <1>4, <2>6, <3>2 DEF SpentUpto
      <3>3. i = Len(b.out) + 1 \/ i \in 1 .. Len(b.out)
        BY <2>6
      <3>. QED
        BY <3>1, <3>2, <3>3
    <2>. DEFINE x == [left |-> b.left - n, out |-> out]
    <2>16. x.left = b.left - n /\ x.out = out /\ x \in Budgets /\ 0 <= b.left - n
      BY <1>1, <2>1, <2>5 DEF Budgets
    <2>. HIDE DEF x
    <2>17. SpentUpto(l, budget, k + 1, x)
      BY <2>7, <2>12, <2>13, <2>14, <2>15, <2>16 DEF SpentUpto
    <2>. HIDE DEF r
    <2>18. Spend(b, r) = x
      BY <2>3 DEF x
    <2>19. SpentUpto(l, budget, k + 1, Spend(b, r))
      BY <2>17, <2>18
    <2>. QED
      BY <2>19 DEF r
  <1>. QED
    BY <1>1, <1>5, <1>6

\* The budget is spent on the first chunks of the list, all of it when there are enough.
LEMMA Limited ==
  ASSUME NEW l, Canonical(l), NEW budget \in Nat
  PROVE  /\ Canonical(LimitToBudget(l, budget)) /\ Initial(LimitToBudget(l, budget), l)
         /\ Cardinality(Expand(LimitToBudget(l, budget))) =
              IF budget <= Cardinality(Expand(l)) THEN budget ELSE Cardinality(Expand(l))
  <1>. DEFINE n == Len(l)
              base == [left |-> budget, out |-> <<>>]
  <1>1. l \in Lists /\ n \in Nat
    BY Ends DEF Canonical
  <1>2. PICK f : /\ f[0] = base
                 /\ \A k \in 1 .. n : f[k] = Spend(f[k - 1], l[k])
                 /\ FoldLeft(Spend, base, l) = f[n]
    <2>1. budget \in Int /\ l \in Seq(Pair)
      BY <1>1 DEF Lists
    <2>. QED
      BY <2>1, Spending
  <1>. DEFINE P == {k \in 0 .. n : SpentUpto(l, budget, k, f[k])}
  <1>3. 0 \in P
    <2>1. /\ base \in Budgets /\ base.left = budget /\ base.out = <<>>
          /\ Canonical(<<>>) /\ Len(<<>>) = 0 /\ \A i : i \notin 1 .. 0
      BY NoRanges DEF Budgets, Canonical
    <2>2. Initial(<<>>, l)
      BY NoRanges DEF Initial
    <2>3. Cardinality(Expand(<<>>)) = 0
      <3>1. Expand(<<>>) = {}
        BY <2>1, NoRanges, Expanded DEF Canonical
      <3>. QED
        BY <3>1, FS_EmptySet
    <2>. HIDE DEF base
    <2>4. SpentUpto(l, budget, 0, base)
      BY <2>1, <2>2, <2>3 DEF SpentUpto
    <2>. QED
      BY <1>1, <1>2, <2>4
  <1>4. ASSUME NEW k \in 0 .. n - 1, k \in P PROVE k + 1 \in P
    <2>1. k \in Nat /\ k + 1 \in 1 .. n /\ k + 1 \in 0 .. n /\ k + 1 - 1 = k
      BY <1>1
    <2>2. SpentUpto(l, budget, k + 1, Spend(f[k], l[k + 1]))
      BY <1>4, <2>1, SpendStep
    <2>3. f[k + 1] = Spend(f[k], l[k + 1])
      BY <1>2, <2>1
    <2>. QED
      BY <2>1, <2>2, <2>3
  <1>5. SpentUpto(l, budget, n, f[n])
    <2>. HIDE DEF P
    <2>1. \A k \in 0 .. n : k \in P
      BY <1>1, <1>3, <1>4, Upto
    <2>2. n \in P
      BY <1>1, <2>1
    <2>. QED
      BY <2>2 DEF P
  <1>. DEFINE a == f[n].out
              left == f[n].left
  <1>6. LimitToBudget(l, budget) = a
    BY <1>2 DEF LimitToBudget
  <1>7. /\ left \in Int /\ 0 <= left /\ Canonical(a) /\ Initial(a, l)
        /\ Cardinality(Expand(a)) = budget - left
        /\ 0 < left => \A v \in Int : (\E i \in 1 .. n : Within(l[i], v)) => Has(a, v)
    BY <1>5 DEF SpentUpto, Budgets
  <1>. HIDE DEF a, left
  <1>8. CASE 0 < left
    <2>1. \A v \in Int : Has(a, v) <=> Has(l, v)
      BY <1>7, <1>8 DEF Has, Initial
    <2>2. a = l
      BY <1>7, <2>1, OneList
    <2>. QED
      BY <1>6, <1>7, <1>8, <2>2
  <1>9. CASE left = 0
    <2>1. Expand(a) \in SUBSET Expand(l)
      <3>1. a \in Lists
        BY <1>7 DEF Canonical
      <3>. QED
        BY <1>1, <1>7, <3>1, Expanded DEF Initial
    <2>2. IsFiniteSet(Expand(l)) /\ Cardinality(Expand(l)) \in Nat
      BY Counted
    <2>3. Cardinality(Expand(a)) <= Cardinality(Expand(l))
      BY <2>1, <2>2, FS_Subset
    <2>. QED
      BY <1>6, <1>7, <1>9, <2>3
  <1>. QED
    BY <1>7, <1>8, <1>9

\* Two lists with equally many first chunks of the same list are the same.
LEMMA OneInitial ==
  ASSUME NEW l, Canonical(l), NEW a, Canonical(a), NEW b, Canonical(b),
         Initial(a, l), Initial(b, l),
         Cardinality(Expand(a)) = Cardinality(Expand(b))
  PROVE  a = b
  <1>1. /\ a \in Lists /\ b \in Lists
        /\ IsFiniteSet(Expand(a)) /\ IsFiniteSet(Expand(b))
    BY Counted DEF Canonical
  <1>2. /\ Expand(a) \in SUBSET Int /\ Expand(b) \in SUBSET Int
        /\ \A v \in Int : v \in Expand(a) <=> Has(a, v)
        /\ \A v \in Int : v \in Expand(b) <=> Has(b, v)
    BY <1>1, Expanded
  <1>3. ASSUME NEW v \in Int, Has(a, v), ~Has(b, v) PROVE FALSE
    <2>1. \A w \in Int : Has(b, w) => w < v
      BY <1>3 DEF Initial
    <2>2. ASSUME NEW w \in Int, Has(b, w) PROVE Has(a, w)
      <3>1. ~Has(a, w) => v < w
        BY <1>3, <2>2 DEF Initial
      <3>. QED
        BY <2>1, <2>2, <3>1
    <2>3. Expand(b) \in SUBSET Expand(a)
      BY <1>2, <2>2
    <2>4. Expand(a) = Expand(b)
      BY <1>1, <2>3, FS_Subset
    <2>. QED
      BY <1>2, <1>3, <2>4
  <1>4. ASSUME NEW v \in Int, Has(b, v), ~Has(a, v) PROVE FALSE
    <2>1. \A w \in Int : Has(a, w) => w < v
      BY <1>4 DEF Initial
    <2>2. ASSUME NEW w \in Int, Has(a, w) PROVE Has(b, w)
      <3>1. ~Has(b, w) => v < w
        BY <1>4, <2>2 DEF Initial
      <3>. QED
        BY <2>1, <2>2, <3>1
    <2>3. Expand(a) \in SUBSET Expand(b)
      BY <1>2, <2>2
    <2>4. Expand(a) = Expand(b)
      BY <1>1, <2>3, FS_Subset
    <2>. QED
      BY <1>2, <1>4, <2>4
  <1>5. \A v \in Int : Has(a, v) <=> Has(b, v)
    BY <1>3, <1>4
  <1>. QED
    BY <1>5, OneList

\* A list limited twice, the second time at least as much, is the list limited once.
LEMMA LimitedTwice ==
  ASSUME NEW l, Canonical(l), NEW budget \in Nat, NEW own \in Nat, own <= budget
  PROVE  LimitToBudget(LimitToBudget(l, budget), own) = LimitToBudget(l, own)
  <1>. DEFINE a == LimitToBudget(l, budget)
              b == LimitToBudget(a, own)
              c == LimitToBudget(l, own)
  <1>1. /\ Canonical(a) /\ Initial(a, l)
        /\ Cardinality(Expand(a)) =
              IF budget <= Cardinality(Expand(l)) THEN budget ELSE Cardinality(Expand(l))
    BY Limited
  <1>2. /\ Canonical(c) /\ Initial(c, l)
        /\ Cardinality(Expand(c)) =
              IF own <= Cardinality(Expand(l)) THEN own ELSE Cardinality(Expand(l))
    BY Limited
  <1>. HIDE DEF a
  <1>3. /\ Canonical(b) /\ Initial(b, a)
        /\ Cardinality(Expand(b)) =
              IF own <= Cardinality(Expand(a)) THEN own ELSE Cardinality(Expand(a))
    BY <1>1, Limited
  <1>4. Cardinality(Expand(l)) \in Nat
    BY Counted
  <1>. HIDE DEF b, c
  <1>5. Initial(b, l)
    <2>1. ASSUME NEW v \in Int, NEW w \in Int, Has(b, v), Has(l, w), ~Has(b, w) PROVE v < w
      <3>1. CASE Has(a, w)
        BY <1>3, <2>1, <3>1 DEF Initial
      <3>2. CASE ~Has(a, w)
        BY <1>1, <1>3, <2>1, <3>2 DEF Initial
      <3>. QED
        BY <3>1, <3>2
    <2>. QED
      BY <1>1, <1>3, <2>1 DEF Initial
  <1>6. Cardinality(Expand(b)) = Cardinality(Expand(c))
    BY <1>1, <1>2, <1>3, <1>4
  <1>7. b = c
    BY <1>2, <1>3, <1>5, <1>6, OneInitial
  <1>. QED
    BY <1>7 DEF a, b, c

-----------------------------------------------------------------------------
(* The tracker. *)

\* The inductive invariant: the list is canonical and has exactly the chunks that
\* arrived, all of them in the file, and they are counted.
Inv ==
  /\ total \in Totals
  /\ got \subseteq 0 .. total - 1
  /\ Canonical(ranges)
  /\ \A v \in Int : Has(ranges, v) <=> v \in got
  /\ count = Cardinality(got)

\* Numbers of chunks of a file with t chunks.
LEMMA InFiles ==
  ASSUME NEW t \in Nat, NEW S \in SUBSET (0 .. t - 1)
  PROVE  /\ S \in SUBSET Int /\ IsFiniteSet(S) /\ Cardinality(S) \in 0 .. t
         /\ Cardinality(S) = t <=> S = 0 .. t - 1
         /\ Cardinality((0 .. t - 1) \ S) = t - Cardinality(S)
  <1>1. IsFiniteSet(0 .. t - 1) /\ Cardinality(0 .. t - 1) = t
    <2>1. t - 1 \in Int /\ 0 \in Int
      OBVIOUS
    <2>2. /\ IsFiniteSet(0 .. t - 1)
          /\ Cardinality(0 .. t - 1) = IF 0 > t - 1 THEN 0 ELSE t - 1 - 0 + 1
      BY <2>1, FS_Interval
    <2>. QED
      BY <2>2
  <1>2. /\ IsFiniteSet(S) /\ Cardinality(S) <= Cardinality(0 .. t - 1)
        /\ Cardinality(0 .. t - 1) = Cardinality(S) => 0 .. t - 1 = S
    BY <1>1, FS_Subset
  <1>3. Cardinality(S) \in Nat
    BY <1>2, FS_CardinalityType
  <1>4. Cardinality((0 .. t - 1) \ S) = Cardinality(0 .. t - 1) - Cardinality((0 .. t - 1) \cap S)
    BY <1>1, FS_Difference
  <1>5. (0 .. t - 1) \cap S = S
    OBVIOUS
  <1>6. Cardinality(S) \in 0 .. t /\ (Cardinality(S) = t <=> S = 0 .. t - 1)
    BY <1>1, <1>2, <1>3
  <1>7. Cardinality((0 .. t - 1) \ S) = t - Cardinality(S)
    BY <1>1, <1>4, <1>5
  <1>8. S \in SUBSET Int
    OBVIOUS
  <1>. QED
    BY <1>2, <1>6, <1>7, <1>8

\* The invariant and what is known of the numbers in it.
LEMMA InvFacts ==
  ASSUME Inv
  PROVE  /\ total \in Nat /\ got \in SUBSET Int /\ IsFiniteSet(got)
         /\ count \in 0 .. total
         /\ Cardinality((0 .. total - 1) \ got) = total - count
         /\ count = total <=> got = 0 .. total - 1
  <1>1. total \in Nat /\ got \in SUBSET (0 .. total - 1) /\ count = Cardinality(got)
    BY TrackerAssumption DEF Inv
  <1>. QED
    BY <1>1, InFiles

\* A tracker begins with nothing.
LEMMA InvInit ==
  Init => Inv
  <1>1. ASSUME Init PROVE Inv
    <2>1. Cardinality({}) = 0
      BY FS_EmptySet
    <2>2. \A v \in Int : Has(<<>>, v) <=> v \in {}
      BY NoRanges
    <2>. QED
      BY <1>1, <2>1, <2>2, NoRanges DEF Init, Inv
  <1>. QED
    BY <1>1

\* Every add, restart and load keeps the invariant.
LEMMA InvNext ==
  Inv /\ [Next]_vars => Inv'
  <1>. SUFFICES ASSUME Inv, [Next]_vars PROVE Inv'
    OBVIOUS
  <1>1. /\ total \in Nat /\ got \in SUBSET Int /\ IsFiniteSet(got) /\ Canonical(ranges)
        /\ count = Cardinality(got)
        /\ \A v \in Int : Has(ranges, v) <=> v \in got
    BY InvFacts DEF Inv
  <1>2. ASSUME NEW c \in -1 .. total, Add(c) PROVE Inv'
    <2>1. c \in Int /\ 0 <= c /\ c < total
      BY <1>1, <1>2 DEF Add, InFile
    <2>2. ~Has(ranges, c)
      <3>1. ~Known(ranges, c)
        BY <1>2 DEF Add, Covered, Known
      <3>. QED
        BY <1>1, <2>1, <3>1, KnownExact
    <2>3. /\ Canonical(Inserted(ranges, c))
          /\ \A v \in Int : Has(Inserted(ranges, c), v) <=> Has(ranges, v) \/ v = c
      BY <1>1, <2>1, <2>2, InsertedExact
    <2>4. c \notin got
      BY <1>1, <2>1, <2>2
    <2>5. Cardinality(got \cup {c}) = count + 1
      <3>1. Cardinality(got \cup {c}) = IF c \in got THEN Cardinality(got) ELSE Cardinality(got) + 1
        BY <1>1, FS_AddElement
      <3>. QED
        BY <1>1, <2>4, <3>1
    <2>6. c \in 0 .. total - 1
      BY <1>1, <2>1
    <2>7. total' = total /\ ranges' = Inserted(ranges, c) /\ count' = count + 1 /\ got' = got \cup {c}
      BY <1>2 DEF Add
    <2>8. total' \in Totals /\ got' \subseteq 0 .. total' - 1
      BY <2>6, <2>7 DEF Inv
    <2>9. \A v \in Int : Has(ranges', v) <=> v \in got'
      BY <1>1, <2>3, <2>7
    <2>. QED
      BY <2>3, <2>5, <2>7, <2>8, <2>9 DEF Inv
  <1>3. ASSUME NEW saved \in Lists, Rebuild(saved) PROVE Inv'
    <2>1. /\ total' = total /\ ranges' = Normalized(total, saved) /\ count' = CountOf(ranges')
          /\ got' = Expand(saved) \cap (0 .. total - 1)
      BY <1>3 DEF Rebuild
    <2>2. /\ Canonical(Normalized(total, saved))
          /\ \A v \in Int : Has(Normalized(total, saved), v) <=> 0 <= v /\ v < total /\ Has(saved, v)
      BY <1>1, NormalizedList
    <2>3. Expand(saved) \in SUBSET Int /\ \A v \in Int : v \in Expand(saved) <=> Has(saved, v)
      BY Expanded
    <2>4. \A v \in Int : v \in 0 .. total - 1 <=> 0 <= v /\ v < total
      BY <1>1
    <2>5. \A v \in Int : Has(ranges', v) <=> v \in got'
      BY <2>1, <2>2, <2>3, <2>4
    <2>6. Canonical(ranges')
      BY <2>1, <2>2
    <2>7. CountOf(ranges') = Cardinality(Expand(ranges'))
      BY <2>6, Counted
    <2>8. Expand(ranges') = got'
      <3>1. ranges' \in Lists
        BY <2>6 DEF Canonical
      <3>2. Expand(ranges') \in SUBSET Int /\ \A v \in Int : v \in Expand(ranges') <=> Has(ranges', v)
        BY <3>1, Expanded
      <3>3. got' \in SUBSET Int
        BY <2>1, <2>3
      <3>. QED
        BY <2>5, <3>2, <3>3
    <2>9. total' \in Totals /\ got' \subseteq 0 .. total' - 1
      BY <2>1 DEF Inv
    <2>10. count' = Cardinality(got')
      BY <2>1, <2>7, <2>8
    <2>. QED
      BY <2>5, <2>6, <2>9, <2>10 DEF Inv
  <1>4. CASE Restart
    <2>1. ranges \in Lists
      BY <1>1 DEF Canonical
    <2>. QED
      BY <1>3, <1>4, <2>1 DEF Restart
  <1>5. CASE Load
    <2>1. PICK saved \in Journals : Rebuild(saved)
      BY <1>5 DEF Load
    <2>2. saved \in Lists
      BY TrackerAssumption DEF Lists, Pair
    <2>. QED
      BY <1>3, <2>1, <2>2
  <1>6. CASE UNCHANGED vars
    BY <1>6 DEF Inv, vars
  <1>. QED
    BY <1>2, <1>4, <1>5, <1>6 DEF Next

\* The invariant holds always.
LEMMA Invariance ==
  Spec => []Inv
  BY InvInit, InvNext, PTL DEF Spec

\* Every list of received ranges lies in the file, and the count is one of its chunks
\* (ranges.py, ChunkTracker).
THEOREM TypeCorrect ==
  Spec => []TypeOK
  <1>1. Inv => TypeOK
    <2>. SUFFICES ASSUME Inv PROVE TypeOK
      OBVIOUS
    <2>1. /\ total \in Nat /\ got \in SUBSET (0 .. total - 1) /\ Canonical(ranges)
          /\ count \in 0 .. total /\ ranges \in Lists
          /\ \A v \in Int : Has(ranges, v) <=> v \in got
      BY InvFacts DEF Inv, Canonical
    <2>2. ASSUME NEW i \in 1 .. Len(ranges)
          PROVE  ranges[i] \in (0 .. total) \X (0 .. total)
      <3>. DEFINE r == ranges[i]
      <3>1. r \in Pair /\ r[1] \in Int /\ r[2] \in Int /\ r[1] < r[2]
        BY <2>1, Ends DEF Canonical, Proper
      <3>2. Within(r, r[1]) /\ Within(r, r[2] - 1)
        BY <3>1 DEF Within
      <3>3. r[1] \in got /\ r[2] - 1 \in got
        <4>1. r[2] - 1 \in Int
          BY <3>1
        <4>2. Has(ranges, r[1]) /\ Has(ranges, r[2] - 1)
          BY <3>2 DEF Has
        <4>. QED
          BY <2>1, <3>1, <4>1, <4>2
      <3>. HIDE DEF r
      <3>4. r[1] \in 0 .. total /\ r[2] \in 0 .. total
        BY <2>1, <3>1, <3>3
      <3>5. r = <<r[1], r[2]>>
        BY <3>1 DEF Pair
      <3>6. r \in (0 .. total) \X (0 .. total)
        BY <3>4, <3>5
      <3>. QED
        BY <3>6 DEF r
    <2>3. ranges \in Seq((0 .. total) \X (0 .. total))
      <3>1. Len(ranges) \in Nat /\ ranges = [i \in 1 .. Len(ranges) |-> ranges[i]]
        BY <2>1 DEF Lists
      <3>. QED
        BY <2>2, <3>1, IsASeq
    <2>. QED
      BY <2>1, <2>3 DEF TypeOK, Inv
  <1>. QED
    BY <1>1, Invariance, PTL

\* In whatever order chunks come, whatever journal the tracker starts from: its list is
\* the one canonical list of what arrived, each chunk is counted once, and add refuses a
\* chunk exactly when it is known (ranges.py, ChunkTracker.add, from_received_ranges).
THEOREM RangesAreExact ==
  Spec => []RangesExact
  <1>1. Inv => RangesExact
    <2>. SUFFICES ASSUME Inv PROVE RangesExact
      OBVIOUS
    <2>1. /\ total \in Nat /\ got \in SUBSET Int /\ IsFiniteSet(got) /\ Canonical(ranges)
          /\ count = Cardinality(got)
          /\ \A v \in Int : Has(ranges, v) <=> v \in got
      BY InvFacts DEF Inv
    <2>2. ranges = RangesFromIndexes(got)
      BY <2>1, IsFromIndexes
    <2>3. ASSUME NEW c \in 0 .. total - 1 PROVE Covered(c) <=> c \in got
      <3>1. Covered(c) <=> Known(ranges, c)
        BY DEF Covered, Known
      <3>2. c \in Int
        OBVIOUS
      <3>3. Known(ranges, c) <=> Has(ranges, c)
        BY <2>1, <3>2, KnownExact
      <3>. QED
        BY <2>1, <3>1, <3>2, <3>3
    <2>. QED
      BY <2>1, <2>2, <2>3 DEF RangesExact
  <1>. QED
    BY <1>1, Invariance, PTL

\* The list of missing ranges and what it has.
LEMMA MissingFacts ==
  ASSUME Inv
  PROVE  /\ Canonical(Missing) /\ Expand(Missing) = (0 .. total - 1) \ got
         /\ \A v \in Int : Has(Missing, v) <=> v \in Expand(Missing)
  <1>1. /\ total \in Nat /\ Canonical(ranges)
        /\ \A v \in Int : Has(ranges, v) <=> v \in got
    BY InvFacts DEF Inv
  <1>2. /\ Canonical(Missing)
        /\ \A v \in Int : Has(Missing, v) <=> 0 <= v /\ v < total /\ ~Has(ranges, v)
    BY <1>1, MissingList DEF Missing
  <1>3. /\ Expand(Missing) \in SUBSET Int
        /\ \A v \in Int : v \in Expand(Missing) <=> Has(Missing, v)
    BY <1>2, Expanded DEF Canonical
  <1>4. \A v \in Int : v \in Expand(Missing) <=> v \in 0 .. total - 1 /\ v \notin got
    BY <1>1, <1>2, <1>3
  <1>5. (0 .. total - 1) \ got \in SUBSET Int
    BY <1>1
  <1>6. Expand(Missing) = (0 .. total - 1) \ got
    BY <1>3, <1>4, <1>5
  <1>. QED
    BY <1>2, <1>3, <1>6

\* What is reported missing up to any position is exactly what did not arrive, and the
\* transfer is complete exactly when nothing is (ranges.py, _missing_ranges_between,
\* is_complete).
THEOREM MissingIsExact ==
  Spec => []MissingExact
  <1>1. Inv => MissingExact
    <2>. SUFFICES ASSUME Inv PROVE MissingExact
      OBVIOUS
    <2>1. /\ total \in Nat /\ got \in SUBSET (0 .. total - 1) /\ Canonical(ranges)
          /\ count = total <=> got = 0 .. total - 1
          /\ \A v \in Int : Has(ranges, v) <=> v \in got
      BY InvFacts DEF Inv
    <2>2. ASSUME NEW end \in -1 .. total + 1
          PROVE  MissingUpto(end) = RangesFromIndexes({c \in 0 .. total - 1 : c < end} \ got)
      <3>. DEFINE S == {c \in 0 .. total - 1 : c < end} \ got
                  z == Max({0, Min({end, total})})
                  m == MissingBetween(ranges, 0, z)
      <3>1. end \in Int /\ z = IF end <= 0 THEN 0 ELSE IF end <= total THEN end ELSE total
        <4>1. end \in Int /\ Min({end, total}) = IF end <= total THEN end ELSE total
          BY <2>1, MinOfTwo
        <4>. DEFINE w == Min({end, total})
        <4>2. w \in Int /\ w = IF end <= total THEN end ELSE total
          BY <2>1, <4>1
        <4>. HIDE DEF w
        <4>3. Max({0, w}) = IF 0 >= w THEN 0 ELSE w
          BY <4>2, MaxOfTwo
        <4>4. Max({0, w}) = IF end <= 0 THEN 0 ELSE IF end <= total THEN end ELSE total
          BY <2>1, <4>1, <4>2, <4>3
        <4>. QED
          BY <4>1, <4>4 DEF w
      <3>. HIDE DEF z
      <3>2. z \in Int /\ \A v \in Int : 0 <= v /\ v < z <=> v \in 0 .. total - 1 /\ v < end
        BY <2>1, <3>1
      <3>3. /\ Canonical(m)
            /\ \A v \in Int : Has(m, v) <=> 0 <= v /\ v < z /\ ~Has(ranges, v)
        BY <2>1, <3>2, MissingList
      <3>. HIDE DEF m
      <3>4. \A v \in Int : Has(m, v) <=> v \in S
        BY <2>1, <3>2, <3>3
      <3>5. S \in SUBSET Int /\ IsFiniteSet(S)
        <4>1. S \in SUBSET (0 .. total - 1)
          OBVIOUS
        <4>. HIDE DEF S
        <4>. QED
          BY <2>1, <4>1, InFiles
      <3>. HIDE DEF S
      <3>6. m = RangesFromIndexes(S)
        BY <3>3, <3>4, <3>5, IsFromIndexes
      <3>. QED
        BY <3>6 DEF MissingUpto, m, z, S
    <2>3. IsComplete <=> Missing = <<>>
      <3>1. /\ Canonical(Missing) /\ Expand(Missing) = (0 .. total - 1) \ got
            /\ \A v \in Int : Has(Missing, v) <=> v \in Expand(Missing)
        BY MissingFacts
      <3>2. ASSUME got = 0 .. total - 1 PROVE Missing = <<>>
        <4>1. Expand(Missing) = {}
          BY <3>1, <3>2
        <4>2. \A v \in Int : Has(Missing, v) <=> Has(<<>>, v)
          BY <3>1, <4>1, NoRanges
        <4>. QED
          BY <3>1, <4>2, NoRanges, OneList
      <3>3. ASSUME Missing = <<>> PROVE got = 0 .. total - 1
        <4>1. \A v \in Int : v \notin Expand(Missing)
          BY <3>1, <3>3, NoRanges
        <4>2. \A v \in 0 .. total - 1 : v \in Int
          BY <2>1
        <4>. QED
          BY <2>1, <3>1, <4>1, <4>2
      <3>. QED
        BY <2>1, <3>2, <3>3 DEF IsComplete
    <2>. QED
      BY <2>2, <2>3 DEF MissingExact
  <1>. QED
    BY <1>1, Invariance, PTL

\* A repair request limited to a budget asks for the first missing chunks, as many as the
\* budget allows; it fits a frame when the budget does, the sender decodes the same list,
\* and when the sender limits it further it sends the first missing chunks too
\* (ranges.py, limit_ranges_to_chunk_budget; frames.py, StatusFrame).
THEOREM RequestsNameFirstMissing ==
  Spec => []RequestsFirstMissing
  <1>1. Inv => RequestsFirstMissing
    <2>. SUFFICES ASSUME Inv, NEW budget \in 1 .. total + 1
                  PROVE  LET asked == LimitToBudget(Missing, budget)
                             n == Min({budget, total - count})
                         IN  /\ Expand(asked) \subseteq Expand(Missing)
                             /\ Cardinality(Expand(asked)) = n /\ CountOf(asked) = n
                             /\ \A c \in Expand(asked), d \in Expand(Missing) \ Expand(asked) : c < d
                             /\ budget <= MaxRanges => Encodable(asked)
                             /\ OverTheWire(asked) = asked
                             /\ \A own \in 1 .. budget :
                                  LimitToBudget(asked, own) = LimitToBudget(Missing, own)
      BY DEF RequestsFirstMissing
    <2>. DEFINE asked == LimitToBudget(Missing, budget)
                n == Min({budget, total - count})
                gap == Missing
    <2>1. /\ total \in Nat /\ count \in 0 .. total /\ budget \in Nat /\ budget \in Int
          /\ Cardinality((0 .. total - 1) \ got) = total - count
      BY InvFacts
    <2>2. /\ Canonical(gap) /\ gap \in Lists
          /\ Expand(gap) \in SUBSET Int
          /\ \A v \in Int : Has(gap, v) <=> v \in Expand(gap)
          /\ Cardinality(Expand(gap)) = total - count
      BY <2>1, MissingFacts, Expanded DEF Canonical
    <2>. HIDE DEF gap
    <2>3. /\ Canonical(asked) /\ Initial(asked, gap)
          /\ Cardinality(Expand(asked)) =
                IF budget <= Cardinality(Expand(gap)) THEN budget ELSE Cardinality(Expand(gap))
      <3>1. asked = LimitToBudget(gap, budget)
        BY DEF gap
      <3>. QED
        BY <2>1, <2>2, <3>1, Limited
    <2>4. n = IF budget <= total - count THEN budget ELSE total - count
      <3>1. total - count \in Int
        BY <2>1
      <3>. QED
        BY <2>1, <3>1, MinOfTwo
    <2>5. \A own \in 1 .. budget : LimitToBudget(asked, own) = LimitToBudget(Missing, own)
      <3>. SUFFICES ASSUME NEW own \in 1 .. budget
                    PROVE  LimitToBudget(asked, own) = LimitToBudget(Missing, own)
        OBVIOUS
      <3>1. own \in Nat /\ own <= budget
        BY <2>1
      <3>2. LimitToBudget(LimitToBudget(gap, budget), own) = LimitToBudget(gap, own)
        BY <2>1, <2>2, <3>1, LimitedTwice
      <3>. QED
        BY <3>2 DEF gap
    <2>. HIDE DEF asked, n
    <2>6. Cardinality(Expand(asked)) = n /\ n <= budget /\ n \in Int
      BY <2>1, <2>2, <2>3, <2>4
    <2>7. /\ asked \in Lists /\ Expand(asked) \in SUBSET Int
          /\ \A v \in Int : v \in Expand(asked) <=> Has(asked, v)
      BY <2>3, Expanded DEF Canonical
    <2>8. Expand(asked) \subseteq Expand(gap)
      BY <2>2, <2>3, <2>7 DEF Initial
    <2>9. CountOf(asked) = n /\ Len(asked) <= n
      BY <2>3, <2>6, Counted
    <2>10. \A c \in Expand(asked), d \in Expand(gap) \ Expand(asked) : c < d
      BY <2>2, <2>3, <2>7 DEF Initial
    <2>11. budget <= MaxRanges => Encodable(asked)
      <3>1. Len(asked) \in Nat /\ MaxRanges \in Nat
        BY <2>7, Ends, TrackerAssumption
      <3>. QED
        BY <2>1, <2>6, <2>9, <3>1 DEF Encodable
    <2>12. OverTheWire(asked) = asked
      BY <2>3, MergedAlready
    <2>13. /\ Expand(asked) \subseteq Expand(Missing)
           /\ \A c \in Expand(asked), d \in Expand(Missing) \ Expand(asked) : c < d
      BY <2>8, <2>10 DEF gap
    <2>. HIDE DEF gap
    <2>14. /\ Expand(asked) \subseteq Expand(Missing)
           /\ Cardinality(Expand(asked)) = n /\ CountOf(asked) = n
           /\ \A c \in Expand(asked), d \in Expand(Missing) \ Expand(asked) : c < d
           /\ budget <= MaxRanges => Encodable(asked)
           /\ OverTheWire(asked) = asked
           /\ \A own \in 1 .. budget :
                LimitToBudget(asked, own) = LimitToBudget(Missing, own)
      BY <2>5, <2>6, <2>9, <2>11, <2>12, <2>13
    <2>. QED
      BY <2>14 DEF asked, n
  <1>. QED
    BY <1>1, Invariance, PTL
=============================================================================
