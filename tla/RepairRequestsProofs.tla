------------------------ MODULE RepairRequestsProofs ------------------------
(***************************************************************************)
(* Theorems about RepairRequests, for every file, budget, threshold,       *)
(* timeout and queue.                                                      *)
(***************************************************************************)
EXTENDS RepairRequests, FiniteSetTheorems, WellFoundedInduction, TLAPS

-----------------------------------------------------------------------------
(* The inductive invariant. *)

\* What is not done lacks a chunk, so a check that releases a request is followed by the
\* next one at once.
Unfinished == ~tr.done => Missing # {}

\* What the transfer remembers of its latest request, and what was really asked for.
LastRequest == [age : 0 .. Period, asked : Nat, base : Nat]
Clocks == last.age = IF tr.ask.request < Period THEN tr.ask.request ELSE Period

\* Of the frames only a request says what is missing.
Sent == {Beacon} \cup {Request(S) : S \in SUBSET Chunks}

Transfers ==
  [got : SUBSET Chunks, highest : -1 .. Total - 1, done : BOOLEAN, data : 0 .. Quiet,
   ask : [flight : BOOLEAN, base : Nat, asked : Nat, request : 0 .. Never]]

Inv ==
  /\ TypeOK /\ sendq \in Seq(Sent)
  /\ last \in LastRequest
  /\ Unfinished /\ FlightSound /\ Clocks

-----------------------------------------------------------------------------
(* Sets of chunks. *)

LEMMA Parameters ==
  /\ Total \in Nat /\ Total > 0 /\ HoleBudget \in Nat /\ HoleBudget > 0
  /\ Period \in Nat /\ Period > 0 /\ Timeout \in Nat /\ Timeout > 0
  /\ QueueMax \in Nat /\ QueueMax > 0
  /\ Budget \in Nat /\ MinSeen \in Nat /\ Quiet \in Nat
  BY RequestsAssumption

LEMMA Least ==
  ASSUME NEW S \in SUBSET Nat, S # {}
  PROVE  \E m \in S : \A n \in S : m <= n
  <1>. DEFINE R == OpToRel(<, Nat)
  <1>1. \A i \in Nat, j \in Nat : i < j => <<i, j>> \in R
    BY DEF OpToRel
  <1>2. PICK m \in S : \A n \in S : ~(<<n, m>> \in R)
    BY WFMin, NatLessThanWellFounded
  <1>. HIDE DEF R
  <1>3. \A n \in S : ~(n < m)
    <2>1. TAKE n \in S
    <2>2. n \in Nat /\ m \in Nat
      OBVIOUS
    <2>3. n < m => <<n, m>> \in R
      BY <1>1, <2>2, Zenon
    <2>. QED
      BY <1>2, <2>3, Zenon
  <1>4. \A n \in S : m <= n
    BY <1>3
  <1>. QED
    BY <1>4

LEMMA MinIsLeast ==
  ASSUME NEW S \in SUBSET Nat, S # {}
  PROVE  Min(S) \in S /\ \A n \in S : Min(S) <= n
  BY Least DEF Min

LEMMA MaxOfTwo ==
  ASSUME NEW a \in Int, NEW b \in Int
  PROVE  /\ Max({a, b}) \in {a, b}
         /\ a <= Max({a, b}) /\ b <= Max({a, b})
  <1>1. \E x \in {a, b} : \A y \in {a, b} : x >= y
    OBVIOUS
  <1>. QED
    BY <1>1 DEF Max

\* A set of numbers below a bound has a greatest one.
LEMMA Greatest ==
  ASSUME NEW n \in Nat, NEW S \in SUBSET (0 .. n - 1), S # {}
  PROVE  \E m \in S : \A k \in S : k <= m
  <1>. DEFINE D == {d \in Nat : n - d \in S}
  <1>1. D \in SUBSET Nat /\ D # {}
    <2>1. PICK s \in S : TRUE
      OBVIOUS
    <2>2. n - s \in Nat /\ n - (n - s) = s
      OBVIOUS
    <2>. QED
      BY <2>1, <2>2
  <1>2. PICK d \in D : \A e \in D : d <= e
    BY <1>1, Least
  <1>3. \A k \in S : k <= n - d
    <2>1. TAKE k \in S
    <2>2. n - k \in Nat /\ n - (n - k) = k
      OBVIOUS
    <2>3. d <= n - k
      BY <1>2, <2>2
    <2>. QED
      BY <2>3
  <1>. QED
    BY <1>2, <1>3

LEMMA ChunksFinite ==
  /\ Chunks \in SUBSET Nat
  /\ \A S \in SUBSET Chunks : IsFiniteSet(S) /\ Cardinality(S) \in Nat
  <1>1. Chunks \in SUBSET Nat /\ IsFiniteSet(Chunks)
    <2>1. IsFiniteSet(0 .. Total - 1)
      BY Parameters, FS_Interval
    <2>. QED
      BY <2>1, Parameters DEF Chunks
  <1>. QED
    BY <1>1, FS_Subset, FS_CardinalityType

\* A nonempty part has a chunk, a larger part has no fewer.
LEMMA Counts ==
  ASSUME NEW S \in SUBSET Chunks, NEW T \in SUBSET S
  PROVE  /\ Cardinality(T) <= Cardinality(S)
         /\ T # {} => Cardinality(T) > 0
  <1>1. IsFiniteSet(S) /\ IsFiniteSet(T) /\ Cardinality(T) \in Nat
    BY ChunksFinite
  <1>2. T # {} => Cardinality(T) # 0
    BY <1>1, FS_EmptySet
  <1>. QED
    BY <1>1, <1>2, FS_Subset

\* What is missing and what came make up the file.
LEMMA MissingCount ==
  ASSUME tr.got \in SUBSET Chunks, NEW S \in SUBSET Missing
  PROVE  Cardinality(tr.got) + Cardinality(S) <= Total
  <1>1. IsFiniteSet(Chunks) /\ Cardinality(Chunks) = Total
    <2>1. /\ IsFiniteSet(0 .. Total - 1)
          /\ Cardinality(0 .. Total - 1) = IF 0 > Total - 1 THEN 0 ELSE (Total - 1) - 0 + 1
      BY Parameters, FS_Interval
    <2>2. Total \in Nat /\ Total > 0 /\ Chunks = 0 .. Total - 1
      BY Parameters DEF Chunks
    <2>. QED
      BY <2>1, <2>2
  <1>2. Cardinality(Missing) = Cardinality(Chunks) - Cardinality(Chunks \cap tr.got)
        /\ Missing \in SUBSET Chunks
    BY <1>1, FS_Difference DEF Missing
  <1>3. Chunks \cap tr.got = tr.got
    OBVIOUS
  <1>4. /\ Cardinality(S) <= Cardinality(Missing) /\ Cardinality(S) \in Nat
        /\ Cardinality(Missing) \in Nat /\ Cardinality(tr.got) \in Nat
    BY <1>2, Counts, ChunksFinite
  <1>5. Cardinality(Missing) = Total - Cardinality(tr.got)
    BY <1>1, <1>2, <1>3, Zenon
  <1>6. Total \in Nat
    BY Parameters
  <1>. QED
    BY <1>4, <1>5, <1>6

-----------------------------------------------------------------------------
(* What is asked for. *)

\* limit_ranges_to_chunk_budget: no more than the budget, and the first chunk is in it.
LEMMA FirstOfBounded ==
  ASSUME NEW S \in SUBSET Chunks, NEW n \in Nat
  PROVE  /\ FirstOf(S, n) \in SUBSET S
         /\ Cardinality(FirstOf(S, n)) <= n
         /\ S # {} /\ n > 0 => Min(S) \in FirstOf(S, n)
  <1>1. FirstOf(S, n) \in SUBSET S
    BY DEF FirstOf
  <1>2. Cardinality(FirstOf(S, n)) <= n
    <2>1. CASE FirstOf(S, n) = {}
      BY <2>1, FS_EmptySet
    <2>2. CASE FirstOf(S, n) # {}
      <3>1. PICK m \in FirstOf(S, n) : \A k \in FirstOf(S, n) : k <= m
        BY <1>1, <2>2, RequestsAssumption, Greatest DEF Chunks
      <3>. DEFINE Below == {d \in S : d < m}
      <3>2. FirstOf(S, n) \ {m} \in SUBSET Below
        <4>1. FirstOf(S, n) \in SUBSET Nat /\ FirstOf(S, n) \in SUBSET S
          BY <1>1, ChunksFinite, Zenon
        <4>2. \A k \in FirstOf(S, n) \ {m} : k < m
          BY <4>1, <3>1
        <4>. QED
          BY <4>1, <4>2
      <3>3. Cardinality(Below) < n /\ Cardinality(Below) \in Nat
        BY <1>1, <3>1, ChunksFinite DEF FirstOf
      <3>4. Cardinality(FirstOf(S, n) \ {m}) <= Cardinality(Below)
        BY <3>2, Counts
      <3>5. Cardinality(FirstOf(S, n) \ {m}) = Cardinality(FirstOf(S, n)) - 1
        BY <1>1, <3>1, ChunksFinite, FS_RemoveElement
      <3>6. Cardinality(FirstOf(S, n)) \in Nat
        BY <1>1, ChunksFinite
      <3>. QED
        BY <3>3, <3>4, <3>5, <3>6
    <2>. QED
      BY <2>1, <2>2
  <1>3. ASSUME S # {}, n > 0 PROVE Min(S) \in FirstOf(S, n)
    <2>1. Min(S) \in S /\ \A k \in S : Min(S) <= k
      BY <1>3, ChunksFinite, MinIsLeast
    <2>2. {d \in S : d < Min(S)} = {}
      <3>1. S \in SUBSET Nat
        BY ChunksFinite
      <3>2. ASSUME NEW k \in S PROVE ~(k < Min(S))
        <4>1. k \in Nat /\ Min(S) \in Nat /\ Min(S) <= k
          BY <2>1, <3>1
        <4>. QED
          BY <4>1
      <3>. QED
        BY <3>2
    <2>. QED
      BY <1>3, <2>1, <2>2, FS_EmptySet DEF FirstOf
  <1>. QED
    BY <1>1, <1>2, <1>3

\* The first of the missing ranges begins with the first missing chunk.
LEMMA FirstRangeBegins ==
  ASSUME NEW S \in SUBSET Chunks, S # {}
  PROVE  /\ FirstRange(S) \in SUBSET S /\ FirstRange(S) # {}
         /\ Min(FirstRange(S)) = Min(S)
  <1>1. Min(S) \in S /\ Min(S) \in Nat /\ \A n \in S : Min(S) <= n
    BY ChunksFinite, MinIsLeast
  <1>2. FirstRange(S) \in SUBSET S
    BY DEF FirstRange
  <1>3. Min(S) \in FirstRange(S)
    BY <1>1 DEF FirstRange
  <1>4. Min(FirstRange(S)) \in FirstRange(S)
        /\ \A n \in FirstRange(S) : Min(FirstRange(S)) <= n
    BY <1>2, <1>3, ChunksFinite, MinIsLeast
  <1>5. Min(FirstRange(S)) \in Nat
    BY <1>2, <1>4, ChunksFinite
  <1>6. Min(FirstRange(S)) <= Min(S) /\ Min(S) <= Min(FirstRange(S))
    BY <1>1, <1>2, <1>3, <1>4
  <1>. QED
    BY <1>1, <1>2, <1>3, <1>5, <1>6

\* _limit_missing_ranges_for_transfer and _limit_missing_ranges.
LEMMA LimitedUseful ==
  ASSUME NEW S \in SUBSET Chunks, S # {},
         NEW L \in {Limited(S), LimitedPlain(S)}
  PROVE  /\ L \in SUBSET S /\ Min(S) \in L
         /\ Budget > 0 => Cardinality(L) <= Max({Budget, HoleBudget})
  <1>1. /\ Budget \in Nat /\ HoleBudget \in Nat
        /\ Max({Budget, HoleBudget}) \in Nat /\ Budget <= Max({Budget, HoleBudget})
    <2>1. Budget \in Nat /\ HoleBudget \in Nat
      BY Parameters
    <2>. QED
      BY <2>1, MaxOfTwo
  <1>2. Min(S) \in S
    BY ChunksFinite, MinIsLeast
  <1>3. CASE L = S /\ Budget = 0
    BY <1>2, <1>3
  <1>4. CASE L = FirstOf(S, Budget) /\ Budget # 0
    <2>1. Cardinality(L) <= Budget /\ Cardinality(L) \in Nat
      BY <1>1, <1>4, FirstOfBounded, ChunksFinite DEF FirstOf
    <2>. QED
      BY <1>1, <1>4, <2>1, FirstOfBounded
  <1>5. CASE L = FirstOf(FirstRange(S), Max({Budget, HoleBudget})) /\ Budget # 0
    <2>1. FirstRange(S) \in SUBSET Chunks
      BY FirstRangeBegins
    <2>. QED
      BY <1>1, <1>5, <2>1, FirstOfBounded, FirstRangeBegins
  <1>. QED
    BY <1>3, <1>4, <1>5 DEF Limited, LimitedPlain

-----------------------------------------------------------------------------
(* The transfer after a check and after a request. *)

LEMMA Ages ==
  /\ Never \in Nat /\ Period <= Never /\ Timeout <= Never
  /\ \A n \in Nat : \A a \in 0 .. n : Older(a, n) \in 0 .. n
  <1>1. Period \in Nat /\ Timeout \in Nat
    BY Parameters
  <1>2. Never \in Nat /\ Period <= Never /\ Timeout <= Never
    BY <1>1, MaxOfTwo DEF Never
  <1>. QED
    BY <1>2 DEF Older

LEMMA RequestTyped ==
  ASSUME NEW S \in SUBSET Chunks
  PROVE  Request(S) \in Sent /\ Beacon \in Sent /\ Request(S) \in Frames /\ Beacon \in Frames
  BY DEF Request, Beacon, Sent, Frames

LEMMA TransferTyped ==
  ASSUME Inv
  PROVE  /\ tr \in Transfers
         /\ Missing \in SUBSET Chunks
         /\ Cardinality(tr.got) \in Nat
  <1>1. tr \in Transfers
    BY DEF Inv, TypeOK, Transfers
  <1>. QED
    BY <1>1, ChunksFinite DEF Transfers, Missing

LEMMA CheckTyped ==
  ASSUME NEW t \in Transfers
  PROVE  /\ AfterCheck(t) \in Transfers
         /\ AfterCheck(t).got = t.got /\ AfterCheck(t).done = t.done
         /\ AfterCheck(t).ask.base = t.ask.base /\ AfterCheck(t).ask.asked = t.ask.asked
         /\ AfterCheck(t).ask.flight => t.ask.flight
         /\ AfterCheck(t).ask.request # t.ask.request =>
              t.ask.flight /\ (Fulfilled(t) \/ Released(t)) /\ AfterCheck(t).ask.request = Never
  <1>. DEFINE u == AfterCheck(t)
  <1>1. CASE ~(t.ask.flight /\ CanSend(t))
    BY <1>1 DEF AfterCheck
  <1>2. CASE t.ask.flight /\ CanSend(t)
    <2>1. PICK r \in {Never, t.ask.request} :
            /\ u = [t EXCEPT !.ask = [t.ask EXCEPT !.flight = FALSE, !.request = r]]
            /\ r # t.ask.request => (Fulfilled(t) \/ Released(t)) /\ r = Never
      BY <1>2 DEF AfterCheck, Transfers
    <2>2. r \in 0 .. Never
      BY Ages DEF Transfers
    <2>. DEFINE a == t.ask
                b == [a EXCEPT !.flight = FALSE, !.request = r]
    <2>3. a \in [flight : BOOLEAN, base : Nat, asked : Nat, request : 0 .. Never]
      BY DEF Transfers
    <2>. HIDE DEF a
    <2>4. /\ b \in [flight : BOOLEAN, base : Nat, asked : Nat, request : 0 .. Never]
          /\ b.flight = FALSE /\ b.base = a.base /\ b.asked = a.asked /\ b.request = r
      BY <2>2, <2>3
    <2>5. u = [t EXCEPT !.ask = b]
      BY <2>1 DEF a
    <2>. HIDE DEF b, u
    <2>6. u \in Transfers /\ u.got = t.got /\ u.done = t.done /\ u.ask = b
      BY <2>4, <2>5 DEF Transfers
    <2>. QED
      BY <1>2, <2>1, <2>4, <2>6 DEF a, u
  <1>. QED
    BY <1>1, <1>2

LEMMA AskedTyped ==
  ASSUME NEW t \in Transfers, NEW S \in SUBSET Chunks
  PROVE  /\ Asked(t, S) \in Transfers
         /\ Asked(t, S).got = t.got /\ Asked(t, S).done = t.done
         /\ Asked(t, S).ask = [flight |-> TRUE, base |-> Cardinality(t.got),
                               asked |-> Cardinality(S), request |-> 0]
  <1>1. Cardinality(S) \in Nat /\ Cardinality(t.got) \in Nat
    BY ChunksFinite DEF Transfers
  <1>2. 0 \in 0 .. Never
    BY Ages
  <1>. DEFINE a == [flight |-> TRUE, base |-> Cardinality(t.got),
                    asked |-> Cardinality(S), request |-> 0]
  <1>3. a \in [flight : BOOLEAN, base : Nat, asked : Nat, request : 0 .. Never]
    BY <1>1, <1>2
  <1>4. Asked(t, S) = [t EXCEPT !.ask = a]
    BY DEF Asked
  <1>. HIDE DEF a
  <1>5. Asked(t, S) \in Transfers /\ Asked(t, S).ask = a
        /\ Asked(t, S).got = t.got /\ Asked(t, S).done = t.done
    BY <1>3, <1>4 DEF Transfers
  <1>. QED
    BY <1>5 DEF a

LEMMA PutTyped ==
  ASSUME NEW q \in Seq(Sent), Len(q) <= QueueMax, NEW u \in Sent
  PROVE  /\ Put(q, u) \in Seq(Sent) /\ Len(Put(q, u)) <= QueueMax
         /\ Put(q, u) = q \/ (Len(Put(q, u)) = Len(q) + 1 /\ Put(q, u)[Len(q) + 1] = u)
  <1>1. QueueMax \in Nat /\ Len(q) \in Nat
    BY Parameters
  <1>2. CASE Len(q) < QueueMax
    <2>1. Append(q, u) \in Seq(Sent) /\ Len(Append(q, u)) = Len(q) + 1
          /\ Append(q, u)[Len(q) + 1] = u
      OBVIOUS
    <2>. QED
      BY <1>1, <1>2, <2>1 DEF Put
  <1>3. CASE ~(Len(q) < QueueMax)
    BY <1>3 DEF Put
  <1>. QED
    BY <1>2, <1>3

LEMMA BeaconTyped ==
  ASSUME NEW p \in Seq(Sent), Len(p) <= QueueMax, NEW q \in BeaconOr(p)
  PROVE  /\ q \in Seq(Sent) /\ Len(q) <= QueueMax
         /\ q = p \/ (Len(q) = Len(p) + 1 /\ q[Len(q)] = Beacon)
  <1>1. Beacon \in Sent
    BY RequestTyped
  <1>2. q = p \/ q = Put(p, Beacon)
    BY DEF BeaconOr
  <1>. QED
    BY <1>1, <1>2, PutTyped

-----------------------------------------------------------------------------
(* A periodic request. *)

\* Only the transfer and the latest request matter to the clocks.
LEMMA InvParts ==
  ASSUME Inv
  PROVE  /\ tr.ask.flight \in BOOLEAN /\ tr.ask.base \in Nat /\ tr.ask.asked \in Nat
         /\ tr.ask.request \in 0 .. Never /\ tr.done \in BOOLEAN
         /\ last.age \in 0 .. Period /\ last.asked \in Nat /\ last.base \in Nat
  <1>1. tr.ask \in [flight : BOOLEAN, base : Nat, asked : Nat, request : 0 .. Never]
        /\ tr.done \in BOOLEAN
    BY TransferTyped DEF Transfers
  <1>2. last \in LastRequest
    BY DEF Inv
  <1>. QED
    BY <1>1, <1>2 DEF LastRequest

\* A request made within the period of the one before: all that one asked for has come.
LEMMA Pace ==
  ASSUME Inv, MaySend(tr), last.age < Period
  PROVE  Cardinality(tr.got) - last.base >= last.asked
  <1>1. tr \in Transfers /\ Clocks /\ FlightSound
    BY TransferTyped DEF Inv
  <1>. DEFINE r == tr.ask.request
              s == AfterCheck(tr).ask.request
  <1>2. Period \in Nat /\ r \in Nat /\ last.age \in Nat
    BY InvParts, Ages, Parameters
  <1>3. r < Period
    BY <1>1, <1>2 DEF Clocks
  <1>4. s # r
    <2>1. s >= Period
      BY DEF MaySend
    <2>. HIDE DEF r, s
    <2>. QED
      BY <1>2, <1>3, <2>1
  <1>5. tr.ask.flight /\ (Fulfilled(tr) \/ Released(tr))
    BY <1>1, <1>4, CheckTyped
  <1>6. ~Released(tr)
    <2>1. Released(tr) => r >= Period
      BY DEF Released
    <2>. HIDE DEF r
    <2>. QED
      BY <1>2, <1>3, <2>1
  <1>. QED
    BY <1>1, <1>5, <1>6 DEF Fulfilled, Progress, FlightSound

LEMMA PeriodicStep ==
  ASSUME Inv, ~tr.done, NEW q \in Seq(Sent), Len(q) <= QueueMax, Periodic(tr, q)
  PROVE  /\ tr' \in Transfers /\ tr'.got = tr.got /\ tr'.done = tr.done
         /\ sendq' \in Seq(Sent) /\ Len(sendq') <= QueueMax
         /\ sendq' = q \/ (/\ Len(sendq') = Len(q) + 1
                           /\ sendq'[Len(sendq')] = Request(Limited(Missing)))
         /\ last' \in LastRequest
         /\ FlightSound' /\ Clocks'
         /\ last' # last /\ last.age < Period => Cardinality(tr.got) - last.base >= last.asked
  <1>. DEFINE t == AfterCheck(tr)
              L == Limited(Missing)
  <1>1. /\ tr \in Transfers /\ Missing \in SUBSET Chunks /\ Missing # {}
        /\ Cardinality(tr.got) \in Nat
        /\ FlightSound /\ Clocks /\ last \in LastRequest
    BY TransferTyped DEF Inv, Unfinished
  <1>2. t \in Transfers /\ t.got = tr.got /\ t.done = tr.done
    BY <1>1, CheckTyped
  <1>3. /\ L \in SUBSET Chunks /\ L # {} /\ Cardinality(L) \in Nat /\ Cardinality(L) > 0
        /\ Cardinality(tr.got) + Cardinality(L) <= Total
    <2>1. L \in SUBSET Missing /\ Min(Missing) \in L
      BY <1>1, LimitedUseful
    <2>2. tr.got \in SUBSET Chunks
      BY <1>1 DEF Transfers
    <2>. QED
      BY <1>1, <2>1, <2>2, ChunksFinite, Counts, MissingCount
  <1>4. CASE MaySend(tr)
    <2>1. /\ tr' = Asked(t, L) /\ sendq' = Put(q, Request(L))
          /\ last' = [age |-> 0, asked |-> Cardinality(L), base |-> Cardinality(tr.got)]
      BY <1>4 DEF Periodic
    <2>. HIDE DEF t, L
    <2>2. /\ tr' \in Transfers /\ tr'.got = tr.got /\ tr'.done = tr.done
          /\ tr'.ask = [flight |-> TRUE, base |-> Cardinality(tr.got),
                        asked |-> Cardinality(L), request |-> 0]
      BY <1>2, <1>3, <2>1, AskedTyped
    <2>3. Put(q, Request(L)) \in Seq(Sent) /\ Len(Put(q, Request(L))) <= QueueMax
          /\ (Put(q, Request(L)) = q \/ (/\ Len(Put(q, Request(L))) = Len(q) + 1
                                         /\ Put(q, Request(L))[Len(q) + 1] = Request(L)))
      BY <1>3, RequestTyped, PutTyped
    <2>4. last' \in LastRequest
      BY <1>1, <1>3, <2>1, Parameters DEF LastRequest
    <2>5. Cardinality(tr'.got) = Cardinality(tr.got)
      BY <2>2
    <2>6. FlightSound' /\ Clocks'
      BY <1>1, <1>3, <2>1, <2>2, <2>5, Parameters DEF FlightSound, Clocks
    <2>7. last.age < Period => Cardinality(tr.got) - last.base >= last.asked
      BY <1>4, Pace
    <2>. QED
      BY <2>1, <2>2, <2>3, <2>4, <2>6, <2>7 DEF L
  <1>5. CASE ~MaySend(tr)
    <2>1. (tr' = t \/ tr' = tr) /\ sendq' = q /\ last' = last
          /\ (tr' # tr => tr.highest + 1 >= MinSeen)
      BY <1>5 DEF Periodic
    <2>2. tr' = tr \/ (/\ ~t.ask.flight \/ t = tr
                       /\ t.ask.request = tr.ask.request)
      <3>1. CASE tr' = t /\ tr' # tr
        <4>1. tr.ask.flight /\ CanSend(tr)
          BY <3>1 DEF AfterCheck
        <4>2. t.ask.request < Period
          <5>1. t.ask.request \in Nat
            BY <1>2, Ages DEF Transfers
          <5>2. ~(t.ask.request >= Period)
            BY <1>1, <1>5, <2>1, <3>1, <4>1 DEF MaySend
          <5>. QED
            BY <5>1, <5>2, Parameters
        <4>3. t.ask.request = tr.ask.request
          <5>1. t.ask.request # Never
            <6>1. t.ask.request \in Nat
              BY <1>2, Ages DEF Transfers
            <6>2. Never \in Nat /\ Period \in Nat /\ Period <= Never
              BY Ages, Parameters
            <6>. HIDE DEF t
            <6>. QED
              BY <4>2, <6>1, <6>2
          <5>. QED
            BY <1>1, <5>1, CheckTyped
        <4>4. ~t.ask.flight
          BY <1>1, <4>1 DEF AfterCheck, Transfers
        <4>. QED
          BY <4>3, <4>4
      <3>. QED
        BY <2>1, <3>1
    <2>3. t.ask.base = tr.ask.base /\ t.ask.asked = tr.ask.asked
      BY <1>1, CheckTyped
    <2>. HIDE DEF t
    <2>4. FlightSound' /\ Clocks'
      BY <1>1, <1>2, <2>1, <2>2, <2>3 DEF FlightSound, Clocks
    <2>. QED
      BY <1>1, <1>2, <2>1, <2>4
  <1>. QED
    BY <1>4, <1>5

-----------------------------------------------------------------------------
(* The steps. *)

LEMMA InvKept ==
  ASSUME Inv,
         tr' \in Transfers,
         receive' \in {"recv", "stale"},
         sendq' \in Seq(Sent), Len(sendq') <= QueueMax,
         link' \subseteq {Request(S) : S \in SUBSET Chunks}, air' \subseteq Chunks,
         last' \in LastRequest,
         ~tr'.done => tr'.got # Chunks,
         FlightSound', Clocks'
  PROVE  Inv'
  <1>1. \A k \in DOMAIN sendq' : sendq'[k] \in Frames
    <2>1. \A k \in DOMAIN sendq' : sendq'[k] \in Sent
      OBVIOUS
    <2>2. \A u \in Sent : u \in Frames
      BY RequestTyped DEF Sent
    <2>. QED
      BY <2>1, <2>2
  <1>3. Sent' = Sent
    BY DEF Sent, Beacon, Request, Chunks
  <1>2. Unfinished'
    BY DEF Unfinished, Missing, Transfers
  <1>. QED
    BY <1>1, <1>2, <1>3 DEF Inv, TypeOK, Transfers

LEMMA OutsideTyped ==
  ASSUME Inv
  PROVE  /\ receive \in {"recv", "stale"}
         /\ sendq \in Seq(Sent) /\ Len(sendq) <= QueueMax
         /\ link \subseteq {Request(S) : S \in SUBSET Chunks} /\ air \subseteq Chunks
         /\ last \in LastRequest
         /\ ~tr.done => tr.got # Chunks
         /\ FlightSound /\ Clocks
  BY DEF Inv, TypeOK, Unfinished, Missing

LEMMA InitStep == Init => Inv
  <1>. SUFFICES ASSUME Init PROVE Inv
    OBVIOUS
  <1>1. NoRequest \in [flight : BOOLEAN, base : Nat, asked : Nat, request : 0 .. Never]
    BY Ages DEF NoRequest
  <1>2. tr \in Transfers /\ tr.ask = NoRequest /\ tr.done = FALSE
    <2>1. Quiet \in 0 .. Quiet /\ FALSE \in BOOLEAN
      BY Parameters
    <2>2. tr \in [got : SUBSET Chunks, highest : -1 .. Total - 1, done : {FALSE},
                  data : {Quiet}, ask : {NoRequest}]
      BY DEF Init
    <2>. QED
      BY <1>1, <2>1, <2>2 DEF Transfers
  <1>3. NoLast \in LastRequest
    BY Parameters DEF NoLast, LastRequest
  <1>4. sendq \in Seq(Sent) /\ Len(sendq) <= QueueMax
    BY Parameters DEF Init
  <1>5. Unfinished /\ FlightSound /\ Clocks
    <2>1. Unfinished
      BY <1>2 DEF Init, Transfers, Unfinished, Missing
    <2>2. tr.ask.flight = FALSE /\ tr.ask.request = Never /\ last.age = Period
      BY <1>2 DEF Init, NoRequest, NoLast
    <2>. QED
      BY <2>1, <2>2, Ages, Parameters DEF FlightSound, Clocks
  <1>. QED
    BY <1>2, <1>3, <1>4, <1>5 DEF Init, Inv, TypeOK, Transfers

LEMMA DataStep ==
  ASSUME Inv, NEW c \in air, Data(c)
  PROVE  Inv'
  <1>1. c \in Chunks /\ c \in -1 .. Total - 1
    BY OutsideTyped, Parameters DEF Chunks
  <1>2. air' \subseteq Chunks
    BY OutsideTyped DEF Data
  <1>3. CASE tr.done
    BY <1>2, <1>3, OutsideTyped, TransferTyped, InvKept DEF Data, FlightSound, Clocks
  <1>4. CASE ~tr.done
    <2>. DEFINE g == tr.got \cup {c}
                h == Max({tr.highest, c})
    <2>1. tr \in Transfers
      BY TransferTyped
    <2>2. tr.highest \in -1 .. Total - 1 /\ tr.highest \in Int /\ c \in Int
      BY <1>1, <2>1 DEF Transfers, Chunks
    <2>3. h \in -1 .. Total - 1
      BY <1>1, <2>2, MaxOfTwo
    <2>4. g \in SUBSET Chunks
      BY <1>1, <2>1 DEF Transfers
    <2>5. tr' = [tr EXCEPT !.got = g, !.data = 0, !.highest = h, !.done = (g = Chunks)]
          /\ sendq' \in BeaconOr(sendq)
      BY <1>4 DEF Data
    <2>6. (g = Chunks) \in BOOLEAN /\ 0 \in 0 .. Quiet
      BY Parameters
    <2>. HIDE DEF g, h
    <2>7. tr' \in Transfers /\ tr'.ask = tr.ask /\ tr'.got = g /\ tr'.done = (g = Chunks)
      BY <2>1, <2>3, <2>4, <2>5, <2>6 DEF Transfers
    <2>8. sendq' \in Seq(Sent) /\ Len(sendq') <= QueueMax
      BY <2>5, OutsideTyped, BeaconTyped
    <2>9. Cardinality(tr.got) <= Cardinality(g) /\ Cardinality(tr.got) \in Nat
          /\ Cardinality(g) \in Nat
      BY <2>1, <2>4, Counts, ChunksFinite DEF g, Transfers
    <2>10. FlightSound' /\ Clocks'
      BY <2>7, <2>9, OutsideTyped, InvParts DEF Data, FlightSound, Clocks
    <2>. QED
      BY <1>2, <2>7, <2>8, <2>10, OutsideTyped, InvKept DEF Data
  <1>. QED
    BY <1>3, <1>4

LEMMA AdvertiseStep ==
  ASSUME Inv, Advertise PROVE Inv'
  <1>1. Missing \in SUBSET Chunks /\ Missing # {}
    BY TransferTyped DEF Advertise, Inv, Unfinished
  <1>2. Request(LimitedPlain(Missing)) \in Sent
    BY <1>1, LimitedUseful, RequestTyped
  <1>3. sendq' \in Seq(Sent) /\ Len(sendq') <= QueueMax
    BY <1>2, OutsideTyped, PutTyped DEF Advertise
  <1>4. FlightSound' /\ Clocks'
    BY OutsideTyped DEF Advertise, FlightSound, Clocks
  <1>. QED
    BY <1>3, <1>4, OutsideTyped, TransferTyped, InvKept DEF Advertise, outside

LEMMA TickStep ==
  ASSUME Inv, Tick PROVE Inv'
  <1>1. PICK q \in BeaconOr(sendq) : Periodic(tr, q)
    BY DEF Tick
  <1>2. q \in Seq(Sent) /\ Len(q) <= QueueMax
    BY OutsideTyped, BeaconTyped
  <1>. QED
    BY <1>1, <1>2, PeriodicStep, OutsideTyped, InvKept DEF Tick, outside

LEMMA StaleCheckStep ==
  ASSUME Inv, StaleCheck PROVE Inv'
  <1>1. CASE UNCHANGED tr
    BY <1>1, OutsideTyped, TransferTyped, InvKept
    DEF StaleCheck, outside, FlightSound, Clocks
  <1>2. CASE tr' = [tr EXCEPT !.ask.flight = FALSE, !.ask.asked = 0]
    <2>. DEFINE a == tr.ask
                b == [a EXCEPT !.flight = FALSE, !.asked = 0]
    <2>1. a \in [flight : BOOLEAN, base : Nat, asked : Nat, request : 0 .. Never]
      BY TransferTyped DEF Transfers
    <2>2. tr' = [tr EXCEPT !.ask = b]
      BY <1>2
    <2>. HIDE DEF a
    <2>3. b \in [flight : BOOLEAN, base : Nat, asked : Nat, request : 0 .. Never]
          /\ b.flight = FALSE /\ b.request = a.request
      BY <2>1
    <2>. HIDE DEF b
    <2>4. tr' \in Transfers /\ tr'.ask = b /\ tr'.got = tr.got /\ tr'.done = tr.done
      BY <2>2, <2>3, TransferTyped DEF Transfers
    <2>5. FlightSound' /\ Clocks'
      BY <2>3, <2>4, OutsideTyped DEF StaleCheck, FlightSound, Clocks, a
    <2>. QED
      BY <2>4, <2>5, OutsideTyped, InvKept DEF StaleCheck, outside
  <1>. QED
    BY <1>1, <1>2 DEF StaleCheck

LEMMA TimerStep ==
  ASSUME Inv, Timer PROVE Inv'
  BY PeriodicStep, OutsideTyped, InvKept DEF Timer, outside

LEMMA SendWorkerStep ==
  ASSUME Inv, SendWorker PROVE Inv'
  <1>1. Tail(sendq) \in Seq(Sent) /\ Len(Tail(sendq)) <= QueueMax /\ Head(sendq) \in Sent
    BY OutsideTyped, Parameters DEF SendWorker
  <1>2. Head(sendq) # Beacon => \E S \in SUBSET Chunks : Head(sendq) = Request(S)
    BY <1>1 DEF Sent
  <1>3. link' \subseteq {Request(S) : S \in SUBSET Chunks}
    BY <1>2, OutsideTyped DEF SendWorker
  <1>. QED
    BY <1>1, <1>3, OutsideTyped, TransferTyped, InvKept
    DEF SendWorker, FlightSound, Clocks

LEMMA AnswerStep ==
  ASSUME Inv, NEW u \in link, Answer(u) PROVE Inv'
  <1>1. u.missing \in SUBSET Chunks
    BY OutsideTyped DEF Request
  <1>2. air' \subseteq Chunks /\ link' \subseteq {Request(S) : S \in SUBSET Chunks}
    BY <1>1, OutsideTyped DEF Answer
  <1>. QED
    BY <1>2, OutsideTyped, TransferTyped, InvKept DEF Answer, FlightSound, Clocks

LEMMA ClockStep ==
  ASSUME Inv, Clock PROVE Inv'
  <1>. DEFINE a == tr.ask
              r == Older(a.request, Never)
              d == Older(tr.data, Quiet)
              b == [a EXCEPT !.request = r]
  <1>1. tr \in Transfers
    BY TransferTyped
  <1>2. a \in [flight : BOOLEAN, base : Nat, asked : Nat, request : 0 .. Never]
        /\ tr.data \in 0 .. Quiet
    BY <1>1 DEF Transfers
  <1>3. r \in 0 .. Never /\ d \in 0 .. Quiet /\ Older(last.age, Period) \in 0 .. Period
    BY <1>2, Ages, InvParts, Parameters
  <1>4. tr' = [tr EXCEPT !.data = d, !.ask = b]
        /\ last' = [last EXCEPT !.age = Older(@, Period)]
    BY DEF Clock
  <1>. HIDE DEF a, r, d
  <1>5. b \in [flight : BOOLEAN, base : Nat, asked : Nat, request : 0 .. Never]
        /\ b.flight = a.flight /\ b.base = a.base /\ b.asked = a.asked /\ b.request = r
    BY <1>2, <1>3
  <1>. HIDE DEF b
  <1>6. tr' \in Transfers /\ tr'.ask = b /\ tr'.got = tr.got /\ tr'.done = tr.done
    BY <1>1, <1>3, <1>4, <1>5 DEF Transfers
  <1>7. /\ last' \in LastRequest /\ last'.age = Older(last.age, Period)
        /\ last'.asked = last.asked /\ last'.base = last.base
    BY <1>3, <1>4, OutsideTyped DEF LastRequest
  <1>8. Clocks'
    <2>1. /\ Period \in Nat /\ Never \in Nat /\ Period <= Never
          /\ tr.ask.request \in 0 .. Never /\ last.age \in 0 .. Period /\ Clocks
      BY OutsideTyped, InvParts, Ages, Parameters
    <2>2. tr'.ask.request = Older(tr.ask.request, Never) /\ last'.age = Older(last.age, Period)
      BY <1>5, <1>6, <1>7 DEF a, r
    <2>. QED
      BY <2>1, <2>2 DEF Clocks, Older
  <1>9. FlightSound'
    BY <1>5, <1>6, <1>7, OutsideTyped DEF FlightSound, a
  <1>. QED
    BY <1>6, <1>7, <1>8, <1>9, OutsideTyped, InvKept DEF Clock, outside

LEMMA NextStep == Inv /\ [Next]_vars => Inv'
  <1>. SUFFICES ASSUME Inv, [Next]_vars PROVE Inv'
    OBVIOUS
  <1>1. CASE UNCHANGED vars
    BY <1>1, OutsideTyped, TransferTyped, InvKept DEF vars, FlightSound, Clocks
  <1>. QED
    BY <1>1, DataStep, AdvertiseStep, TickStep, StaleCheckStep, TimerStep, SendWorkerStep,
       ClockStep, AnswerStep DEF Next

LEMMA Invariant == Spec => []Inv
  BY InitStep, NextStep, PTL DEF Spec

-----------------------------------------------------------------------------
(* The theorems. *)

\* The state keeps its types, for every file, budget and timeout.
THEOREM TypeCorrect == Spec => []TypeOK
  <1>1. Inv => TypeOK
    BY DEF Inv
  <1>. QED
    BY <1>1, Invariant, PTL

\* A request that is in flight is the latest one, with the counts of the time it was made,
\* and it can be fulfilled.
THEOREM FlightCorrect == Spec => []FlightSound
  <1>1. Inv => FlightSound
    BY DEF Inv
  <1>. QED
    BY <1>1, Invariant, PTL

\* The frame a step adds to the queue.
LEMMA UsefulStep ==
  ASSUME Inv, [Next]_vars, Len(sendq') > Len(sendq), Requested(sendq'[Len(sendq')])
  PROVE  Useful(sendq'[Len(sendq')])
  <1>. DEFINE u == sendq'[Len(sendq')]
  <1>1. ASSUME ~tr.done, NEW L \in {Limited(Missing), LimitedPlain(Missing)}, u = Request(L)
        PROVE  Useful(u)
    <2>1. Missing \in SUBSET Chunks /\ Missing # {} /\ u.missing = L
      BY <1>1, TransferTyped DEF Inv, Unfinished, Request
    <2>2. /\ L \in SUBSET Missing /\ Min(Missing) \in L
          /\ Budget > 0 => Cardinality(L) <= Max({Budget, HoleBudget})
      BY <1>1, <2>1, LimitedUseful
    <2>. HIDE DEF u
    <2>. QED
      BY <2>1, <2>2 DEF Useful
  <1>2. u # Beacon
    BY DEF Requested, Beacon
  <1>3. sendq \in Seq(Sent) /\ Len(sendq) <= QueueMax /\ Len(sendq) \in Nat
    BY OutsideTyped
  <1>4. ASSUME NEW c \in air, Data(c) PROVE FALSE
    BY <1>2, <1>3, <1>4, BeaconTyped DEF Data
  <1>5. CASE Advertise
    <2>1. Missing \in SUBSET Chunks /\ Missing # {} /\ ~tr.done
      BY <1>5, TransferTyped DEF Advertise, Inv, Unfinished
    <2>2. Request(LimitedPlain(Missing)) \in Sent
      BY <2>1, LimitedUseful, RequestTyped
    <2>3. u = Request(LimitedPlain(Missing))
      <3>. DEFINE r == Request(LimitedPlain(Missing))
      <3>1. sendq' = Put(sendq, r)
        BY <1>5 DEF Advertise
      <3>2. \/ Put(sendq, r) = sendq
            \/ Len(Put(sendq, r)) = Len(sendq) + 1 /\ Put(sendq, r)[Len(sendq) + 1] = r
        BY <1>3, <2>2, PutTyped
      <3>. HIDE DEF r
      <3>3. sendq' # sendq
        BY <1>3
      <3>. QED
        BY <3>1, <3>2, <3>3 DEF r
    <2>. QED
      BY <1>1, <2>1, <2>3
  <1>6. ASSUME ~tr.done, NEW q \in Seq(Sent), Len(q) <= QueueMax, Periodic(tr, q),
               q = sendq \/ (Len(q) = Len(sendq) + 1 /\ q[Len(q)] = Beacon)
        PROVE  Useful(u)
    <2>1. sendq' = q \/ u = Request(Limited(Missing))
      BY <1>6, PeriodicStep
    <2>2. sendq' # q
      BY <1>2, <1>3, <1>6
    <2>. QED
      BY <1>1, <1>6, <2>1, <2>2
  <1>7. CASE Tick
    <2>1. PICK q \in BeaconOr(sendq) : Periodic(tr, q)
      BY <1>7 DEF Tick
    <2>. QED
      BY <1>3, <1>6, <1>7, <2>1, BeaconTyped DEF Tick
  <1>8. CASE Timer
    BY <1>3, <1>6, <1>8 DEF Timer
  <1>9. CASE SendWorker
    BY <1>3, <1>9 DEF SendWorker
  <1>10. CASE UNCHANGED sendq
    BY <1>3, <1>10
  <1>. QED
    BY <1>4, <1>5, <1>7, <1>8, <1>9, <1>10 DEF Next, vars, StaleCheck, Answer, Clock

\* Whatever a step asks for is missing, begins with the first missing chunk and respects
\* the budgets: for every set of chunks received and every queue.
THEOREM RequestsAreUseful == Spec => RequestsUseful
  <1>1. Inv /\ [Next]_vars =>
          [Len(sendq') > Len(sendq) /\ Requested(sendq'[Len(sendq')]) =>
             Useful(sendq'[Len(sendq')])]_vars
    BY UsefulStep
  <1>. QED
    BY <1>1, Invariant, PTL DEF Spec, RequestsUseful

LEMMA PacedStep ==
  ASSUME Inv, [Next]_vars, last' # last, last'.age = 0, last.age < Period
  PROVE  Cardinality(tr.got) - last.base >= last.asked
  <1>1. ~Clock
    <2>1. last \in LastRequest /\ last.age \in Nat
      BY OutsideTyped, InvParts
    <2>. QED
      BY <2>1, Parameters DEF Clock, Older, LastRequest
  <1>2. CASE Tick
    <2>1. PICK q \in BeaconOr(sendq) : Periodic(tr, q)
      BY <1>2 DEF Tick
    <2>. QED
      BY <1>2, <2>1, OutsideTyped, BeaconTyped, PeriodicStep DEF Tick
  <1>3. CASE Timer
    BY <1>3, OutsideTyped, PeriodicStep DEF Timer
  <1>. QED
    BY <1>1, <1>2, <1>3 DEF Next, vars, Data, Advertise, StaleCheck, SendWorker, Answer

\* Within a period one periodic request follows another only when all that one asked for
\* has come, whichever of the two threads makes it.
THEOREM RequestsArePaced == Spec => RequestsPaced
  <1>1. Inv /\ [Next]_vars =>
          [last' # last /\ last'.age = 0 /\ last.age < Period =>
             Cardinality(tr.got) - last.base >= last.asked]_vars
    BY PacedStep
  <1>. QED
    BY <1>1, Invariant, PTL DEF Spec, RequestsPaced
=============================================================================
