---------------------------- MODULE SyncProofs ----------------------------
(***************************************************************************)
(* Theorems about Sync, for every command line, number of files and        *)
(* number of threads.                                                      *)
(***************************************************************************)
EXTENDS Sync, FiniteSetTheorems, TLAPS

-----------------------------------------------------------------------------
(* Types. *)

Tickets == {e \in [item : Items, attempts : Nat] : e.attempts < args.passes}
TicketOrNone == Tickets \cup {NoEntry}
Optional(S) == S \cup {None}

MainPcs ==
  {"round", "item", "start", "key", "digest", "await", "send", "release", "halt", "join",
   "account", "between", "attempts", "attempt", "drain", "finish", "done"}
MainStates ==
  [pc : MainPcs, round : Nat, todo : Seq(Items), item : Optional(Items),
   checked : Optional(Nat), override : Optional(Nat), result : Optional(Results),
   left : Nat, gain : Nat, entry : TicketOrNone, draining : BOOLEAN,
   exit : Optional(Exits)]

Holding == {"blocked", "send", "dead"}
ThreadStates == [pc : {"off", "check", "take"} \cup Holding, entry : TicketOrNone]
AheadFields ==
  [todo : Seq(Items), pc : {"idle", "stat", "hash"}, item : Optional(Items),
   stat : Optional(Nat), cache : [Items -> Hashes]]
AheadStates == {a \in AheadFields : a.pc # "idle" => a.item \in Items}
Fates == {"new", "skipped", "denied", "incomplete", "delivered", "unheard", "empty"}

Typed ==
  /\ args \in RunSet
  /\ active \in BOOLEAN /\ halt \in BOOLEAN /\ stop \in BOOLEAN
  /\ main \in MainStates
  /\ queue \in Seq(Tickets) /\ keys \in SUBSET Items /\ failed \in Nat
  /\ current \in Optional(Items)
  /\ worker \in [Workers -> ThreadStates] /\ thread \in Optional(Workers)
  /\ counts \in [Items -> Nat] /\ version \in [Items -> 0 .. args.edits]
  /\ ahead \in AheadStates
  /\ fate \in [Items -> Fates]

-----------------------------------------------------------------------------
(* The inductive invariants. *)

\* Where the main thread stands in a round: during a transfer its file is the first of
\* those still to do, and nothing is to do when the queue is drained; who is at an attempt
\* has its entry, and only it.
Primary ==
  {"start", "key", "digest", "await", "send", "release", "halt", "join", "account", "between"}
MainPhased ==
  /\ main.pc \in Primary => main.todo # <<>> /\ main.item = Head(main.todo)
  /\ main.pc \in {"drain", "finish"} => main.todo = <<>>
  /\ main.draining =>
       main.todo = <<>> /\ main.pc \in {"attempts", "attempt", "drain", "finish", "done"}
  /\ main.pc = "attempt" => main.entry \in Tickets
  /\ main.entry # NoEntry => main.pc \in {"attempt", "done"}
  /\ main.pc \in {"release", "halt", "join"} => main.result # None
  /\ main.result = "denied" => main.pc \in {"release", "halt", "join"} /\ main.item \in args.denied
  /\ main.pc = "account" => main.result \in {"delivered", "unheard", "empty", "progress", "silent"}
  /\ args.rounds > 0 => main.round <= args.rounds
  /\ args.rounds > 0 /\ main.pc = "round" => main.round < args.rounds
  /\ main.pc # "done" => main.exit = None
ThreadsPhased ==
  \A w \in Workers : (worker[w].pc \in Holding) <=> (worker[w].entry \in Tickets)

TInv == Typed /\ MainPhased /\ ThreadsPhased

\* Every key has one owner: the queue, the main thread or a worker, given what they hold.
Hands == [w \in Workers |-> worker[w].entry.item]
HeldIn(m, h) == ({m} \cup {h[w] : w \in Workers}) \ {None}
OwnedBy(k, q, m, h) ==
  /\ q \cup HeldIn(m, h) = k /\ q \cap HeldIn(m, h) = {}
  /\ \A w \in Workers : h[w] # None => h[w] # m /\ \A v \in Workers \ {w} : h[v] # h[w]
ItemsIn(q) == {q[k].item : k \in DOMAIN q}
Distinct(q) == \A j, k \in DOMAIN q : q[j].item = q[k].item => j = k
Owned ==
  Alive => OwnedBy(keys, ItemsIn(queue), main.entry.item, Hands) /\ Distinct(queue)

\* As long as nothing has failed, what a round has settled is settled, or a key keeps it.
Listed(s) == {s[k] : k \in DOMAIN s}
Rest == IF main.pc = "between" THEN Tail(main.todo) ELSE main.todo
Remaining == Listed(Rest)
Settled(i) == fate[i] \in {"skipped", "denied", "delivered", "unheard", "empty"}
Kept(i) == failed > 0 \/ Settled(i) \/ i \in keys
Settling == {"release", "halt", "join", "account"}
RoundKept == Alive /\ main.pc # "round" => \A i \in Items \ Remaining : Kept(i)
ResultKept ==
  main.pc \in Settling /\ main.result \in {"delivered", "unheard", "empty", "denied"}
    => Kept(main.item)
Heard ==
  /\ args.feedback = "on" => main.result # "unheard" /\ \A i \in Items : fate[i] # "unheard"
  /\ \A i \in Items : fate[i] = "empty" => i \in args.empty
Earned == RoundKept /\ ResultKept /\ Heard /\ SuccessIsEarned

\* A digest is of contents that are not older than the file was when it was looked at.
Hashed ==
  /\ ahead.pc = "hash" => ahead.stat \in Nat /\ ahead.stat <= version[ahead.item]
  /\ \A i \in Items : ahead.cache[i].stat # None =>
       ahead.cache[i].digest \in Nat /\ ahead.cache[i].digest >= ahead.cache[i].stat
  /\ main.override # None => main.checked \in Nat
  /\ main.pc = "await" => main.checked \in Nat
  /\ PrefetchSound

\* In open loop the files still to do come in the order of their counts, and none was sent
\* more often than one that was sent in this round.
Allowed == Items \ args.denied
Ordered(s, c) ==
  \A k, l \in DOMAIN s : k < l =>
    s[k] # s[l] /\ ({s[k], s[l]} \subseteq Allowed => c[s[k]] <= c[s[l]])
Sorted ==
  args.feedback = "off" /\ ~args.query =>
    /\ \A i, j \in Allowed : counts[i] <= counts[j] + 1
    /\ \A i \in Remaining \cap Allowed, j \in Allowed \ Remaining : counts[i] <= counts[j]
    /\ Ordered(Rest, counts)

-----------------------------------------------------------------------------
(* Types. *)

\* The types depend on the number of files and of attempts only.
LEMMA TypesStay ==
  ASSUME args'.files = args.files, args'.passes = args.passes
  PROVE  /\ Items' = Items /\ Tickets' = Tickets /\ TicketOrNone' = TicketOrNone
         /\ MainStates' = MainStates /\ ThreadStates' = ThreadStates
         /\ AheadStates' = AheadStates
  <1>1. Items' = Items /\ Tickets' = Tickets
    BY DEF Items, Tickets
  <1>. QED
    BY <1>1
    DEF TicketOrNone, NoEntry, Optional, MainStates, ThreadStates, AheadFields, AheadStates, Hashes

LEMMA TypesKept ==
  ASSUME TInv, args' = args,
         active' \in BOOLEAN, halt' \in BOOLEAN, stop' \in BOOLEAN,
         main' \in MainStates, queue' \in Seq(Tickets), keys' \in SUBSET Items, failed' \in Nat,
         current' \in Optional(Items),
         worker' \in [Workers -> ThreadStates], thread' \in Optional(Workers),
         counts' \in [Items -> Nat], version' \in [Items -> 0 .. args.edits],
         ahead' \in AheadStates, fate' \in [Items -> Fates]
  PROVE  Typed'
  BY TypesStay DEF TInv, Typed, Optional

LEMMA Vars ==
  ASSUME TInv
  PROVE  /\ args \in RunSet
         /\ active \in BOOLEAN /\ halt \in BOOLEAN /\ stop \in BOOLEAN
         /\ main \in MainStates
         /\ queue \in Seq(Tickets) /\ keys \in SUBSET Items /\ failed \in Nat
         /\ current \in Optional(Items)
         /\ worker \in [Workers -> ThreadStates] /\ thread \in Optional(Workers)
         /\ counts \in [Items -> Nat] /\ version \in [Items -> 0 .. args.edits]
         /\ ahead \in AheadStates
         /\ fate \in [Items -> Fates]
         /\ MainPhased /\ ThreadsPhased
  BY DEF TInv, Typed

LEMMA MainTyped == TInv => main \in MainStates
  BY DEF TInv, Typed

LEMMA WorkersTyped == TInv => worker \in [Workers -> ThreadStates]
  BY DEF TInv, Typed

LEMMA Fields ==
  ASSUME TInv
  PROVE  /\ main.pc \in MainPcs /\ main.round \in Nat /\ main.todo \in Seq(Items)
         /\ main.item \in Optional(Items) /\ main.checked \in Optional(Nat)
         /\ main.override \in Optional(Nat) /\ main.result \in Optional(Results)
         /\ main.left \in Nat /\ main.gain \in Nat /\ main.entry \in TicketOrNone
         /\ main.draining \in BOOLEAN /\ main.exit \in Optional(Exits)
  BY Vars DEF MainStates

LEMMA Numbers ==
  ASSUME TInv
  PROVE  /\ args.files \in Nat /\ args.passes \in Nat /\ args.rounds \in Nat
         /\ args.edits \in Nat /\ args.crashes \in Nat
         /\ Items \in SUBSET Nat /\ None \notin Items /\ None \notin Nat
         /\ None \notin Exits /\ None \notin Results
  <1>1. args \in RunSet
    BY Vars
  <1>2. /\ args.files \in Nat /\ args.passes \in Nat /\ args.rounds \in Nat
        /\ args.edits \in Nat /\ args.crashes \in Nat
    BY <1>1 DEF RunSet
  <1>3. Items \in SUBSET Nat
    BY <1>2 DEF Items
  <1>4. None \notin Nat /\ None \notin Results /\ None \notin Exits
    BY SyncAssumption
  <1>. QED
    BY <1>2, <1>3, <1>4

\* Tickets and no ticket.
LEMMA TicketFacts ==
  ASSUME TInv
  PROVE  /\ NoEntry.item = None /\ NoEntry \notin Tickets
         /\ \A e \in Tickets : e.item \in Items /\ e.item # None
         /\ \A i \in Items : args.passes > 0 => Entry(i) \in Tickets /\ Entry(i).item = i
  BY Numbers DEF NoEntry, Tickets, Entry

LEMMA QueueTyped ==
  ASSUME NEW S, NEW q \in Seq(S)
  PROVE  /\ q # <<>> => Head(q) \in S /\ Tail(q) \in Seq(S)
         /\ \A e \in S : Append(q, e) \in Seq(S) /\ <<e>> \o q \in Seq(S)
  OBVIOUS

\* During a transfer the file is the first of those to do.
LEMMA AtWork ==
  ASSUME TInv, main.pc \in Primary
  PROVE  /\ main.todo \in Seq(Items) /\ main.todo # <<>>
         /\ main.item = Head(main.todo) /\ main.item \in Items
         /\ Tail(main.todo) \in Seq(Items)
         /\ ~main.draining /\ main.exit = None /\ main.entry = NoEntry
  <1>1. main.todo \in Seq(Items) /\ main.todo # <<>> /\ main.item = Head(main.todo)
    BY Vars, Fields DEF MainPhased
  <1>2. main.item \in Items /\ Tail(main.todo) \in Seq(Items)
    BY <1>1, QueueTyped
  <1>3. ~main.draining /\ main.exit = None /\ main.entry = NoEntry
    BY Vars DEF MainPhased, Primary
  <1>. QED
    BY <1>1, <1>2, <1>3

LEMMA ThreadsStay ==
  ASSUME TInv, args' = args, worker' = worker PROVE ThreadsPhased'
  BY Vars, TypesStay DEF ThreadsPhased

LEMMA MainStays ==
  ASSUME TInv, args' = args, main' = main PROVE MainPhased'
  BY Vars, TypesStay DEF MainPhased

\* What an attempt at the transfer of e does: it is settled, it goes back, it has failed,
\* or the thread ends.
LEMMA AttemptedCases ==
  ASSUME TInv, NEW e \in Tickets, NEW r, Attempted(e, r)
  PROVE  \/ /\ Completed(r)
            /\ keys' = keys \ {e.item} /\ queue' = queue /\ failed' = failed
         \/ /\ r \in {"silent", "progress"}
            /\ \E d \in Tickets : d.item = e.item /\ queue' = Append(queue, d)
            /\ keys' = keys /\ failed' = failed
         \/ /\ r = "progress"
            /\ keys' = keys \ {e.item} /\ queue' = queue /\ failed' = failed + 1
         \/ /\ r \notin {"silent", "progress"} /\ ~Completed(r)
            /\ keys' = keys /\ queue' = queue /\ failed' = failed
  <1>1. CASE r = "progress" /\ MayRetry(e)
    <2>. DEFINE d == [e EXCEPT !.attempts = @ + 1]
    <2>1. d \in Tickets /\ d.item = e.item
      BY <1>1, Numbers DEF MayRetry, Tickets
    <2>2. queue' = Append(queue, d) /\ keys' = keys /\ failed' = failed
      BY <1>1 DEF Attempted, Completed
    <2>. QED
      BY <1>1, <2>1, <2>2
  <1>2. CASE ~(r = "progress" /\ MayRetry(e))
    BY <1>2 DEF Attempted, Completed, revisits
  <1>. QED
    BY <1>1, <1>2

LEMMA AttemptedTyped ==
  ASSUME TInv, NEW e \in Tickets, NEW r, Attempted(e, r)
  PROVE  queue' \in Seq(Tickets) /\ keys' \in SUBSET Items /\ failed' \in Nat
  <1>1. queue \in Seq(Tickets) /\ keys \in SUBSET Items /\ failed \in Nat
    BY Vars
  <1>. QED
    BY <1>1, AttemptedCases, QueueTyped

LEMMA EndedTyped ==
  ASSUME TInv, NEW i, NEW r, Ended(i, r) PROVE fate' \in [Items -> Fates]
  BY Vars DEF Ended, Completed, Fates

\* The order of the files in open loop.
LEMMA BelowGrows ==
  ASSUME args.files \in Nat, counts \in [Items -> Nat], NEW i \in Items, NEW j \in Items
  PROVE  /\ Place(i) \in Items
         /\ Before(i, j) => Place(i) < Place(j)
         /\ i # j => Before(i, j) \/ Before(j, i)
  <1>. DEFINE Below(k) == {l \in Items : Before(l, k)}
  <1>1. IsFiniteSet(Items) /\ Cardinality(Items) = args.files /\ Items \in SUBSET Nat
    <2>1. 1 \in Int /\ args.files \in Int
      OBVIOUS
    <2>2. IsFiniteSet(1 .. args.files)
          /\ Cardinality(1 .. args.files) = IF 1 > args.files THEN 0 ELSE args.files - 1 + 1
      BY <2>1, FS_Interval
    <2>. QED
      BY <2>2 DEF Items
  <1>2. \A k \in Items : IsFiniteSet(Below(k)) /\ Cardinality(Below(k)) \in Nat
    BY <1>1, FS_Subset, FS_CardinalityType
  <1>3. i \notin Below(i) /\ (Before(i, j) => Below(i) \cup {i} \in SUBSET Below(j))
    <2>1. counts[i] \in Nat /\ counts[j] \in Nat /\ i \in Nat /\ j \in Nat
          /\ \A l \in Items : counts[l] \in Nat /\ l \in Nat
      BY <1>1
    <2>2. ~Before(i, i)
      BY <2>1 DEF Before
    <2>3. Before(i, j) => \A l \in Items : Before(l, i) => Before(l, j)
      BY <2>1 DEF Before
    <2>. QED
      BY <2>2, <2>3
  <1>4. IsFiniteSet(Below(i) \cup {i}) /\ Cardinality(Below(i) \cup {i}) = Cardinality(Below(i)) + 1
    BY <1>2, <1>3, FS_AddElement
  <1>5. Cardinality(Below(i)) + 1 <= Cardinality(Items)
    <2>1. Below(i) \cup {i} \in SUBSET Items
      OBVIOUS
    <2>. QED
      BY <1>1, <1>4, <2>1, FS_Subset
  <1>6. Before(i, j) => Cardinality(Below(i)) + 1 <= Cardinality(Below(j))
    BY <1>2, <1>3, <1>4, FS_Subset
  <1>7. Place(i) = 1 + Cardinality(Below(i)) /\ Place(j) = 1 + Cardinality(Below(j))
    BY DEF Place
  <1>8. i # j => Before(i, j) \/ Before(j, i)
    BY <1>1 DEF Before
  <1>. HIDE DEF Below
  <1>9. Place(i) \in Items
    BY <1>1, <1>2, <1>5, <1>7 DEF Items
  <1>. QED
    BY <1>2, <1>6, <1>7, <1>8, <1>9

LEMMA ByCountOrders ==
  ASSUME args.files \in Nat, counts \in [Items -> Nat]
  PROVE  /\ ByCount \in [Items -> Items]
         /\ \A i \in Items : \E k \in Items : ByCount[k] = i
         /\ \A k, l \in Items : k < l =>
              ByCount[k] # ByCount[l] /\ counts[ByCount[k]] <= counts[ByCount[l]]
  <1>. DEFINE f == [i \in Items |-> Place(i)]
  <1>1. IsFiniteSet(Items) /\ Items \in SUBSET Nat
    BY FS_Interval DEF Items
  <1>2. \A i, j \in Items : Place(i) = Place(j) => i = j
    <2>1. TAKE i \in Items, j \in Items
    <2>2. Place(i) \in Nat /\ Place(j) \in Nat
      BY <1>1, BelowGrows
    <2>. QED
      BY <2>2, BelowGrows
  <1>3. f \in Surjection(Items, Items)
    <2>1. f \in Injection(Items, Items)
      <3>1. \A i \in Items : Place(i) \in Items
        BY BelowGrows
      <3>2. f \in [Items -> Items] /\ \A i \in Items : f[i] = Place(i)
        BY <3>1
      <3>. HIDE DEF f
      <3>. QED
        BY <1>2, <3>2 DEF Injection, IsInjective
    <2>. QED
      BY <1>1, <2>1, FS_Injection
  <1>4. \A k \in Items : \E i \in Items : Place(i) = k
    BY <1>3 DEF Surjection
  <1>5. \A k \in Items : ByCount[k] \in Items /\ Place(ByCount[k]) = k
    BY <1>4 DEF ByCount
  <1>6. \A i \in Items : ByCount[Place(i)] = i
    <2>1. TAKE i \in Items
    <2>2. Place(i) \in Items
      BY BelowGrows
    <2>. QED
      BY <1>2, <1>5, <2>2
  <1>7. ASSUME NEW k \in Items, NEW l \in Items, k < l
        PROVE  ByCount[k] # ByCount[l] /\ counts[ByCount[k]] <= counts[ByCount[l]]
    <2>. DEFINE i == ByCount[k]
                j == ByCount[l]
    <2>1. i \in Items /\ j \in Items /\ Place(i) = k /\ Place(j) = l /\ k \in Nat /\ l \in Nat
      BY <1>1, <1>5
    <2>. HIDE DEF i, j
    <2>2. i # j
      BY <1>7, <2>1
    <2>3. ~Before(j, i)
      BY <1>7, <2>1, BelowGrows
    <2>4. Before(i, j)
      BY <2>1, <2>2, <2>3, BelowGrows
    <2>5. counts[i] \in Nat /\ counts[j] \in Nat
      BY <2>1
    <2>6. counts[i] <= counts[j]
      BY <2>4, <2>5 DEF Before
    <2>. QED
      BY <2>2, <2>6 DEF i, j
  <1>8. ByCount \in [Items -> Items]
    BY <1>5 DEF ByCount
  <1>9. \A i \in Items : \E k \in Items : ByCount[k] = i
    BY <1>6, BelowGrows
  <1>. QED
    BY <1>7, <1>8, <1>9

-----------------------------------------------------------------------------
(* Types: the steps of the main thread. *)

LEMMA BeginRoundTyped ==
  ASSUME TInv, BeginRound PROVE TInv'
  <1>1. PICK s \in Seq(Items) : main' = [main EXCEPT !.pc = "item", !.round = @ + 1, !.todo = s]
    <2>1. ByCount \in [Items -> Items]
      BY Vars, Numbers, ByCountOrders
    <2>2. ByCount \in Seq(Items) /\ [i \in Items |-> i] \in Seq(Items)
      BY <2>1, Numbers DEF Items
    <2>. QED
      BY <2>2 DEF BeginRound
  <1>2. main' \in MainStates
    <2>1. main.round + 1 \in Nat
      BY Fields
    <2>. QED
      BY <1>1, <2>1, Vars DEF MainStates, MainPcs, Optional, Exits
  <1>3. active' \in BOOLEAN
    BY Vars DEF BeginRound, Refreshed
  <1>4. MainPhased'
    <2>1. /\ main'.pc = "item" /\ main'.round = main.round + 1 /\ main'.result = main.result
          /\ main'.entry = main.entry /\ main'.draining = main.draining /\ main'.exit = main.exit
      BY <1>1, Vars DEF MainStates
    <2>2. main.pc = "round" /\ args' = args
      BY DEF BeginRound
    <2>. QED
      BY <2>1, <2>2, Vars, Fields, Numbers DEF MainPhased, Primary
  <1>. QED
    BY <1>2, <1>3, <1>4, Vars, TypesKept, ThreadsStay
    DEF TInv, BeginRound, revisits, threads, files

LEMMA NextItemTyped ==
  ASSUME TInv, NextItem PROVE TInv'
  <1>1. main.pc = "item" /\ main.todo # <<>> /\ Head(main.todo) \in Items /\ args' = args
    BY Fields DEF NextItem
  <1>2. PICK p \in {"between", "start"} :
          /\ main' = [main EXCEPT !.pc = p, !.item = Head(main.todo)]
          /\ p = "start" => fate' = fate
          /\ p = "between" => fate' = [fate EXCEPT ![Head(main.todo)] = "skipped"]
    BY DEF NextItem
  <1>3. main' \in MainStates
    BY <1>1, <1>2, Vars DEF MainStates, MainPcs, Optional
  <1>4. MainPhased'
    <2>1. /\ main'.pc = p /\ main'.item = Head(main.todo) /\ main'.todo = main.todo
          /\ main'.round = main.round /\ main'.result = main.result
          /\ main'.entry = main.entry /\ main'.draining = main.draining /\ main'.exit = main.exit
      BY <1>2, Vars DEF MainStates
    <2>. QED
      BY <1>1, <2>1, Vars DEF MainPhased, Primary
  <1>5. fate' \in [Items -> Fates]
    BY <1>2, Vars DEF Fates
  <1>. QED
    BY <1>3, <1>4, <1>5, Vars, TypesKept, ThreadsStay
    DEF TInv, NextItem, revisits, threads, files

LEMMA StartWorkerTyped ==
  ASSUME TInv, StartWorker PROVE TInv'
  <1>1. main' \in MainStates
    BY Vars DEF StartWorker, MainStates, MainPcs, Optional, Exits
  <1>2. MainPhased'
    BY Vars DEF StartWorker, MainPhased, Primary, MainStates
  <1>3. \/ worker' = worker /\ thread' = thread /\ halt' = halt
        \/ \E w \in Workers : /\ worker[w].pc = "off" /\ worker' = [worker EXCEPT ![w].pc = "check"]
                              /\ thread' = w /\ halt' = FALSE
    <2>. DEFINE free == {w \in Workers : worker[w].pc = "off"}
    <2>1. free # {} => (CHOOSE w \in free : TRUE) \in free
      OBVIOUS
    <2>. QED
      BY <2>1 DEF StartWorker, threads
  <1>4. worker' \in [Workers -> ThreadStates] /\ thread' \in Optional(Workers) /\ halt' \in BOOLEAN
    BY <1>3, Vars DEF ThreadStates, Optional
  <1>5. ThreadsPhased'
    <2>1. args' = args /\ Tickets' = Tickets
      BY TypesStay DEF StartWorker
    <2>. QED
      <3>1. ThreadsPhased
        BY Vars
      <3>2. ASSUME NEW w \in Workers, worker[w].pc = "off",
                   worker' = [worker EXCEPT ![w].pc = "check"]
            PROVE  ThreadsPhased'
        <4>1. /\ worker'[w].pc = "check" /\ worker'[w].entry = worker[w].entry
              /\ \A v \in Workers \ {w} : worker'[v] = worker[v]
          BY <3>2, WorkersTyped DEF ThreadStates
        <4>. QED
          BY <2>1, <3>1, <3>2, <4>1 DEF ThreadsPhased, Holding
      <3>. QED
        BY <1>3, <2>1, <3>1, <3>2 DEF ThreadsPhased
  <1>. QED
    BY <1>1, <1>2, <1>4, <1>5, Vars, TypesKept DEF TInv, StartWorker, revisits, files

LEMMA SetKeyTyped ==
  ASSUME TInv, SetKey PROVE TInv'
  <1>1. main' \in MainStates
    BY Vars DEF SetKey, MainStates, MainPcs, Optional, Exits
  <1>2. MainPhased'
    BY Vars DEF SetKey, MainPhased, Primary, MainStates
  <1>3. current' \in Optional(Items)
    BY Fields DEF SetKey
  <1>. QED
    BY <1>1, <1>2, <1>3, Vars, TypesKept, ThreadsStay DEF TInv, SetKey, revisits, threads, files

LEMMA LookAheadTyped ==
  ASSUME TInv, LookAhead PROVE TInv'
  <1>1. main.item \in Items /\ args' = args /\ main.pc = "digest"
    BY AtWork DEF LookAhead, Primary
  <1>2. ahead.cache[main.item].digest \in Optional(Nat) /\ version[main.item] \in Nat
    BY <1>1, Vars, Numbers DEF AheadStates, AheadFields, Hashes, Optional
  <1>3. PICK p \in {"await", "send"}, o \in Optional(Nat) :
          main' = [main EXCEPT !.checked = version[main.item], !.pc = p, !.override = o]
    <2>1. None \in Optional(Nat)
      BY DEF Optional
    <2>. QED
      BY <1>2, <2>1 DEF LookAhead
  <1>4. main' \in MainStates
    BY <1>2, <1>3, Vars DEF MainStates, MainPcs, Optional
  <1>5. MainPhased'
    <2>1. /\ main'.pc = p /\ main'.item = main.item /\ main'.todo = main.todo
          /\ main'.round = main.round /\ main'.result = main.result
          /\ main'.entry = main.entry /\ main'.draining = main.draining /\ main'.exit = main.exit
      BY <1>3, Vars DEF MainStates
    <2>. QED
      BY <1>1, <2>1, Vars DEF MainPhased, Primary
  <1>6. ahead' \in AheadStates
    <2>1. NotHashed \in Hashes
      BY DEF NotHashed, Hashes
    <2>2. ahead' = ahead \/ ahead' = [ahead EXCEPT !.cache[main.item] = NotHashed]
      BY DEF LookAhead
    <2>. DEFINE a == ahead.cache
                c == [a EXCEPT ![main.item] = NotHashed]
    <2>3. a \in [Items -> Hashes]
      BY Vars DEF AheadStates, AheadFields
    <2>4. c \in [Items -> Hashes]
      BY <2>1, <2>3
    <2>5. ahead' = ahead \/ ahead' = [ahead EXCEPT !.cache = c]
      BY <2>2
    <2>. HIDE DEF c
    <2>. QED
      BY <2>4, <2>5, Vars DEF AheadStates, AheadFields
  <1>. QED
    BY <1>4, <1>5, <1>6, Vars, TypesKept, ThreadsStay DEF TInv, LookAhead, revisits, threads

LEMMA AwaitTyped ==
  ASSUME TInv, Await PROVE TInv'
  <1>1. main.item \in Items /\ args' = args /\ main.pc = "await"
    BY AtWork DEF Await, Primary
  <1>2. ahead.cache[main.item].digest \in Optional(Nat)
    BY <1>1, Vars DEF AheadStates, AheadFields, Hashes, Optional
  <1>3. PICK o \in Optional(Nat) : main' = [main EXCEPT !.pc = "send", !.override = o]
    <2>1. main' = [main EXCEPT !.pc = "send"] =>
            main' = [main EXCEPT !.pc = "send", !.override = main.override]
      BY Vars DEF MainStates
    <2>. QED
      BY <1>2, <2>1, Fields DEF Await
  <1>4. main' \in MainStates
    BY <1>3, Vars DEF MainStates, MainPcs, Optional, Exits
  <1>5. MainPhased'
    <2>1. /\ main'.pc = "send" /\ main'.item = main.item /\ main'.todo = main.todo
          /\ main'.round = main.round /\ main'.result = main.result
          /\ main'.entry = main.entry /\ main'.draining = main.draining /\ main'.exit = main.exit
      BY <1>3, Vars DEF MainStates
    <2>. QED
      BY <1>1, <2>1, Vars DEF MainPhased, Primary
  <1>. QED
    BY <1>4, <1>5, Vars, TypesKept, ThreadsStay DEF TInv, Await, revisits, threads, files

LEMMA SendPrimaryTyped ==
  ASSUME TInv, SendPrimary PROVE TInv'
  <1>1. main.item \in Items /\ args' = args /\ main.pc = "send"
    BY AtWork DEF SendPrimary, Primary
  <1>2. PICK r \in Results :
          /\ \/ Sends(TRUE, main.item, r, active')
             \/ r = "denied" /\ main.item \in args.denied /\ active' = active
          /\ main' = [main EXCEPT !.pc = "release", !.result = r]
          /\ IF r = "denied" THEN fate' = [fate EXCEPT ![main.item] = r] ELSE Ended(main.item, r)
    BY DEF SendPrimary, Results
  <1>3. main' \in MainStates
    BY <1>2, Vars DEF MainStates, MainPcs, Optional
  <1>4. r = "denied" => main.item \in args.denied
    BY <1>2 DEF Sends, Ends
  <1>5. MainPhased'
    <2>1. /\ main'.pc = "release" /\ main'.item = main.item /\ main'.todo = main.todo
          /\ main'.round = main.round /\ main'.result = r
          /\ main'.entry = main.entry /\ main'.draining = main.draining /\ main'.exit = main.exit
      BY <1>2, Vars DEF MainStates
    <2>. QED
      BY <1>1, <1>4, <2>1, Vars, Numbers DEF MainPhased, Primary
  <1>6. active' \in BOOLEAN
    BY <1>2, Vars DEF Sends, AutoFeedback
  <1>7. fate' \in [Items -> Fates]
    BY <1>2, EndedTyped, Vars DEF Fates
  <1>. QED
    BY <1>3, <1>5, <1>6, <1>7, Vars, TypesKept, ThreadsStay
    DEF TInv, SendPrimary, revisits, threads, files

LEMMA ReleaseKeyTyped ==
  ASSUME TInv, ReleaseKey PROVE TInv'
  <1>1. main' \in MainStates
    BY Vars DEF ReleaseKey, MainStates, MainPcs, Optional
  <1>2. MainPhased'
    BY Vars DEF ReleaseKey, MainPhased, Primary, MainStates
  <1>. QED
    BY <1>1, <1>2, Vars, TypesKept, ThreadsStay
    DEF TInv, ReleaseKey, revisits, threads, files, Optional

LEMMA HaltWorkerTyped ==
  ASSUME TInv, HaltWorker PROVE TInv'
  <1>1. main' \in MainStates
    BY Vars DEF HaltWorker, MainStates, MainPcs, Optional, Exits
  <1>2. MainPhased'
    BY Vars DEF HaltWorker, MainPhased, Primary, MainStates
  <1>3. halt' \in BOOLEAN
    BY Vars DEF HaltWorker
  <1>. QED
    BY <1>1, <1>2, <1>3, Vars, TypesKept, ThreadsStay DEF TInv, HaltWorker, revisits, files

LEMMA JoinTyped ==
  ASSUME TInv, Join PROVE TInv'
  <1>1. /\ main.pc = "join" /\ args' = args
        /\ main.todo \in Seq(Items) /\ Tail(main.todo) \in Seq(Items)
        /\ main.result \in Results /\ ~main.draining /\ main.entry = NoEntry /\ main.exit = None
    BY AtWork, Vars, Fields DEF Join, Primary, MainPhased, Optional
  <1>2. CASE main.result = "raised"
    <2>1. main' = [main EXCEPT !.pc = "done", !.exit = "raised"]
      BY <1>2 DEF Join
    <2>2. main' \in MainStates
      BY <2>1, Vars DEF MainStates, MainPcs, Optional, Exits
    <2>3. MainPhased'
      BY <1>1, <1>2, <2>1, Vars DEF MainPhased, Primary, MainStates, Join
    <2>. QED
      BY <2>2, <2>3, Vars, TypesKept, ThreadsStay DEF TInv, Join, revisits, files, Optional
  <1>3. CASE main.result = "denied"
    <2>1. main' = [main EXCEPT !.pc = "item", !.todo = Tail(@), !.result = None]
      BY <1>3 DEF Join
    <2>2. main' \in MainStates
      <3>1. None \in Optional(Results) /\ "item" \in MainPcs
        BY DEF Optional, MainPcs
      <3>2. main \in MainStates /\ Tail(main.todo) \in Seq(Items)
        BY <1>1, MainTyped
      <3>. QED
        BY <2>1, <3>1, <3>2 DEF MainStates
    <2>3. MainPhased'
      <3>1. /\ main'.pc = "item" /\ main'.round = main.round /\ main'.result = None
            /\ main'.entry = NoEntry /\ main'.draining = FALSE /\ main'.exit = None
        BY <1>1, <2>1, Vars DEF MainStates
      <3>. QED
        BY <1>1, <3>1, Vars, Numbers DEF MainPhased, Primary, Results
    <2>. QED
      BY <2>2, <2>3, Vars, TypesKept, ThreadsStay DEF TInv, Join, revisits, files, Optional
  <1>4. CASE main.result \notin {"raised", "denied"}
    <2>1. main' = [main EXCEPT !.pc = "account"]
      BY <1>4 DEF Join
    <2>2. main' \in MainStates
      BY <2>1, Vars DEF MainStates, MainPcs, Optional, Exits
    <2>3. MainPhased'
      BY <1>1, <1>4, <2>1, Vars DEF MainPhased, Primary, MainStates, Results, Join
    <2>. QED
      BY <2>2, <2>3, Vars, TypesKept, ThreadsStay DEF TInv, Join, revisits, files, Optional
  <1>. QED
    BY <1>2, <1>3, <1>4

LEMMA AccountTyped ==
  ASSUME TInv, Account PROVE TInv'
  <1>1. main.item \in Items /\ args' = args /\ main.pc = "account" /\ main.result # "denied"
    BY AtWork, Vars DEF Account, Primary, MainPhased
  <1>2. main' = [main EXCEPT !.pc = "between", !.result = None]
    BY DEF Account
  <1>3. main' \in MainStates
    BY <1>2, Vars DEF MainStates, MainPcs, Optional
  <1>4. MainPhased'
    <2>1. /\ main'.pc = "between" /\ main'.item = main.item /\ main'.todo = main.todo
          /\ main'.round = main.round /\ main'.result = None
          /\ main'.entry = main.entry /\ main'.draining = main.draining /\ main'.exit = main.exit
      BY <1>2, Vars DEF MainStates
    <2>. QED
      BY <1>1, <2>1, Vars, Numbers DEF MainPhased, Primary, Results
  <1>5. queue' \in Seq(Tickets) /\ keys' \in SUBSET Items
    <2>1. CASE RevisitEnabled /\ Enqueue(main.item)
      <3>1. Entry(main.item) \in Tickets
        BY <1>1, <2>1, TicketFacts, Numbers DEF RevisitEnabled
      <3>. QED
        <4>1. <<Entry(main.item)>> \o queue \in Seq(Tickets)
          BY <3>1, Vars, QueueTyped
        <4>. QED
          BY <1>1, <2>1, <4>1, Vars DEF Enqueue
    <2>2. CASE queue' = queue /\ keys' = keys
      BY <2>2, Vars
    <2>. QED
      BY <2>1, <2>2 DEF Account, revisits
  <1>6. failed' \in Nat /\ active' \in BOOLEAN
    <2>1. failed' = failed \/ failed' = failed + 1
      BY DEF Account, revisits
    <2>2. active' \in BOOLEAN
      BY Vars DEF Account, Refreshed
    <2>. QED
      BY <2>1, <2>2, Vars
  <1>7. counts' \in [Items -> Nat]
    BY <1>1, Vars DEF Account
  <1>. QED
    BY <1>3, <1>4, <1>5, <1>6, <1>7, Vars, TypesKept, ThreadsStay DEF TInv, Account, threads, files

\* Between two files, and at the end: the attempts at the queue as it is now.
LEMMA AttemptsTyped ==
  ASSUME TInv, NEW next \in MainStates, Attempts(next)
  PROVE  /\ active' \in BOOLEAN
         /\ main' \in MainStates /\ main'.pc \in {next.pc, "attempts"}
         /\ main'.todo = next.todo /\ main'.item = next.item
         /\ main'.result = next.result /\ main'.round = next.round /\ main'.entry = next.entry
         /\ main'.draining = next.draining /\ main'.exit = next.exit
         /\ main'.checked = next.checked /\ main'.override = next.override
  <1>1. active' \in BOOLEAN
    BY Vars DEF Attempts, Refreshed
  <1>2. CASE main' = next
    BY <1>1, <1>2
  <1>3. CASE main' = [next EXCEPT !.pc = "attempts", !.left = Len(queue), !.gain = 0]
    <2>1. Len(queue) \in Nat /\ 0 \in Nat
      BY Vars
    <2>. QED
      BY <1>1, <1>3, <2>1 DEF MainStates, MainPcs
  <1>. QED
    BY <1>2, <1>3 DEF Attempts

LEMMA BetweenTyped ==
  ASSUME TInv, Between PROVE TInv'
  <1>. DEFINE next == [main EXCEPT !.pc = "item", !.todo = Tail(@), !.item = None]
  <1>1. /\ main.pc = "between" /\ args' = args /\ Tail(main.todo) \in Seq(Items)
        /\ ~main.draining /\ main.entry = NoEntry /\ main.exit = None /\ main.result # "denied"
    BY AtWork, Vars DEF Between, Primary, MainPhased
  <1>2. /\ next \in MainStates /\ next.pc = "item" /\ next.result = main.result
        /\ next.round = main.round
        /\ next.entry = NoEntry /\ ~next.draining /\ next.exit = None
    <2>1. None \in Optional(Items) /\ "item" \in MainPcs
      BY DEF Optional, MainPcs
    <2>2. main \in MainStates /\ Tail(main.todo) \in Seq(Items)
      BY <1>1, MainTyped
    <2>3. next \in MainStates
      BY <2>1, <2>2 DEF MainStates
    <2>4. /\ next.pc = "item" /\ next.result = main.result /\ next.round = main.round
          /\ next.entry = main.entry /\ next.draining = main.draining /\ next.exit = main.exit
      BY <2>2 DEF MainStates
    <2>. QED
      BY <1>1, <2>3, <2>4
  <1>3. Attempts(next) \/ (main' = next /\ active' = active)
    BY DEF Between
  <1>. HIDE DEF next
  <1>4. active' \in BOOLEAN
    BY <1>2, <1>3, Vars, AttemptsTyped
  <1>5. /\ main' \in MainStates /\ main'.pc \in {"item", "attempts"}
        /\ main'.result = main.result /\ main'.round = main.round
        /\ main'.entry = NoEntry /\ ~main'.draining /\ main'.exit = None
    BY <1>2, <1>3, AttemptsTyped
  <1>6. MainPhased'
    BY <1>1, <1>5, Vars DEF MainPhased, Primary
  <1>. QED
    BY <1>4, <1>5, <1>6, Vars, TypesKept, ThreadsStay DEF TInv, Between, revisits, threads, files

LEMMA DrainTyped ==
  ASSUME TInv, Drain PROVE TInv'
  <1>. DEFINE next == [main EXCEPT !.pc = "finish", !.draining = TRUE]
  <1>1. /\ main.pc = "drain" /\ args' = args /\ main.todo = <<>>
        /\ main.entry = NoEntry /\ main.exit = None /\ main.result # "denied"
    BY Vars DEF Drain, MainPhased
  <1>2. /\ next \in MainStates /\ next.pc = "finish" /\ next.result = main.result
        /\ next.round = main.round /\ next.todo = <<>>
        /\ next.entry = NoEntry /\ next.exit = None
    BY <1>1, Vars DEF MainStates, MainPcs
  <1>3. Attempts(next) \/ (main' = next /\ active' = active)
    BY DEF Drain
  <1>. HIDE DEF next
  <1>4. active' \in BOOLEAN
    BY <1>2, <1>3, Vars, AttemptsTyped
  <1>5. /\ main' \in MainStates /\ main'.pc \in {"finish", "attempts"}
        /\ main'.result = main.result /\ main'.round = main.round /\ main'.todo = <<>>
        /\ main'.entry = NoEntry /\ main'.exit = None
    BY <1>2, <1>3, AttemptsTyped
  <1>6. MainPhased'
    BY <1>1, <1>5, Vars DEF MainPhased, Primary
  <1>. QED
    BY <1>4, <1>5, <1>6, Vars, TypesKept, ThreadsStay DEF TInv, Drain, revisits, threads, files

LEMMA TakeEntryTyped ==
  ASSUME TInv, TakeEntry PROVE TInv'
  <1>1. main.pc = "attempts" /\ args' = args /\ main.left > 0 /\ main.left - 1 \in Nat
    BY Fields DEF TakeEntry
  <1>2. Head(queue) \in Tickets /\ queue' \in Seq(Tickets)
    BY Vars, QueueTyped DEF TakeEntry
  <1>3. main' = [main EXCEPT !.pc = "attempt", !.entry = Head(queue), !.left = @ - 1]
    BY DEF TakeEntry
  <1>4. main' \in MainStates
    BY <1>1, <1>2, <1>3, Vars DEF MainStates, MainPcs, TicketOrNone
  <1>5. MainPhased'
    <2>1. /\ main'.pc = "attempt" /\ main'.entry = Head(queue) /\ main'.todo = main.todo
          /\ main'.round = main.round /\ main'.result = main.result
          /\ main'.draining = main.draining /\ main'.exit = main.exit
      BY <1>3, <1>2, Vars DEF MainStates
    <2>. QED
      BY <1>1, <1>2, <2>1, Vars, TypesStay DEF MainPhased, Primary
  <1>. QED
    BY <1>2, <1>4, <1>5, Vars, TypesKept, ThreadsStay DEF TInv, TakeEntry, threads, files

LEMMA RevisitTyped ==
  ASSUME TInv, Revisit PROVE TInv'
  <1>1. main.pc = "attempt" /\ args' = args /\ main.entry \in Tickets /\ main.result # "denied"
    BY Vars DEF Revisit, MainPhased
  <1>2. PICK r \in Results :
          /\ Sends(FALSE, main.entry.item, r, active')
          /\ Attempted(main.entry, r) /\ Ended(main.entry.item, r)
          /\ \/ main' = [main EXCEPT !.pc = "done", !.exit = "raised"]
             \/ \E g \in Nat :
                  main' = [main EXCEPT !.pc = "attempts", !.entry = NoEntry, !.gain = g]
    <2>1. main.gain \in Nat /\ main.gain + 1 \in Nat
      BY Fields
    <2>. QED
      BY <2>1 DEF Revisit, Results
  <1>3. main' \in MainStates
    <2>1. NoEntry \in TicketOrNone /\ "raised" \in Optional(Exits)
      BY DEF TicketOrNone, Optional, Exits
    <2>. QED
      <3>1. main \in MainStates /\ "done" \in MainPcs /\ "attempts" \in MainPcs
        BY MainTyped DEF MainPcs
      <3>2. CASE main' = [main EXCEPT !.pc = "done", !.exit = "raised"]
        BY <2>1, <3>1, <3>2 DEF MainStates
      <3>3. ASSUME NEW g \in Nat,
                   main' = [main EXCEPT !.pc = "attempts", !.entry = NoEntry, !.gain = g]
            PROVE  main' \in MainStates
        BY <2>1, <3>1, <3>3 DEF MainStates
      <3>. QED
        BY <1>2, <3>2, <3>3
  <1>4. MainPhased'
    <2>1. /\ main'.pc \in {"done", "attempts"} /\ main'.todo = main.todo
          /\ main'.round = main.round /\ main'.result = main.result
          /\ main'.draining = main.draining
          /\ main'.pc = "attempts" => main'.entry = NoEntry /\ main'.exit = main.exit
      BY <1>2, Vars DEF MainStates
    <2>2. NoEntry' = NoEntry
      BY DEF NoEntry
    <2>. QED
      BY <1>1, <2>1, <2>2, Vars, TypesStay DEF MainPhased, Primary
  <1>5. active' \in BOOLEAN
    BY <1>2, Vars DEF Sends, AutoFeedback
  <1>6. /\ queue' \in Seq(Tickets) /\ keys' \in SUBSET Items /\ failed' \in Nat
        /\ fate' \in [Items -> Fates]
    BY <1>1, <1>2, AttemptedTyped, EndedTyped
  <1>. QED
    BY <1>3, <1>4, <1>5, <1>6, Vars, TypesKept, ThreadsStay DEF TInv, Revisit, threads, files

LEMMA AttemptsOverTyped ==
  ASSUME TInv, AttemptsOver PROVE TInv'
  <1>1. main.pc = "attempts" /\ args' = args
    BY DEF AttemptsOver
  <1>2. PICK p \in {"item", "drain", "finish"} :
          /\ main' = [main EXCEPT !.left = 0, !.pc = p]
          /\ IF main.draining THEN p # "item" ELSE p = "item"
    BY DEF AttemptsOver
  <1>3. main' \in MainStates
    BY <1>2, Vars DEF MainStates, MainPcs
  <1>4. MainPhased'
    <2>1. /\ main'.pc = p /\ main'.todo = main.todo
          /\ main'.round = main.round /\ main'.result = main.result
          /\ main'.entry = main.entry /\ main'.draining = main.draining /\ main'.exit = main.exit
      BY <1>2, Vars DEF MainStates
    <2>. QED
      BY <1>1, <1>2, <2>1, Vars DEF MainPhased, Primary
  <1>. QED
    BY <1>3, <1>4, Vars, TypesKept, ThreadsStay DEF TInv, AttemptsOver, revisits, threads, files

LEMMA EndRoundTyped ==
  ASSUME TInv, EndRound PROVE TInv'
  <1>1. main.pc = "item" /\ args' = args /\ main.todo = <<>>
    BY DEF EndRound
  <1>2. active' \in BOOLEAN
    BY Vars DEF EndRound, Refreshed
  <1>3. PICK p \in {"finish", "round", "drain"} :
          /\ main' = [main EXCEPT !.pc = p]
          /\ p = "round" /\ args.rounds > 0 => main.round < args.rounds
    BY DEF EndRound
  <1>4. main' \in MainStates
    BY <1>3, Vars DEF MainStates, MainPcs
  <1>5. MainPhased'
    <2>1. /\ main'.pc = p /\ main'.todo = main.todo
          /\ main'.round = main.round /\ main'.result = main.result
          /\ main'.entry = main.entry /\ main'.draining = main.draining /\ main'.exit = main.exit
      BY <1>3, Vars DEF MainStates
    <2>. QED
      BY <1>1, <1>3, <2>1, Vars DEF MainPhased, Primary
  <1>. QED
    BY <1>2, <1>4, <1>5, Vars, TypesKept, ThreadsStay DEF TInv, EndRound, revisits, threads, files

LEMMA FinishTyped ==
  ASSUME TInv, Finish PROVE TInv'
  <1>1. main.pc = "finish" /\ args' = args /\ main.result # "denied"
    BY Vars DEF Finish, MainPhased
  <1>2. PICK x \in {"0", "1"} : main' = [main EXCEPT !.pc = "done", !.exit = x]
    BY DEF Finish
  <1>3. main' \in MainStates
    BY <1>2, Vars DEF MainStates, MainPcs, Optional, Exits
  <1>4. MainPhased'
    <2>1. /\ main'.pc = "done" /\ main'.todo = main.todo
          /\ main'.round = main.round /\ main'.result = main.result
          /\ main'.entry = main.entry /\ main'.draining = main.draining
      BY <1>2, Vars DEF MainStates
    <2>. QED
      BY <1>1, <2>1, Vars DEF MainPhased, Primary
  <1>5. failed' \in Nat /\ queue' \in Seq(Tickets) /\ keys' \in SUBSET Items
    BY Vars DEF Finish, Left
  <1>. QED
    BY <1>3, <1>4, <1>5, Vars, TypesKept, ThreadsStay DEF TInv, Finish, threads, files

-----------------------------------------------------------------------------
(* Types: the other threads, signals and crashes. *)

\* A step of one revisit worker.
LEMMA ThreadMoves ==
  ASSUME TInv, args' = args, NEW w \in Workers,
         NEW p \in {"off", "check", "take"} \cup Holding, NEW e \in TicketOrNone,
         (p \in Holding) <=> (e \in Tickets),
         worker' = [worker EXCEPT ![w] = [pc |-> p, entry |-> e]]
  PROVE  worker' \in [Workers -> ThreadStates] /\ ThreadsPhased'
  <1>1. worker' \in [Workers -> ThreadStates]
    BY Vars DEF ThreadStates
  <1>2. Tickets' = Tickets
    BY TypesStay
  <1>3. \A v \in Workers : (worker'[v].pc \in Holding) <=> (worker'[v].entry \in Tickets)
    BY Vars DEF ThreadsPhased
  <1>. QED
    BY <1>1, <1>2, <1>3 DEF ThreadsPhased

LEMMA ThreadFields ==
  ASSUME TInv, NEW w \in Workers
  PROVE  /\ worker[w].pc \in {"off", "check", "take"} \cup Holding
         /\ worker[w].entry \in TicketOrNone
         /\ worker[w] = [pc |-> worker[w].pc, entry |-> worker[w].entry]
         /\ (worker[w].pc \in Holding) <=> (worker[w].entry \in Tickets)
         /\ worker[w].pc \notin Holding => worker[w].entry = NoEntry
         /\ NoEntry \in TicketOrNone /\ NoEntry \notin Tickets
  <1>1. worker[w] \in ThreadStates
    BY Vars
  <1>2. (worker[w].pc \in Holding) <=> (worker[w].entry \in Tickets)
    BY Vars DEF ThreadsPhased
  <1>. QED
    BY <1>1, <1>2, TicketFacts DEF ThreadStates, TicketOrNone

LEMMA WorkerCheckTyped ==
  ASSUME TInv, NEW w \in Workers, WorkerCheck(w) PROVE TInv'
  <1>1. worker[w].pc = "check" /\ args' = args /\ main' = main
    BY DEF WorkerCheck
  <1>2. worker[w].entry = NoEntry
    BY <1>1, ThreadFields DEF Holding
  <1>3. PICK p \in {"off", "check", "take"} : worker' = [worker EXCEPT ![w].pc = p]
    BY DEF WorkerCheck
  <1>4. worker' = [worker EXCEPT ![w] = [pc |-> p, entry |-> NoEntry]]
    <2>1. [worker[w] EXCEPT !.pc = p] = [pc |-> p, entry |-> NoEntry]
      BY <1>2, Vars DEF ThreadStates
    <2>. QED
      BY <1>3, <2>1
  <1>5. p \notin Holding
    BY DEF Holding
  <1>6. worker' \in [Workers -> ThreadStates] /\ ThreadsPhased'
    BY <1>1, <1>4, <1>5, ThreadFields, ThreadMoves
  <1>7. active' \in BOOLEAN
    BY Vars DEF WorkerCheck, Refreshed
  <1>. QED
    BY <1>1, <1>6, <1>7, Vars, TypesKept, MainStays DEF TInv, WorkerCheck, revisits, files

LEMMA WorkerTakeTyped ==
  ASSUME TInv, NEW w \in Workers, WorkerTake(w) PROVE TInv'
  <1>1. worker[w].pc = "take" /\ args' = args /\ main' = main
    BY DEF WorkerTake
  <1>2. CASE stop \/ queue = <<>>
    <2>1. worker' = [worker EXCEPT ![w].pc = "check"] /\ queue' = queue
      BY <1>2 DEF WorkerTake
    <2>2. worker[w].entry = NoEntry
      BY <1>1, ThreadFields DEF Holding
    <2>3. [worker[w] EXCEPT !.pc = "check"] = [pc |-> "check", entry |-> NoEntry]
      BY <2>2, Vars DEF ThreadStates
    <2>4. worker' = [worker EXCEPT ![w] = [pc |-> "check", entry |-> NoEntry]]
      BY <2>1, <2>3
    <2>5. worker' \in [Workers -> ThreadStates] /\ ThreadsPhased'
      BY <1>1, <2>4, ThreadFields, ThreadMoves DEF Holding
    <2>. QED
      BY <1>1, <2>1, <2>5, Vars, TypesKept, MainStays DEF TInv, WorkerTake, files
  <1>3. CASE ~(stop \/ queue = <<>>)
    <2>1. Head(queue) \in Tickets /\ queue' \in Seq(Tickets)
      <3>1. queue \in Seq(Tickets) /\ queue # <<>> /\ queue' = Tail(queue)
        BY <1>3, Vars DEF WorkerTake
      <3>. QED
        BY <3>1, QueueTyped
    <2>2. PICK p \in {"blocked", "send"} :
            worker' = [worker EXCEPT ![w] = [pc |-> p, entry |-> Head(queue)]]
      BY <1>3 DEF WorkerTake
    <2>3. worker' \in [Workers -> ThreadStates] /\ ThreadsPhased'
      BY <1>1, <2>1, <2>2, ThreadMoves DEF Holding, TicketOrNone
    <2>. QED
      BY <1>1, <2>1, <2>3, Vars, TypesKept, MainStays DEF TInv, WorkerTake, files
  <1>. QED
    BY <1>2, <1>3

LEMMA WorkerReturnTyped ==
  ASSUME TInv, NEW w \in Workers, WorkerReturn(w) PROVE TInv'
  <1>1. worker[w].pc = "blocked" /\ args' = args /\ main' = main
    BY DEF WorkerReturn
  <1>2. worker[w].entry \in Tickets
    BY <1>1, ThreadFields DEF Holding
  <1>3. queue' \in Seq(Tickets)
    BY <1>2, Vars, QueueTyped DEF WorkerReturn
  <1>4. worker' = [worker EXCEPT ![w] = [pc |-> "take", entry |-> NoEntry]]
    BY DEF WorkerReturn
  <1>5. worker' \in [Workers -> ThreadStates] /\ ThreadsPhased'
    BY <1>1, <1>4, ThreadFields, ThreadMoves DEF Holding
  <1>. QED
    BY <1>1, <1>3, <1>5, Vars, TypesKept, MainStays DEF TInv, WorkerReturn, files

LEMMA WorkerRevisitTyped ==
  ASSUME TInv, NEW w \in Workers, WorkerRevisit(w) PROVE TInv'
  <1>1. worker[w].pc = "send" /\ args' = args /\ main' = main /\ active' = active
    BY DEF WorkerRevisit
  <1>2. worker[w].entry \in Tickets
    BY <1>1, ThreadFields DEF Holding
  <1>3. PICK r \in Results :
          /\ Attempted(worker[w].entry, r) /\ Ended(worker[w].entry.item, r)
          /\ worker' = [worker EXCEPT ![w] =
               IF r = "raised" THEN [@ EXCEPT !.pc = "dead"]
               ELSE [pc |-> "check", entry |-> NoEntry]]
    BY DEF WorkerRevisit, Results
  <1>4. /\ queue' \in Seq(Tickets) /\ keys' \in SUBSET Items /\ failed' \in Nat
        /\ fate' \in [Items -> Fates]
    BY <1>2, <1>3, AttemptedTyped, EndedTyped
  <1>5. [worker[w] EXCEPT !.pc = "dead"] = [pc |-> "dead", entry |-> worker[w].entry]
    BY Vars DEF ThreadStates
  <1>6. worker' \in [Workers -> ThreadStates] /\ ThreadsPhased'
    <2>1. CASE r = "raised"
      <3>1. worker' = [worker EXCEPT ![w] = [pc |-> "dead", entry |-> worker[w].entry]]
        BY <1>3, <1>5, <2>1
      <3>. QED
        BY <1>1, <1>2, <3>1, ThreadFields, ThreadMoves DEF Holding
    <2>2. CASE r # "raised"
      <3>1. worker' = [worker EXCEPT ![w] = [pc |-> "check", entry |-> NoEntry]]
        BY <1>3, <2>2
      <3>. QED
        BY <1>1, <3>1, ThreadFields, ThreadMoves DEF Holding
    <2>. QED
      BY <2>1, <2>2
  <1>. QED
    BY <1>1, <1>4, <1>6, Vars, TypesKept, MainStays DEF TInv, WorkerRevisit, files

LEMMA PrefetchTyped ==
  ASSUME TInv, PrefetchStep PROVE TInv'
  <1>1. args' = args /\ main' = main /\ worker' = worker
    BY DEF PrefetchStep, PrefetchTake, PrefetchStat, PrefetchHash, threads
  <1>2. CASE PrefetchTake
    <2>1. ahead.todo \in Seq(Items)
      BY Vars DEF AheadStates, AheadFields
    <2>2. Head(ahead.todo) \in Items /\ Tail(ahead.todo) \in Seq(Items)
      BY <1>2, <2>1, QueueTyped DEF PrefetchTake
    <2>3. ahead' \in AheadStates
      BY <1>2, <2>2, Vars DEF PrefetchTake, AheadStates, AheadFields, Optional
    <2>. QED
      BY <1>1, <1>2, <2>3, Vars, TypesKept, MainStays, ThreadsStay
      DEF TInv, PrefetchTake, revisits, threads
  <1>3. CASE PrefetchStat
    <2>1. CASE ahead' = Idle(ahead)
      <3>1. ahead' \in AheadStates
        BY <2>1, Vars DEF Idle, AheadStates, AheadFields, Optional
      <3>. QED
        BY <1>1, <1>3, <3>1, Vars, TypesKept, MainStays, ThreadsStay
        DEF TInv, PrefetchStat, revisits, threads
    <2>2. CASE ahead' = [ahead EXCEPT !.pc = "hash", !.stat = version[ahead.item]]
      <3>1. ahead.item \in Items
        BY <1>3, Vars DEF PrefetchStat, AheadStates
      <3>2. version[ahead.item] \in Nat
        BY <3>1, Vars, Numbers
      <3>3. ahead' \in AheadStates
        BY <2>2, <3>1, <3>2, Vars DEF AheadStates, AheadFields, Optional
      <3>. QED
        BY <1>1, <1>3, <3>3, Vars, TypesKept, MainStays, ThreadsStay
        DEF TInv, PrefetchStat, revisits, threads
    <2>. QED
      BY <1>3, <2>1, <2>2 DEF PrefetchStat
  <1>4. CASE PrefetchHash
    <2>1. ahead.item \in Items /\ ahead.stat \in Optional(Nat)
      BY <1>4, Vars DEF PrefetchHash, AheadStates, AheadFields
    <2>. DEFINE h == [stat |-> ahead.stat, digest |-> version[ahead.item]]
                a == ahead.cache
                c == [a EXCEPT ![ahead.item] = h]
                b == [ahead EXCEPT !.cache = c]
    <2>2. h \in Hashes /\ a \in [Items -> Hashes]
      <3>1. version[ahead.item] \in Nat
        BY <2>1, Vars, Numbers
      <3>. QED
        BY <2>1, <3>1, Vars DEF Hashes, Optional, AheadStates, AheadFields
    <2>3. ahead' = Idle(b)
      BY <1>4 DEF PrefetchHash
    <2>. HIDE DEF h, a
    <2>4. c \in [Items -> Hashes]
      BY <2>2
    <2>. HIDE DEF c
    <2>5. b \in AheadFields
      BY <2>4, Vars DEF AheadStates, AheadFields
    <2>. HIDE DEF b
    <2>6. ahead' \in AheadStates
      BY <2>3, <2>5 DEF Idle, AheadStates, AheadFields, Optional
    <2>. QED
      BY <1>1, <1>4, <2>6, Vars, TypesKept, MainStays, ThreadsStay
      DEF TInv, PrefetchHash, revisits, threads
  <1>. QED
    BY <1>2, <1>3, <1>4 DEF PrefetchStep

LEMMA SignalTyped ==
  ASSUME TInv, Signal PROVE TInv'
  BY Vars, TypesKept, MainStays, ThreadsStay DEF TInv, Signal, revisits, threads, files

LEMMA EditTyped ==
  ASSUME TInv, NEW i \in Items, Edit(i) PROVE TInv'
  <1>1. version' \in [Items -> 0 .. args.edits]
    <2>1. version[i] + 1 \in 0 .. args.edits
      BY Vars, Numbers DEF Edit
    <2>. QED
      BY <2>1, Vars DEF Edit
  <1>. QED
    BY <1>1, Vars, TypesKept, MainStays, ThreadsStay DEF TInv, Edit, revisits, threads

\* What a start leaves: used for the first one and after a crash.
LEMMA FreshTyped ==
  ASSUME args \in RunSet
  PROVE  /\ Fresh \in MainStates /\ NothingAhead \in AheadStates
         /\ [w \in Workers |-> [pc |-> "off", entry |-> NoEntry]] \in [Workers -> ThreadStates]
         /\ NoEntry \notin Tickets /\ None \notin Results
         /\ args.files \in Nat /\ args.rounds \in Nat /\ args.edits \in Nat
         /\ Items \in SUBSET Nat
  <1>1. args.files \in Nat /\ args.rounds \in Nat /\ args.edits \in Nat
    BY DEF RunSet
  <1>2. Items \in SUBSET Nat
    BY <1>1 DEF Items
  <1>3. None \notin Nat /\ None \notin Results
    BY SyncAssumption
  <1>4. Fresh \in MainStates
    <2>1. <<>> \in Seq(Items)
      OBVIOUS
    <2>2. NoEntry \in TicketOrNone
      BY DEF TicketOrNone
    <2>. QED
      BY <2>1, <2>2 DEF Fresh, MainStates, MainPcs, Optional
  <1>5. NothingAhead \in AheadStates
    <2>1. [i \in Items |-> i] \in Seq(Items) /\ <<>> \in Seq(Items)
      BY <1>1 DEF Items
    <2>2. [i \in Items |-> NotHashed] \in [Items -> Hashes]
      BY DEF NotHashed, Hashes
    <2>. QED
      BY <2>1, <2>2 DEF NothingAhead, AheadStates, AheadFields, Optional
  <1>6. [w \in Workers |-> [pc |-> "off", entry |-> NoEntry]] \in [Workers -> ThreadStates]
    BY DEF ThreadStates, TicketOrNone
  <1>7. NoEntry \notin Tickets
    BY <1>2, <1>3 DEF NoEntry, Tickets
  <1>. QED
    BY <1>1, <1>2, <1>3, <1>4, <1>5, <1>6, <1>7

LEMMA InitTyped == Init => TInv
  <1>. SUFFICES ASSUME Init PROVE TInv
    OBVIOUS
  <1>1. args \in RunSet
    BY SyncAssumption DEF Init
  <1>2. counts \in [Items -> Nat] /\ version \in [Items -> 0 .. args.edits]
        /\ fate \in [Items -> Fates]
    BY <1>1, FreshTyped DEF Init, Fates
  <1>3. Typed
    <2>1. queue \in Seq(Tickets) /\ keys \in SUBSET Items /\ failed \in Nat
      BY DEF Init
    <2>2. current \in Optional(Items) /\ thread \in Optional(Workers)
          /\ active \in BOOLEAN /\ halt \in BOOLEAN /\ stop \in BOOLEAN
      BY DEF Init, Optional
    <2>3. main \in MainStates /\ worker \in [Workers -> ThreadStates] /\ ahead \in AheadStates
      BY <1>1, FreshTyped DEF Init
    <2>. QED
      BY <1>1, <1>2, <2>1, <2>2, <2>3 DEF Typed
  <1>4. MainPhased
    BY <1>1, FreshTyped DEF Init, MainPhased, Fresh, Primary, Results
  <1>5. ThreadsPhased
    BY <1>1, FreshTyped DEF Init, ThreadsPhased, Holding
  <1>. QED
    BY <1>3, <1>4, <1>5 DEF TInv

LEMMA CrashArgs ==
  ASSUME TInv, Crash
  PROVE  /\ args' \in RunSet /\ args'.files = args.files /\ args'.passes = args.passes
         /\ args'.edits = args.edits /\ args'.rounds = args.rounds
         /\ args'.feedback = args.feedback /\ args'.query = args.query
         /\ args'.denied = args.denied /\ Items' = Items
  <1>1. args \in RunSet /\ args.crashes - 1 \in Nat
    BY Vars, Numbers DEF Crash
  <1>2. args' = [args EXCEPT !.crashes = @ - 1]
    BY DEF Crash
  <1>3. /\ args' \in RunSet /\ args'.files = args.files /\ args'.passes = args.passes
        /\ args'.edits = args.edits /\ args'.rounds = args.rounds
        /\ args'.feedback = args.feedback /\ args'.query = args.query
        /\ args'.denied = args.denied
    BY <1>1, <1>2 DEF RunSet
  <1>. QED
    BY <1>3 DEF Items

LEMMA CrashTyped ==
  ASSUME TInv, Crash PROVE TInv'
  <1>1. args \in RunSet
    BY Vars
  <1>2. /\ args' \in RunSet /\ args'.files = args.files /\ args'.passes = args.passes
        /\ args'.edits = args.edits /\ args'.rounds = args.rounds
    BY CrashArgs
  <1>3. /\ Items' = Items /\ Tickets' = Tickets /\ MainStates' = MainStates
        /\ ThreadStates' = ThreadStates /\ AheadStates' = AheadStates
    BY <1>2, TypesStay
  <1>4. fate' \in [Items -> Fates]
    BY DEF Crash, Fates
  <1>5. Typed'
    <2>1. queue' \in Seq(Tickets) /\ keys' \in SUBSET Items /\ failed' \in Nat
      BY DEF Crash
    <2>2. current' \in Optional(Items) /\ thread' \in Optional(Workers)
          /\ active' \in BOOLEAN /\ halt' \in BOOLEAN /\ stop' \in BOOLEAN
      BY DEF Crash, Optional
    <2>3. main' \in MainStates /\ worker' \in [Workers -> ThreadStates] /\ ahead' \in AheadStates
      <3>1. main' = Fresh /\ ahead' = NothingAhead
            /\ worker' = [w \in Workers |-> [pc |-> "off", entry |-> NoEntry]]
        BY DEF Crash
      <3>. QED
        BY <1>1, <3>1, FreshTyped
    <2>4. counts' \in [Items -> Nat] /\ version' \in [Items -> 0 .. args.edits]
      BY Vars DEF Crash
    <2>. QED
      BY <1>2, <1>3, <1>4, <2>1, <2>2, <2>3, <2>4 DEF Typed, Optional
  <1>6. MainPhased'
    BY <1>1, <1>2, <1>3, FreshTyped DEF Crash, MainPhased, Fresh, Primary, Results
  <1>7. ThreadsPhased'
    BY <1>1, <1>3, FreshTyped DEF Crash, ThreadsPhased, Holding
  <1>. QED
    BY <1>5, <1>6, <1>7 DEF TInv

LEMMA NextTyped == TInv /\ [Next]_vars => TInv'
  <1>. SUFFICES ASSUME TInv, [Next]_vars PROVE TInv'
    OBVIOUS
  <1>1. ASSUME MainStep PROVE TInv'
    BY <1>1, BeginRoundTyped, NextItemTyped, StartWorkerTyped, SetKeyTyped, LookAheadTyped,
       AwaitTyped, SendPrimaryTyped, ReleaseKeyTyped, HaltWorkerTyped, JoinTyped, AccountTyped,
       BetweenTyped, TakeEntryTyped, RevisitTyped, AttemptsOverTyped, EndRoundTyped, DrainTyped,
       FinishTyped DEF MainStep
  <1>2. ASSUME NEW w \in Workers, WorkerStep(w) PROVE TInv'
    BY <1>2, WorkerCheckTyped, WorkerTakeTyped, WorkerReturnTyped, WorkerRevisitTyped
    DEF WorkerStep
  <1>3. CASE UNCHANGED vars
    BY <1>3, Vars, TypesKept, MainStays, ThreadsStay DEF TInv, vars, revisits, threads, files
  <1>. QED
    BY <1>1, <1>2, <1>3, PrefetchTyped, SignalTyped, EditTyped, CrashTyped DEF Next

LEMMA TypeInvariant == Spec => []TInv
  BY InitTyped, NextTyped, PTL DEF Spec

LEMMA TInvTypes == TInv => TypeOK
  <1>. SUFFICES ASSUME TInv PROVE TypeOK
    OBVIOUS
  <1>1. TicketOrNone \in SUBSET Entries /\ Tickets \in SUBSET Entries
    BY DEF TicketOrNone, Tickets, NoEntry, Entries
  <1>2. \A k \in DOMAIN queue : queue[k] \in Entries /\ queue[k].attempts < args.passes
    <2>1. \A k \in DOMAIN queue : queue[k] \in Tickets
      BY Vars
    <2>. QED
      BY <1>1, <2>1 DEF Tickets
  <1>3. worker \in [Workers -> [pc : {"off", "check", "take", "blocked", "send", "dead"},
                                entry : Entries]]
    BY <1>1, Vars DEF ThreadStates, Holding
  <1>4. main.entry \in Entries /\ main.exit \in Exits \cup {None} /\ main.pc \in MainPcs
    BY <1>1, Fields DEF Optional
  <1>5. ahead.cache \in [Items -> Hashes]
    BY Vars DEF AheadStates, AheadFields
  <1>6. args.rounds > 0 => main.round <= args.rounds
    BY Vars DEF MainPhased
  <1>. QED
    BY <1>2, <1>3, <1>4, <1>5, <1>6, Vars DEF TypeOK, MainPcs, Optional, Fates

\* The state keeps its types: an entry of the queue has attempts left, and the rounds keep
\* to their limit.
THEOREM TypeCorrect == Spec => []TypeOK
  BY TypeInvariant, TInvTypes, PTL

-----------------------------------------------------------------------------
(* The checksums computed ahead. *)

LEMMA HashedStays ==
  ASSUME TInv, Hashed, args'.files = args.files, ahead' = ahead,
         \A i \in Items : version'[i] \in Nat /\ version[i] <= version'[i],
         main'.checked = main.checked, main'.override = main.override,
         main'.pc = "await" => main.pc = "await"
  PROVE  Hashed'
  <1>1. Items' = Items
    BY DEF Items
  <1>2. ahead.pc = "hash" => ahead.item \in Items /\ version[ahead.item] \in Nat
    BY Vars, Numbers DEF AheadStates
  <1>3. ahead'.pc = "hash" => ahead'.stat \in Nat /\ ahead'.stat <= version'[ahead'.item]
    BY <1>2 DEF Hashed
  <1>. QED
    BY <1>1, <1>3 DEF Hashed, PrefetchSound

LEMMA VersionStays ==
  ASSUME TInv, version' = version
  PROVE  \A i \in Items : version'[i] \in Nat /\ version[i] <= version'[i]
  BY Vars, Numbers

\* Only three steps of the main thread have to do with checksums.
LEMMA UnhashedSteps ==
  ASSUME TInv, MainStep
  PROVE  \/ LookAhead \/ Await \/ ReleaseKey
         \/ /\ main'.checked = main.checked /\ main'.override = main.override
            /\ main'.pc # "await"
            /\ args' = args /\ ahead' = ahead /\ version' = version
  <1>. DEFINE Goal == /\ main'.checked = main.checked /\ main'.override = main.override
                      /\ main'.pc # "await"
                      /\ args' = args /\ ahead' = ahead /\ version' = version
  <1>1. ASSUME BeginRound \/ NextItem \/ StartWorker \/ SetKey \/ HaltWorker PROVE Goal
    BY <1>1, Vars DEF BeginRound, NextItem, StartWorker, SetKey, HaltWorker, files, MainStates
  <1>2. ASSUME SendPrimary PROVE Goal
    BY <1>2, Vars DEF SendPrimary, files, MainStates
  <1>3. ASSUME Join PROVE Goal
    BY <1>3, Vars DEF Join, files, MainStates
  <1>4. ASSUME Account PROVE Goal
    BY <1>4, Vars DEF Account, files, MainStates
  <1>5. ASSUME Between PROVE Goal
    <2>. DEFINE next == [main EXCEPT !.pc = "item", !.todo = Tail(@), !.item = None]
    <2>1. /\ next \in MainStates /\ next.pc = "item"
          /\ next.checked = main.checked /\ next.override = main.override
      <3>1. Tail(main.todo) \in Seq(Items)
        BY <1>5, AtWork DEF Between, Primary
      <3>. QED
        BY <3>1, Vars DEF MainStates, MainPcs, Optional
    <2>2. Attempts(next) \/ main' = next
      BY <1>5 DEF Between
    <2>. HIDE DEF next
    <2>3. main'.checked = main.checked /\ main'.override = main.override /\ main'.pc # "await"
      BY <2>1, <2>2, AttemptsTyped
    <2>. QED
      BY <1>5, <2>3 DEF Between, files
  <1>6. ASSUME Drain PROVE Goal
    <2>. DEFINE next == [main EXCEPT !.pc = "finish", !.draining = TRUE]
    <2>1. /\ next \in MainStates /\ next.pc = "finish"
          /\ next.checked = main.checked /\ next.override = main.override
      BY Vars DEF MainStates, MainPcs
    <2>2. Attempts(next) \/ main' = next
      BY <1>6 DEF Drain
    <2>. HIDE DEF next
    <2>3. main'.checked = main.checked /\ main'.override = main.override /\ main'.pc # "await"
      BY <2>1, <2>2, AttemptsTyped
    <2>. QED
      BY <1>6, <2>3 DEF Drain, files
  <1>7. ASSUME TakeEntry \/ AttemptsOver \/ EndRound \/ Finish PROVE Goal
    BY <1>7, Vars DEF TakeEntry, AttemptsOver, EndRound, Finish, files, MainStates
  <1>8. ASSUME Revisit PROVE Goal
    BY <1>8, Vars DEF Revisit, files, MainStates
  <1>. QED
    BY <1>1, <1>2, <1>3, <1>4, <1>5, <1>6, <1>7, <1>8 DEF MainStep

LEMMA LookAheadHashed ==
  ASSUME TInv, Hashed, LookAhead PROVE Hashed'
  <1>. DEFINE i == main.item
              now == version[i]
              a == ahead.cache
  <1>1. i \in Items /\ Items' = Items
    BY AtWork, TypesStay DEF LookAhead, Primary
  <1>2. now \in Nat /\ a \in [Items -> Hashes]
    BY <1>1, Vars, Numbers DEF AheadStates, AheadFields
  <1>3. /\ main'.checked = now
        /\ main'.override = IF Valid(i, now) THEN a[i].digest ELSE None
        /\ version' = version
    BY Vars DEF LookAhead, MainStates
  <1>4. ahead' = ahead \/ ahead' = [ahead EXCEPT !.cache = [a EXCEPT ![i] = NotHashed]]
    BY DEF LookAhead
  <1>5. /\ ahead'.pc = ahead.pc /\ ahead'.item = ahead.item /\ ahead'.stat = ahead.stat
        /\ \/ ahead'.cache = a
           \/ ahead'.cache = [a EXCEPT ![i] = NotHashed]
    <2>1. ahead \in AheadFields
      BY Vars DEF AheadStates
    <2>. HIDE DEF a, i
    <2>. QED
      BY <1>4, <2>1 DEF AheadFields, a
  <1>6. \A j \in Items : ahead'.cache[j] = a[j] \/ ahead'.cache[j] = NotHashed
    BY <1>1, <1>2, <1>5
  <1>7. Valid(i, now) => a[i].digest \in Nat /\ a[i].digest >= now
    BY <1>1, <1>2, Numbers DEF Hashed, Valid
  <1>8. NotHashed.stat = None
    BY DEF NotHashed
  <1>9. /\ ahead'.pc = "hash" => ahead'.stat \in Nat /\ ahead'.stat <= version'[ahead'.item]
        /\ \A j \in Items : ahead'.cache[j].stat # None =>
             ahead'.cache[j].digest \in Nat /\ ahead'.cache[j].digest >= ahead'.cache[j].stat
    BY <1>3, <1>5, <1>6, <1>8 DEF Hashed
  <1>10. /\ main'.override # None => main'.override >= main'.checked
         /\ main'.checked \in Nat
    BY <1>2, <1>3, <1>7
  <1>. QED
    BY <1>1, <1>9, <1>10 DEF Hashed, PrefetchSound

LEMMA AwaitHashed ==
  ASSUME TInv, Hashed, Await PROVE Hashed'
  <1>1. main.item \in Items /\ main.checked \in Nat
    BY AtWork DEF Await, Primary, Hashed
  <1>2. /\ main'.checked = main.checked /\ main'.pc = "send"
        /\ \/ main'.override = main.override
           \/ /\ ahead.cache[main.item].stat = main.checked
              /\ main'.override = ahead.cache[main.item].digest
    BY Vars DEF Await, MainStates, Valid
  <1>3. main'.override # None => main'.override >= main'.checked
    BY <1>1, <1>2, Numbers DEF Hashed, PrefetchSound
  <1>4. Items' = Items /\ ahead' = ahead /\ version' = version
    BY TypesStay DEF Await, files
  <1>. QED
    BY <1>1, <1>2, <1>3, <1>4 DEF Hashed, PrefetchSound

LEMMA PrefetchHashed ==
  ASSUME TInv, Hashed, PrefetchStep PROVE Hashed'
  <1>1. Items' = Items /\ main' = main /\ version' = version
    BY TypesStay DEF PrefetchStep, PrefetchTake, PrefetchStat, PrefetchHash
  <1>2. ahead \in AheadFields /\ (ahead.pc # "idle" => ahead.item \in Items)
    BY Vars DEF AheadStates
  <1>3. CASE PrefetchTake \/ PrefetchStat
    <2>1. /\ ahead'.cache = ahead.cache
          /\ ahead'.pc = "hash" => ahead'.stat = version[ahead.item] /\ ahead'.item = ahead.item
                                   /\ ahead.item \in Items
      BY <1>2, <1>3 DEF PrefetchTake, PrefetchStat, Idle, AheadFields
    <2>2. ahead'.pc = "hash" => ahead'.stat \in Nat /\ ahead'.stat <= version'[ahead'.item]
      BY <1>1, <2>1, Vars, Numbers
    <2>. QED
      BY <1>1, <2>1, <2>2 DEF Hashed, PrefetchSound
  <1>4. CASE PrefetchHash
    <2>. DEFINE h == [stat |-> ahead.stat, digest |-> version[ahead.item]]
                a == ahead.cache
                c == [a EXCEPT ![ahead.item] = h]
                b == [ahead EXCEPT !.cache = c]
    <2>1. ahead' = Idle(b) /\ ahead.pc = "hash"
      BY <1>4 DEF PrefetchHash
    <2>2. a \in [Items -> Hashes]
      BY <1>2 DEF AheadFields
    <2>3. h.digest \in Nat /\ h.digest >= h.stat
      BY <1>2, <2>1, Vars, Numbers DEF Hashed
    <2>. HIDE DEF h, a
    <2>4. c \in [Items -> Hashes] \/ \A j \in Items : c[j] = a[j] \/ c[j] = h
      BY <2>2
    <2>5. \A j \in Items : c[j] = a[j] \/ c[j] = h
      BY <2>2
    <2>. HIDE DEF c
    <2>6. ahead'.cache = c /\ ahead'.pc = "idle"
      BY <1>2, <2>1 DEF Idle, AheadFields
    <2>7. \A j \in Items : ahead'.cache[j].stat # None =>
            ahead'.cache[j].digest \in Nat /\ ahead'.cache[j].digest >= ahead'.cache[j].stat
      BY <2>3, <2>5, <2>6 DEF Hashed, a
    <2>. QED
      BY <1>1, <2>6, <2>7 DEF Hashed, PrefetchSound
  <1>. QED
    BY <1>3, <1>4 DEF PrefetchStep

LEMMA NextHashed == TInv /\ Hashed /\ [Next]_vars => Hashed'
  <1>. SUFFICES ASSUME TInv, Hashed, [Next]_vars PROVE Hashed'
    OBVIOUS
  <1>1. CASE MainStep
    <2>1. CASE ReleaseKey
      <3>1. main'.override = None /\ main'.pc = "halt"
        BY <2>1, Vars DEF ReleaseKey, MainStates
      <3>2. Items' = Items /\ ahead' = ahead /\ version' = version
        BY <2>1, TypesStay DEF ReleaseKey, files
      <3>. QED
        BY <3>1, <3>2 DEF Hashed, PrefetchSound
    <2>2. CASE /\ main'.checked = main.checked /\ main'.override = main.override
               /\ main'.pc # "await"
               /\ args' = args /\ ahead' = ahead /\ version' = version
      BY <2>2, HashedStays, VersionStays
    <2>. QED
      BY <1>1, <2>1, <2>2, UnhashedSteps, LookAheadHashed, AwaitHashed
  <1>2. CASE UNCHANGED <<args, main, files>>
    BY <1>2, HashedStays, VersionStays DEF files
  <1>3. ASSUME NEW i \in Items, Edit(i) PROVE Hashed'
    <2>1. args' = args /\ main' = main /\ ahead' = ahead
      BY <1>3 DEF Edit
    <2>2. \A j \in Items : version'[j] \in Nat /\ version[j] <= version'[j]
      <3>1. \A j \in Items : version[j] \in Nat
        BY Vars, Numbers
      <3>2. version' = [version EXCEPT ![i] = @ + 1] /\ version \in [Items -> 0 .. args.edits]
        BY <1>3, Vars DEF Edit
      <3>3. version'[i] = version[i] + 1 /\ \A j \in Items \ {i} : version'[j] = version[j]
        BY <3>2
      <3>. QED
        BY <3>1, <3>3
    <2>. QED
      BY <2>1, <2>2, HashedStays
  <1>4. CASE Crash
    <2>1. Items' = Items
      BY <1>4, CrashArgs
    <2>. QED
      BY <1>4, <2>1 DEF Crash, Hashed, PrefetchSound, Fresh, NothingAhead, NotHashed
  <1>5. ASSUME NEW w \in Workers, WorkerStep(w) PROVE Hashed'
    BY <1>2, <1>5 DEF WorkerStep, WorkerCheck, WorkerTake, WorkerReturn, WorkerRevisit
  <1>6. CASE Signal
    BY <1>2, <1>6 DEF Signal
  <1>. QED
    BY <1>1, <1>2, <1>3, <1>4, <1>5, <1>6, PrefetchHashed DEF Next, vars

LEMMA InitHashed == Init => Hashed
  BY DEF Init, Hashed, PrefetchSound, Fresh, NothingAhead, NotHashed

\* No transfer is announced with a checksum of older contents than the file had when sync
\* looked, whatever is edited while files are hashed ahead.
THEOREM PrefetchCorrect == Spec => []PrefetchSound
  <1>1. Hashed => PrefetchSound
    BY DEF Hashed
  <1>. QED
    BY <1>1, InitHashed, NextHashed, TypeInvariant, PTL DEF Spec

-----------------------------------------------------------------------------
(* The owners of the keys. *)

LEMMA TakeFirst ==
  ASSUME NEW q \in Seq(Tickets), q # <<>>, Distinct(q)
  PROVE  /\ Head(q) \in Tickets /\ Tail(q) \in Seq(Tickets) /\ Distinct(Tail(q))
         /\ Head(q).item \in ItemsIn(q)
         /\ ItemsIn(Tail(q)) = ItemsIn(q) \ {Head(q).item}
  <1>1. /\ Head(q) = q[1] /\ Head(q) \in Tickets /\ 1 \in DOMAIN q
        /\ DOMAIN q = 1 .. Len(q) /\ Len(q) \in Nat
    OBVIOUS
  <1>2. /\ Tail(q) \in Seq(Tickets) /\ DOMAIN Tail(q) = 1 .. Len(q) - 1
        /\ \A k \in DOMAIN Tail(q) : Tail(q)[k] = q[k + 1] /\ k + 1 \in DOMAIN q
    OBVIOUS
  <1>3. Distinct(Tail(q))
    <2>1. ASSUME NEW j \in DOMAIN Tail(q), NEW k \in DOMAIN Tail(q),
                 Tail(q)[j].item = Tail(q)[k].item
          PROVE  j = k
      <3>1. q[j + 1].item = q[k + 1].item /\ j + 1 \in DOMAIN q /\ k + 1 \in DOMAIN q
        BY <1>2, <2>1
      <3>2. j + 1 = k + 1 /\ j \in Nat /\ k \in Nat
        BY <1>2, <3>1 DEF Distinct
      <3>. QED
        BY <3>2
    <2>. QED
      BY <2>1 DEF Distinct
  <1>4. ItemsIn(Tail(q)) = ItemsIn(q) \ {Head(q).item}
    <2>1. ASSUME NEW k \in DOMAIN Tail(q)
          PROVE  Tail(q)[k].item \in ItemsIn(q) \ {Head(q).item}
      <3>1. k + 1 \in DOMAIN q /\ Tail(q)[k] = q[k + 1] /\ k + 1 # 1
        BY <1>2
      <3>2. q[k + 1].item # q[1].item
        BY <1>1, <3>1 DEF Distinct
      <3>. QED
        BY <1>1, <3>1, <3>2 DEF ItemsIn
    <2>2. ASSUME NEW k \in DOMAIN q, q[k].item # Head(q).item
          PROVE  q[k].item \in ItemsIn(Tail(q))
      <3>1. k # 1 /\ k \in 1 .. Len(q)
        BY <1>1, <2>2
      <3>2. k - 1 \in DOMAIN Tail(q) /\ (k - 1) + 1 = k
        BY <1>1, <1>2, <3>1
      <3>3. Tail(q)[k - 1] = q[k]
        BY <1>2, <3>2
      <3>. QED
        BY <3>2, <3>3 DEF ItemsIn
    <2>. QED
      BY <2>1, <2>2 DEF ItemsIn
  <1>5. Head(q).item \in ItemsIn(q)
    BY <1>1 DEF ItemsIn
  <1>. QED
    BY <1>1, <1>2, <1>3, <1>4, <1>5

LEMMA PutLast ==
  ASSUME NEW q \in Seq(Tickets), Distinct(q), NEW e \in Tickets, e.item \notin ItemsIn(q)
  PROVE  /\ Distinct(Append(q, e))
         /\ ItemsIn(Append(q, e)) = ItemsIn(q) \cup {e.item}
  <1>. DEFINE r == Append(q, e)
              n == Len(q) + 1
  <1>1. /\ DOMAIN q = 1 .. Len(q) /\ Len(q) \in Nat /\ DOMAIN r = 1 .. n
        /\ r[n] = e /\ \A k \in DOMAIN q : r[k] = q[k] /\ k \in DOMAIN r
    OBVIOUS
  <1>2. \A k \in DOMAIN r : k = n \/ k \in DOMAIN q
    BY <1>1
  <1>. HIDE DEF r, n
  <1>3. \A k \in DOMAIN q : r[k].item # e.item
    BY <1>1 DEF ItemsIn
  <1>4. Distinct(r)
    BY <1>1, <1>2, <1>3 DEF Distinct
  <1>5. n \in DOMAIN r
    BY <1>1 DEF n
  <1>6. ItemsIn(r) = ItemsIn(q) \cup {e.item}
    BY <1>1, <1>2, <1>5 DEF ItemsIn
  <1>. QED
    BY <1>4, <1>6 DEF r

LEMMA PutFirst ==
  ASSUME NEW q \in Seq(Tickets), Distinct(q), NEW e \in Tickets, e.item \notin ItemsIn(q)
  PROVE  /\ Distinct(<<e>> \o q)
         /\ ItemsIn(<<e>> \o q) = ItemsIn(q) \cup {e.item}
  <1>. DEFINE r == <<e>> \o q
  <1>1. /\ DOMAIN q = 1 .. Len(q) /\ Len(q) \in Nat /\ DOMAIN r = 1 .. Len(q) + 1
        /\ r[1] = e /\ \A k \in DOMAIN r \ {1} : r[k] = q[k - 1] /\ k - 1 \in DOMAIN q
    OBVIOUS
  <1>2. \A k \in DOMAIN q : k + 1 \in DOMAIN r \ {1} /\ r[k + 1] = q[k]
    <2>1. TAKE k \in DOMAIN q
    <2>2. k + 1 \in DOMAIN r \ {1} /\ (k + 1) - 1 = k
      BY <1>1
    <2>. QED
      BY <1>1, <2>2
  <1>. HIDE DEF r
  <1>3. \A k \in DOMAIN r \ {1} : r[k].item # e.item
    BY <1>1 DEF ItemsIn
  <1>4. Distinct(r)
    <2>1. ASSUME NEW j \in DOMAIN r, NEW k \in DOMAIN r, r[j].item = r[k].item PROVE j = k
      <3>1. CASE j = 1 \/ k = 1
        BY <1>1, <1>3, <2>1, <3>1
      <3>2. CASE j # 1 /\ k # 1
        <4>1. q[j - 1].item = q[k - 1].item /\ j - 1 \in DOMAIN q /\ k - 1 \in DOMAIN q
          BY <1>1, <2>1, <3>2
        <4>2. j - 1 = k - 1 /\ j \in Nat /\ k \in Nat
          BY <1>1, <4>1 DEF Distinct
        <4>. QED
          BY <4>2
      <3>. QED
        BY <3>1, <3>2
    <2>. QED
      BY <2>1 DEF Distinct
  <1>5. ItemsIn(r) = ItemsIn(q) \cup {e.item}
    <2>1. 1 \in DOMAIN r /\ r[1].item = e.item
      BY <1>1
    <2>2. \A k \in DOMAIN r : r[k].item \in ItemsIn(q) \cup {e.item}
      BY <1>1 DEF ItemsIn
    <2>3. \A k \in DOMAIN q : q[k].item \in ItemsIn(r)
      BY <1>2 DEF ItemsIn
    <2>. QED
      BY <2>1, <2>2, <2>3 DEF ItemsIn
  <1>. QED
    BY <1>4, <1>5 DEF r

\* The main thread takes an entry of the queue, and puts it back or is done with it.
LEMMA MainTakes ==
  ASSUME NEW k, NEW q, NEW h, OwnedBy(k, q, None, h), NEW i \in q, i # None
  PROVE  OwnedBy(k, q \ {i}, i, h)
  BY DEF OwnedBy, HeldIn

LEMMA MainDrops ==
  ASSUME NEW k, NEW q, NEW h, NEW i, i # None, OwnedBy(k, q, i, h)
  PROVE  /\ i \notin q
         /\ OwnedBy(k \ {i}, q, None, h) /\ OwnedBy(k, q \cup {i}, None, h)
  BY DEF OwnedBy, HeldIn

\* The same for a worker.
LEMMA WorkerTakes ==
  ASSUME NEW k, NEW q, NEW m, NEW h, NEW w \in Workers, h[w] = None,
         OwnedBy(k, q, m, h), NEW i \in q, i # None,
         NEW g, g[w] = i, \A v \in Workers \ {w} : g[v] = h[v]
  PROVE  OwnedBy(k, q \ {i}, m, g)
  <1>1. HeldIn(m, g) = HeldIn(m, h) \cup {i}
    BY DEF HeldIn
  <1>2. i \notin HeldIn(m, h)
    BY DEF OwnedBy
  <1>. QED
    BY <1>1, <1>2 DEF OwnedBy, HeldIn

LEMMA WorkerDrops ==
  ASSUME NEW k, NEW q, NEW m, NEW h, OwnedBy(k, q, m, h), NEW w \in Workers, h[w] # None,
         NEW g, g[w] = None, \A v \in Workers \ {w} : g[v] = h[v]
  PROVE  /\ h[w] \notin q
         /\ OwnedBy(k \ {h[w]}, q, m, g) /\ OwnedBy(k, q \cup {h[w]}, m, g)
  <1>. DEFINE i == h[w]
  <1>1. i \in HeldIn(m, h)
    BY DEF HeldIn
  <1>2. HeldIn(m, g) = HeldIn(m, h) \ {i}
    BY DEF HeldIn, OwnedBy
  <1>. QED
    BY <1>1, <1>2 DEF OwnedBy, HeldIn

\* A file that nobody owns is queued.
LEMMA Enqueues ==
  ASSUME NEW k, NEW q, NEW m, NEW h, OwnedBy(k, q, m, h), NEW i, i \notin k, i # None
  PROVE  i \notin q /\ OwnedBy(k \cup {i}, q \cup {i}, m, h)
  BY DEF OwnedBy, HeldIn

LEMMA OwnedIsOneOwner == TInv /\ Owned => OneOwner
  <1>. SUFFICES ASSUME TInv, Owned, Alive PROVE
         /\ Queued \cup Held = keys /\ Queued \cap Held = {}
         /\ Cardinality(Queued) = Len(queue)
         /\ \A w \in Workers : worker[w].entry # NoEntry =>
              /\ worker[w].entry.item # main.entry.item
              /\ \A v \in Workers \ {w} : worker[v].entry.item # worker[w].entry.item
    BY DEF OneOwner
  <1>1. OwnedBy(keys, ItemsIn(queue), main.entry.item, Hands) /\ Distinct(queue)
    BY DEF Owned
  <1>2. Queued = ItemsIn(queue) /\ Held = HeldIn(main.entry.item, Hands)
    BY DEF Queued, ItemsIn, Held, HeldIn, Hands
  <1>3. Cardinality(Queued) = Len(queue)
    <2>. DEFINE f == [k \in 1 .. Len(queue) |-> queue[k].item]
    <2>1. DOMAIN queue = 1 .. Len(queue) /\ Len(queue) \in Nat
      BY Vars
    <2>2. Queued = {f[k] : k \in 1 .. Len(queue)}
      BY <2>1 DEF Queued
    <2>3. \A j, k \in 1 .. Len(queue) : f[j] = f[k] => j = k
      BY <1>1, <2>1 DEF Distinct
    <2>4. f \in [1 .. Len(queue) -> Queued] /\ \A t \in Queued : \E k \in 1 .. Len(queue) : f[k] = t
      BY <2>2
    <2>. HIDE DEF f
    <2>5. f \in Surjection(1 .. Len(queue), Queued) /\ f \in Injection(1 .. Len(queue), Queued)
      BY <2>3, <2>4 DEF Surjection, Injection, IsInjective
    <2>6. IsFiniteSet(1 .. Len(queue)) /\ Cardinality(1 .. Len(queue)) = Len(queue)
      <3>1. 1 \in Int /\ Len(queue) \in Int /\ Len(queue) \in Nat
        BY <2>1
      <3>2. /\ IsFiniteSet(1 .. Len(queue))
            /\ Cardinality(1 .. Len(queue)) = IF 1 > Len(queue) THEN 0 ELSE Len(queue) - 1 + 1
        BY <3>1, FS_Interval
      <3>. QED
        BY <3>1, <3>2
    <2>. QED
      BY <2>5, <2>6, FS_Surjection
  <1>4. \A w \in Workers : worker[w].entry # NoEntry => worker[w].entry.item # None
    <2>1. TAKE w \in Workers
    <2>2. worker[w].entry \in TicketOrNone
      BY ThreadFields
    <2>. QED
      BY <2>2, TicketFacts DEF TicketOrNone
  <1>. QED
    BY <1>1, <1>2, <1>3, <1>4 DEF OwnedBy, Hands

\* Most steps leave the queue, the keys and what the threads hold alone.
LEMMA OwnersStay ==
  ASSUME Owned, keys' = keys, queue' = queue, main'.entry = main.entry, Hands' = Hands,
         main'.pc # "done" => main.pc # "done"
  PROVE  Owned'
  BY DEF Owned, Alive, OwnedBy, HeldIn, ItemsIn, Distinct

LEMMA HandsStay ==
  (\A v \in Workers : worker'[v].entry = worker[v].entry) => Hands' = Hands
  BY DEF Hands

LEMMA AccountOwned ==
  ASSUME TInv, Owned, Account PROVE Owned'
  <1>1. /\ main.item \in Items /\ main.item # None /\ main.pc # "done" /\ Hands' = Hands
        /\ main'.entry = main.entry
    BY AtWork, Numbers, Vars DEF Account, Primary, threads, Hands, MainStates
  <1>2. OwnedBy(keys, ItemsIn(queue), main.entry.item, Hands) /\ Distinct(queue)
    BY <1>1 DEF Owned, Alive
  <1>3. CASE RevisitEnabled /\ Enqueue(main.item) /\ main.item \notin keys
    <2>. DEFINE i == main.item
                e == Entry(i)
    <2>1. e \in Tickets /\ e.item = i
      BY <1>1, <1>3, TicketFacts, Numbers DEF RevisitEnabled
    <2>2. queue' = <<e>> \o queue /\ keys' = keys \cup {i}
      BY <1>3 DEF Enqueue
    <2>. HIDE DEF e, i
    <2>3. i \notin keys /\ i # None
      BY <1>1, <1>3 DEF i
    <2>4. /\ i \notin ItemsIn(queue)
          /\ OwnedBy(keys \cup {i}, ItemsIn(queue) \cup {i}, main.entry.item, Hands)
      BY <1>2, <2>3, Enqueues
    <2>5. Distinct(queue') /\ ItemsIn(queue') = ItemsIn(queue) \cup {i}
      BY <1>2, <2>1, <2>2, <2>4, Vars, PutFirst
    <2>6. OwnedBy(keys', ItemsIn(queue'), main'.entry.item, Hands')
      BY <1>1, <2>2, <2>4, <2>5
    <2>. QED
      BY <2>5, <2>6 DEF Owned, OwnedBy, HeldIn, ItemsIn, Distinct
  <1>4. CASE queue' = queue /\ keys' = keys
    BY <1>1, <1>4, OwnersStay
  <1>. QED
    BY <1>3, <1>4 DEF Account, Enqueue, revisits

LEMMA TakeEntryOwned ==
  ASSUME TInv, Owned, TakeEntry PROVE Owned'
  <1>. DEFINE e == Head(queue)
  <1>1. main.pc = "attempts" /\ queue # <<>> /\ queue' = Tail(queue) /\ keys' = keys
    BY DEF TakeEntry
  <1>2. main.entry.item = None
    BY <1>1, Vars, TicketFacts DEF MainPhased
  <1>3. Hands' = Hands /\ main'.entry = e
    BY Vars DEF TakeEntry, threads, Hands, MainStates
  <1>4. OwnedBy(keys, ItemsIn(queue), None, Hands) /\ Distinct(queue)
    BY <1>1, <1>2 DEF Owned, Alive
  <1>5. /\ e \in Tickets /\ Distinct(queue') /\ e.item \in ItemsIn(queue)
        /\ ItemsIn(queue') = ItemsIn(queue) \ {e.item}
    BY <1>1, <1>4, Vars, TakeFirst
  <1>6. e.item # None
    BY <1>5, TicketFacts
  <1>. HIDE DEF e
  <1>7. OwnedBy(keys', ItemsIn(queue'), main'.entry.item, Hands')
    BY <1>1, <1>3, <1>4, <1>5, <1>6, MainTakes
  <1>. QED
    BY <1>5, <1>7 DEF Owned, OwnedBy, HeldIn, ItemsIn, Distinct

LEMMA SettledOrBack ==
  ASSUME TInv, NEW e \in Tickets, NEW r \in Results, Attempted(e, r)
  PROVE  IF r \in {"raised", "denied"} THEN keys' = keys /\ queue' = queue
         ELSE \/ keys' = keys \ {e.item} /\ queue' = queue
              \/ keys' = keys /\ \E d \in Tickets : d.item = e.item /\ queue' = Append(queue, d)
  <1>1. Completed(r) => r \notin {"raised", "denied"}
    BY DEF Completed
  <1>2. r \in {"raised", "denied", "silent", "progress"} \/ Completed(r)
    BY DEF Completed, Results
  <1>. QED
    BY <1>1, <1>2, AttemptedCases

LEMMA RevisitOwned ==
  ASSUME TInv, Owned, Revisit PROVE Owned'
  <1>. DEFINE e == main.entry
              i == main.entry.item
  <1>1. main.pc = "attempt" /\ e \in Tickets /\ i # None /\ Hands' = Hands
    BY Vars, TicketFacts DEF Revisit, MainPhased, threads, Hands
  <1>2. OwnedBy(keys, ItemsIn(queue), i, Hands) /\ Distinct(queue)
    BY <1>1 DEF Owned, Alive
  <1>3. PICK r \in Results \ {"denied"} :
          /\ Attempted(e, r)
          /\ IF r = "raised" THEN main'.pc = "done" ELSE main'.entry = NoEntry
    BY Vars DEF Revisit, Results, MainStates
  <1>4. CASE r = "raised"
    BY <1>3, <1>4 DEF Owned, Alive
  <1>5. CASE r # "raised"
    <2>1. /\ i \notin ItemsIn(queue)
          /\ OwnedBy(keys \ {i}, ItemsIn(queue), None, Hands)
          /\ OwnedBy(keys, ItemsIn(queue) \cup {i}, None, Hands)
      <3>. DEFINE k == keys
                  q == ItemsIn(queue)
                  h == Hands
      <3>1. OwnedBy(k, q, i, h) /\ i # None
        BY <1>1, <1>2
      <3>. HIDE DEF k, q, h, i
      <3>2. i \notin q /\ OwnedBy(k \ {i}, q, None, h) /\ OwnedBy(k, q \cup {i}, None, h)
        BY <3>1, MainDrops
      <3>. QED
        BY <3>2 DEF k, q, h
    <2>2. main'.entry.item = None
      BY <1>3, <1>5, TicketFacts
    <2>3. \/ keys' = keys \ {i} /\ queue' = queue
          \/ keys' = keys /\ \E d \in Tickets : d.item = i /\ queue' = Append(queue, d)
      BY <1>1, <1>3, <1>5, SettledOrBack
    <2>4. CASE keys' = keys \ {i} /\ queue' = queue
      BY <1>1, <1>2, <2>1, <2>2, <2>4 DEF Owned, OwnedBy, HeldIn, ItemsIn, Distinct
    <2>5. CASE keys' = keys /\ \E d \in Tickets : d.item = i /\ queue' = Append(queue, d)
      <3>1. Distinct(queue') /\ ItemsIn(queue') = ItemsIn(queue) \cup {i}
        BY <1>2, <2>1, <2>5, Vars, PutLast
      <3>2. OwnedBy(keys', ItemsIn(queue'), main'.entry.item, Hands')
        BY <1>1, <2>1, <2>2, <2>5, <3>1
      <3>. QED
        BY <3>1, <3>2 DEF Owned, OwnedBy, HeldIn, ItemsIn, Distinct
    <2>. QED
      BY <2>3, <2>4, <2>5
  <1>. QED
    BY <1>4, <1>5

\* A worker that changes what it holds.
LEMMA HandMoves ==
  ASSUME TInv, NEW w \in Workers, NEW p, NEW e,
         worker' = [worker EXCEPT ![w] = [pc |-> p, entry |-> e]]
  PROVE  Hands'[w] = e.item /\ \A v \in Workers \ {w} : Hands'[v] = Hands[v]
  <1>1. worker'[w].entry = e /\ \A v \in Workers \ {w} : worker'[v] = worker[v]
    BY Vars
  <1>. QED
    BY <1>1 DEF Hands

LEMMA WorkerTakeOwned ==
  ASSUME TInv, Owned, NEW w \in Workers, WorkerTake(w) PROVE Owned'
  <1>1. /\ worker[w].pc = "take" /\ main' = main /\ keys' = keys
        /\ worker[w].entry = NoEntry /\ main.pc # "done"
    BY ThreadFields DEF WorkerTake, Alive, Holding
  <1>2. OwnedBy(keys, ItemsIn(queue), main.entry.item, Hands) /\ Distinct(queue)
        /\ Hands[w] = None
    BY <1>1, TicketFacts DEF Owned, Alive, Hands
  <1>3. CASE stop \/ queue = <<>>
    <2>1. worker' = [worker EXCEPT ![w].pc = "check"] /\ queue' = queue
      BY <1>3 DEF WorkerTake
    <2>2. \A v \in Workers : worker'[v].entry = worker[v].entry
      BY <2>1, Vars DEF ThreadStates
    <2>. QED
      BY <1>1, <2>1, <2>2, HandsStay, OwnersStay
  <1>4. CASE ~(stop \/ queue = <<>>)
    <2>. DEFINE e == Head(queue)
    <2>1. queue' = Tail(queue) /\ queue # <<>>
      BY <1>4 DEF WorkerTake
    <2>2. PICK p : worker' = [worker EXCEPT ![w] = [pc |-> p, entry |-> e]]
      BY <1>4 DEF WorkerTake
    <2>3. /\ e \in Tickets /\ Distinct(queue') /\ e.item \in ItemsIn(queue)
          /\ ItemsIn(queue') = ItemsIn(queue) \ {e.item}
      BY <1>2, <2>1, Vars, TakeFirst
    <2>4. e.item # None
      BY <2>3, TicketFacts
    <2>. HIDE DEF e
    <2>5. Hands'[w] = e.item /\ \A v \in Workers \ {w} : Hands'[v] = Hands[v]
      BY <2>2, HandMoves
    <2>. DEFINE g == Hands'
    <2>6. g[w] = e.item /\ \A v \in Workers \ {w} : g[v] = Hands[v]
      BY <2>5
    <2>. HIDE DEF g
    <2>7. OwnedBy(keys, ItemsIn(queue) \ {e.item}, main.entry.item, g)
      BY <1>2, <2>3, <2>4, <2>6, WorkerTakes
    <2>8. OwnedBy(keys', ItemsIn(queue'), main'.entry.item, Hands')
      BY <1>1, <2>3, <2>7 DEF g
    <2>. QED
      BY <2>3, <2>8 DEF Owned, OwnedBy, HeldIn, ItemsIn, Distinct
  <1>. QED
    BY <1>3, <1>4

\* A worker puts back what it held, or is done with it.
LEMMA WorkerDropOwned ==
  ASSUME TInv, Owned, NEW w \in Workers, main' = main, main.pc # "done",
         worker[w].entry \in Tickets, NEW p,
         worker' = [worker EXCEPT ![w] = [pc |-> p, entry |-> NoEntry]],
         \/ keys' = keys \ {worker[w].entry.item} /\ queue' = queue
         \/ /\ keys' = keys
            /\ \E d \in Tickets : d.item = worker[w].entry.item /\ queue' = Append(queue, d)
  PROVE  Owned'
  <1>. DEFINE i == worker[w].entry.item
              g == Hands'
  <1>1. OwnedBy(keys, ItemsIn(queue), main.entry.item, Hands) /\ Distinct(queue)
        /\ Hands[w] = i /\ i # None
    BY TicketFacts DEF Owned, Alive, Hands
  <1>2. g[w] = None /\ \A v \in Workers \ {w} : g[v] = Hands[v]
    <2>1. g[w] = NoEntry.item /\ \A v \in Workers \ {w} : g[v] = Hands[v]
      BY HandMoves
    <2>. QED
      BY <2>1, TicketFacts
  <1>. DEFINE h == Hands
              k == keys
              q == ItemsIn(queue)
              m == main.entry.item
  <1>. HIDE DEF g
  <1>3. /\ i \notin ItemsIn(queue)
        /\ OwnedBy(keys \ {i}, ItemsIn(queue), main.entry.item, g)
        /\ OwnedBy(keys, ItemsIn(queue) \cup {i}, main.entry.item, g)
    <2>1. OwnedBy(k, q, m, h) /\ h[w] = i /\ i # None
      BY <1>1
    <2>2. g[w] = None /\ \A v \in Workers \ {w} : g[v] = h[v]
      BY <1>2
    <2>. HIDE DEF h, k, q, m, i
    <2>3. OwnedBy(k, q, m, h) /\ h[w] # None
      BY <2>1
    <2>4. /\ h[w] \notin q
          /\ OwnedBy(k \ {h[w]}, q, m, g) /\ OwnedBy(k, q \cup {h[w]}, m, g)
      BY <2>2, <2>3, WorkerDrops
    <2>. QED
      BY <2>1, <2>4 DEF k, q, m
  <1>4. CASE keys' = keys \ {i} /\ queue' = queue
    <2>1. OwnedBy(keys', ItemsIn(queue'), main'.entry.item, Hands') /\ Distinct(queue')
      BY <1>1, <1>3, <1>4 DEF g
    <2>. QED
      BY <2>1 DEF Owned, OwnedBy, HeldIn, ItemsIn, Distinct
  <1>5. CASE keys' = keys /\ \E d \in Tickets : d.item = i /\ queue' = Append(queue, d)
    <2>1. Distinct(queue') /\ ItemsIn(queue') = ItemsIn(queue) \cup {i}
      BY <1>1, <1>3, <1>5, Vars, PutLast
    <2>2. OwnedBy(keys', ItemsIn(queue'), main'.entry.item, Hands')
      BY <1>3, <1>5, <2>1 DEF g
    <2>. QED
      BY <2>1, <2>2 DEF Owned, OwnedBy, HeldIn, ItemsIn, Distinct
  <1>. QED
    BY <1>4, <1>5

LEMMA WorkerReturnOwned ==
  ASSUME TInv, Owned, NEW w \in Workers, WorkerReturn(w) PROVE Owned'
  <1>1. /\ main' = main /\ main.pc # "done" /\ keys' = keys
        /\ worker[w].entry \in Tickets /\ queue' = Append(queue, worker[w].entry)
        /\ worker' = [worker EXCEPT ![w] = [pc |-> "take", entry |-> NoEntry]]
    BY ThreadFields DEF WorkerReturn, Alive, Holding
  <1>. QED
    BY <1>1, WorkerDropOwned

LEMMA WorkerRevisitOwned ==
  ASSUME TInv, Owned, NEW w \in Workers, WorkerRevisit(w) PROVE Owned'
  <1>1. main' = main /\ main.pc # "done" /\ worker[w].entry \in Tickets
    BY ThreadFields DEF WorkerRevisit, Alive, Holding
  <1>2. PICK r \in Results \ {"denied"} :
          /\ Attempted(worker[w].entry, r)
          /\ worker' = [worker EXCEPT ![w] =
               IF r = "raised" THEN [@ EXCEPT !.pc = "dead"]
               ELSE [pc |-> "check", entry |-> NoEntry]]
    BY DEF WorkerRevisit, Results
  <1>3. CASE r = "raised"
    <2>1. keys' = keys /\ queue' = queue
      BY <1>1, <1>2, <1>3, SettledOrBack
    <2>2. worker' = [worker EXCEPT ![w] = [@ EXCEPT !.pc = "dead"]]
      BY <1>2, <1>3
    <2>3. \A v \in Workers : worker'[v].entry = worker[v].entry
      BY <2>2, Vars DEF ThreadStates
    <2>4. Hands' = Hands
      BY <2>3, HandsStay
    <2>. QED
      BY <1>1, <2>1, <2>4, OwnersStay
  <1>4. CASE r # "raised"
    <2>1. \/ keys' = keys \ {worker[w].entry.item} /\ queue' = queue
          \/ /\ keys' = keys
             /\ \E d \in Tickets : d.item = worker[w].entry.item /\ queue' = Append(queue, d)
      BY <1>1, <1>2, <1>4, SettledOrBack
    <2>2. worker' = [worker EXCEPT ![w] = [pc |-> "check", entry |-> NoEntry]]
      BY <1>2, <1>4
    <2>. QED
      BY <1>1, <2>1, <2>2, WorkerDropOwned
  <1>. QED
    BY <1>3, <1>4

LEMMA NobodyOwned ==
  ASSUME args \in RunSet, main.entry = NoEntry, queue = <<>>, keys = {},
         \A w \in Workers : worker[w].entry = NoEntry
  PROVE  Owned
  <1>1. HeldIn(main.entry.item, Hands) = {} /\ ItemsIn(queue) = {}
    BY DEF HeldIn, Hands, NoEntry, ItemsIn
  <1>2. \A w \in Workers : Hands[w] = None
    BY DEF Hands, NoEntry
  <1>3. Distinct(queue)
    BY DEF Distinct
  <1>. QED
    BY <1>1, <1>2, <1>3 DEF Owned, OwnedBy

LEMMA QuietMainOwned ==
  ASSUME TInv, Owned, MainStep, ~Account, ~TakeEntry, ~Revisit PROVE Owned'
  <1>1. CASE BeginRound \/ NextItem \/ SetKey \/ LookAhead \/ Await \/ SendPrimary
    BY <1>1, Vars, OwnersStay, HandsStay
    DEF BeginRound, NextItem, SetKey, LookAhead, Await, SendPrimary, revisits, threads, MainStates
  <1>2. CASE ReleaseKey \/ HaltWorker \/ AttemptsOver \/ EndRound
    BY <1>2, Vars, OwnersStay, HandsStay
    DEF ReleaseKey, HaltWorker, AttemptsOver, EndRound, revisits, threads, MainStates
  <1>3. CASE Join
    BY <1>3, Vars, OwnersStay, HandsStay DEF Join, revisits, MainStates
  <1>4. CASE StartWorker
    <2>1. Hands' = Hands
      <3>. DEFINE free == {w \in Workers : worker[w].pc = "off"}
      <3>1. free # {} => (CHOOSE w \in free : TRUE) \in free
        OBVIOUS
      <3>2. worker' = worker \/ \E w \in Workers : worker' = [worker EXCEPT ![w].pc = "check"]
        BY <1>4, <3>1 DEF StartWorker, threads
      <3>. HIDE DEF free
      <3>3. \A v \in Workers : worker'[v].entry = worker[v].entry
        <4>1. worker \in [Workers -> ThreadStates]
          BY Vars
        <4>2. ASSUME NEW w \in Workers, worker' = [worker EXCEPT ![w].pc = "check"]
              PROVE  \A v \in Workers : worker'[v].entry = worker[v].entry
          BY <4>1, <4>2 DEF ThreadStates
        <4>. QED
          BY <3>2, <4>2
      <3>. QED
        BY <3>3, HandsStay
    <2>. QED
      BY <1>4, <2>1, Vars, OwnersStay DEF StartWorker, revisits, MainStates
  <1>5. CASE Between
    <2>. DEFINE next == [main EXCEPT !.pc = "item", !.todo = Tail(@), !.item = None]
    <2>1. next \in MainStates /\ next.entry = main.entry /\ main.pc = "between"
      <3>1. main.pc = "between" /\ Tail(main.todo) \in Seq(Items)
        BY <1>5, AtWork DEF Between, Primary
      <3>. QED
        BY <3>1, Vars DEF MainStates, MainPcs, Optional
    <2>2. Attempts(next) \/ main' = next
      BY <1>5 DEF Between
    <2>. HIDE DEF next
    <2>3. main'.entry = main.entry
      BY <2>1, <2>2, AttemptsTyped
    <2>. QED
      BY <1>5, <2>1, <2>3, OwnersStay, HandsStay DEF Between, revisits, threads
  <1>6. CASE Drain
    <2>. DEFINE next == [main EXCEPT !.pc = "finish", !.draining = TRUE]
    <2>1. next \in MainStates /\ next.entry = main.entry
      BY Vars DEF MainStates, MainPcs
    <2>2. (Attempts(next) \/ main' = next) /\ main.pc = "drain"
      BY <1>6 DEF Drain
    <2>. HIDE DEF next
    <2>3. main'.entry = main.entry
      BY <2>1, <2>2, AttemptsTyped
    <2>. QED
      BY <1>6, <2>2, <2>3, OwnersStay, HandsStay DEF Drain, revisits, threads
  <1>7. CASE Finish
    BY <1>7, Vars DEF Finish, Owned, Alive, MainStates
  <1>. QED
    BY <1>1, <1>2, <1>3, <1>4, <1>5, <1>6, <1>7 DEF MainStep

LEMMA NextOwned == TInv /\ Owned /\ [Next]_vars => Owned'
  <1>. SUFFICES ASSUME TInv, Owned, [Next]_vars PROVE Owned'
    OBVIOUS
  <1>1. CASE MainStep
    BY <1>1, AccountOwned, TakeEntryOwned, RevisitOwned, QuietMainOwned
  <1>2. CASE UNCHANGED <<main, revisits, worker>>
    BY <1>2, OwnersStay, HandsStay DEF revisits
  <1>3. ASSUME NEW w \in Workers, WorkerCheck(w) PROVE Owned'
    <2>1. worker' = worker \/ \E p : worker' = [worker EXCEPT ![w].pc = p]
      BY <1>3 DEF WorkerCheck
    <2>2. \A v \in Workers : worker'[v].entry = worker[v].entry
      BY <2>1, WorkersTyped DEF ThreadStates
    <2>. QED
      BY <1>3, <2>2, HandsStay, OwnersStay DEF WorkerCheck, revisits
  <1>4. ASSUME NEW w \in Workers, WorkerStep(w) PROVE Owned'
    BY <1>3, <1>4, WorkerTakeOwned, WorkerReturnOwned, WorkerRevisitOwned DEF WorkerStep
  <1>5. CASE Crash
    <2>. DEFINE Empty == /\ main.entry = NoEntry /\ queue = <<>> /\ keys = {}
                         /\ \A w \in Workers : worker[w].entry = NoEntry
    <2>1. main'.entry = NoEntry /\ queue' = <<>> /\ keys' = {}
          /\ \A w \in Workers : worker'[w].entry = NoEntry
      BY <1>5 DEF Crash, Fresh
    <2>2. HeldIn(main'.entry.item, Hands') = {} /\ ItemsIn(queue') = {}
          /\ (\A w \in Workers : Hands'[w] = None) /\ Distinct(queue')
      BY <2>1 DEF HeldIn, Hands, NoEntry, ItemsIn, Distinct
    <2>. QED
      BY <2>1, <2>2 DEF Owned, OwnedBy, HeldIn, ItemsIn, Distinct
  <1>6. CASE PrefetchStep \/ Signal \/ \E i \in Items : Edit(i)
    BY <1>2, <1>6 DEF PrefetchStep, PrefetchTake, PrefetchStat, PrefetchHash, Signal, Edit, threads
  <1>. QED
    BY <1>1, <1>2, <1>4, <1>5, <1>6 DEF Next, vars, threads

LEMMA InitOwned == Init => Owned
  <1>. SUFFICES ASSUME Init PROVE Owned
    OBVIOUS
  <1>1. args \in RunSet
    BY SyncAssumption DEF Init
  <1>. QED
    BY <1>1, NobodyOwned DEF Init, Fresh

\* Every incomplete transfer has one owner, for every number of files and of worker
\* threads, those that outlived their join included: no two attempts at it run at once.
THEOREM OwnersCorrect == Spec => []OneOwner
  BY OwnedIsOneOwner, InitOwned, NextOwned, TypeInvariant, PTL DEF Spec

-----------------------------------------------------------------------------
(* What exit code 0 is worth. *)

\* Most steps of the main thread settle nothing, and leave the files still to do alone.
Quiet ==
  /\ args' = args /\ UNCHANGED <<keys, failed, fate, counts>>
  /\ Rest' = Rest /\ main'.exit = main.exit /\ main'.result = main.result
  /\ main.pc \notin {"round", "done"} /\ main'.pc # "done"
  /\ main'.pc \in Settling => main.pc \in Settling /\ main'.item = main.item

LEMMA QuietSteps ==
  ASSUME TInv, MainStep
  PROVE  BeginRound \/ NextItem \/ SendPrimary \/ Join \/ Account \/ Revisit \/ Finish \/ Quiet
  <1>0. main \in MainStates
    BY MainTyped
  <1>1. ASSUME StartWorker \/ SetKey \/ ReleaseKey \/ HaltWorker PROVE Quiet
    BY <1>0, <1>1
    DEF Quiet, StartWorker, SetKey, ReleaseKey, HaltWorker, Rest, Settling,
        MainStates, revisits, threads, files
  <1>2. ASSUME LookAhead \/ Await PROVE Quiet
    BY <1>0, <1>2
    DEF Quiet, LookAhead, Await, Rest, Settling, MainStates, revisits, files
  <1>3. ASSUME TakeEntry \/ EndRound PROVE Quiet
    BY <1>0, <1>3
    DEF Quiet, TakeEntry, EndRound, Rest, Settling, MainStates, revisits, files
  <1>4. ASSUME AttemptsOver PROVE Quiet
    BY <1>0, <1>4
    DEF Quiet, AttemptsOver, Rest, Settling, MainStates, revisits, files
  <1>5. ASSUME Between PROVE Quiet
    <2>. DEFINE next == [main EXCEPT !.pc = "item", !.todo = Tail(@), !.item = None]
    <2>1. main.pc = "between" /\ Tail(main.todo) \in Seq(Items)
      BY <1>5, AtWork DEF Between, Primary
    <2>2. /\ next \in MainStates /\ next.pc = "item" /\ next.todo = Tail(main.todo)
          /\ next.exit = main.exit /\ next.result = main.result
      BY <2>1, Vars DEF MainStates, MainPcs, Optional
    <2>3. Attempts(next) \/ main' = next
      BY <1>5 DEF Between
    <2>. HIDE DEF next
    <2>4. /\ main'.pc \in {"item", "attempts"} /\ main'.todo = Tail(main.todo)
          /\ main'.exit = main.exit /\ main'.result = main.result
      BY <2>2, <2>3, AttemptsTyped
    <2>5. Rest' = Rest
      BY <2>1, <2>4 DEF Rest
    <2>. QED
      BY <1>5, <2>1, <2>4, <2>5 DEF Quiet, Between, Settling, revisits, files
  <1>6. ASSUME Drain PROVE Quiet
    <2>. DEFINE next == [main EXCEPT !.pc = "finish", !.draining = TRUE]
    <2>1. main.pc = "drain"
      BY <1>6 DEF Drain
    <2>2. /\ next \in MainStates /\ next.pc = "finish" /\ next.todo = main.todo
          /\ next.exit = main.exit /\ next.result = main.result
      BY Vars DEF MainStates, MainPcs
    <2>3. Attempts(next) \/ main' = next
      BY <1>6 DEF Drain
    <2>. HIDE DEF next
    <2>4. /\ main'.pc \in {"finish", "attempts"} /\ main'.todo = main.todo
          /\ main'.exit = main.exit /\ main'.result = main.result
      BY <2>2, <2>3, AttemptsTyped
    <2>5. Rest' = Rest
      BY <2>1, <2>4 DEF Rest
    <2>. QED
      BY <1>6, <2>1, <2>4, <2>5 DEF Quiet, Drain, Settling, revisits, files
  <1>. QED
    BY <1>1, <1>2, <1>3, <1>4, <1>5, <1>6 DEF MainStep

\* The files of a list: the first, and the rest.
LEMMA ListedParts ==
  ASSUME NEW s \in Seq(Items)
  PROVE  /\ Listed(s) \in SUBSET Items
         /\ s # <<>> => Listed(s) = {Head(s)} \cup Listed(Tail(s))
         /\ s = <<>> => Listed(s) = {}
  <1>1. /\ DOMAIN s = 1 .. Len(s) /\ Len(s) \in Nat /\ \A k \in DOMAIN s : s[k] \in Items
        /\ s = <<>> => Len(s) = 0
    OBVIOUS
  <1>2. ASSUME s # <<>> PROVE Listed(s) = {Head(s)} \cup Listed(Tail(s))
    <2>1. /\ 1 \in DOMAIN s /\ Head(s) = s[1] /\ DOMAIN Tail(s) = 1 .. Len(s) - 1
          /\ \A k \in DOMAIN Tail(s) : Tail(s)[k] = s[k + 1] /\ k + 1 \in DOMAIN s
      BY <1>2
    <2>2. ASSUME NEW k \in DOMAIN s, k # 1 PROVE s[k] \in Listed(Tail(s))
      <3>1. k - 1 \in DOMAIN Tail(s) /\ (k - 1) + 1 = k
        BY <1>1, <2>1, <2>2
      <3>2. Tail(s)[k - 1] = s[k]
        BY <2>1, <3>1
      <3>. QED
        BY <3>1, <3>2 DEF Listed
    <2>. QED
      BY <2>1, <2>2 DEF Listed
  <1>3. ASSUME s = <<>> PROVE Listed(s) = {}
    BY <1>1, <1>3 DEF Listed
  <1>. QED
    BY <1>1, <1>2, <1>3 DEF Listed

\* What is settled, or has a key, remains so unless the step is about it.
LEMMA KeptStays ==
  ASSUME NEW i, failed \in Nat, failed' \in Nat, failed' >= failed, fate'[i] = fate[i],
         i \in keys => i \in keys', Kept(i)
  PROVE  Kept(i)'
  BY DEF Kept, Settled

\* An attempt at a file that has a key leaves it settled, or with its key, or failed.
LEMMA AttemptKeeps ==
  ASSUME TInv, NEW e \in Tickets, e.item \in keys, NEW r \in Results, Attempted(e, r),
         Ended(e.item, r)
  PROVE  /\ failed' \in Nat /\ failed' >= failed
         /\ Kept(e.item)' /\ \A i \in Items : Kept(i) => Kept(i)'
         /\ fate'[e.item] \in {fate[e.item], "incomplete", r}
         /\ \A i \in Items \ {e.item} : fate'[i] = fate[i]
  <1>1. failed \in Nat /\ fate \in [Items -> Fates] /\ e.item \in Items
    BY Vars, TicketFacts
  <1>2. failed' \in Nat /\ failed' >= failed
    BY <1>1, AttemptedCases
  <1>3. /\ fate'[e.item] = IF Completed(r) THEN r ELSE "incomplete"
        /\ \A i \in Items \ {e.item} : fate'[i] = fate[i]
    BY <1>1 DEF Ended
  <1>4. Kept(e.item)'
    <2>1. CASE Completed(r)
      BY <1>3, <2>1 DEF Kept, Settled, Completed
    <2>2. CASE ~Completed(r)
      <3>1. keys' = keys \/ failed' = failed + 1
        BY <2>2, AttemptedCases
      <3>. QED
        BY <1>1, <3>1 DEF Kept
    <2>. QED
      BY <2>1, <2>2
  <1>5. ASSUME NEW i \in Items, Kept(i), i # e.item PROVE Kept(i)'
    <2>1. i \in keys => i \in keys'
      BY <1>5, AttemptedCases
    <2>. QED
      BY <1>1, <1>2, <1>3, <1>5, <2>1, KeptStays
  <1>. QED
    BY <1>2, <1>3, <1>4, <1>5

\* With feedback forced on, a transfer is completed by the receiver's word only, unless
\* the file has no chunks.
LEMMA SendsHeard ==
  ASSUME NEW initial \in BOOLEAN, NEW i, NEW r, NEW a, Sends(initial, i, r, a)
  PROVE  /\ args.feedback = "on" => r # "unheard"
         /\ r = "empty" => i \in args.empty
  BY DEF Sends, Ends

\* What has been completed stays so accounted for when one more transfer ends.
LEMMA HeardStays ==
  ASSUME Heard, args' = args, Items' = Items, NEW i \in Items, NEW r,
         args.feedback = "on" => r # "unheard", r = "empty" => i \in args.empty,
         main'.result \in {r, main.result},
         fate'[i] \in {fate[i], "incomplete", r}, \A j \in Items \ {i} : fate'[j] = fate[j]
  PROVE  Heard'
  <1>1. args.feedback = "on" => main'.result # "unheard" /\ \A j \in Items : fate'[j] # "unheard"
    BY DEF Heard
  <1>2. \A j \in Items : fate'[j] = "empty" => j \in args.empty
    BY DEF Heard
  <1>. QED
    BY <1>1, <1>2 DEF Heard

LEMMA GoesOn ==
  ASSUME TInv', main'.pc # "done" PROVE main'.exit # "0" /\ SuccessIsEarned'
  <1>1. main'.exit = None /\ None \notin Exits
    BY SyncAssumption DEF TInv, MainPhased
  <1>2. main'.exit # "0"
    BY <1>1 DEF Exits
  <1>. QED
    BY <1>2 DEF SuccessIsEarned

LEMMA AliveExit == TInv /\ main.pc # "done" => main.exit # "0"
  BY Vars, Numbers DEF MainPhased, Exits

LEMMA BeginRoundEarned ==
  ASSUME TInv, TInv', Earned, BeginRound PROVE Earned'
  <1>1. /\ args' = args /\ UNCHANGED <<keys, failed, fate>> /\ Items' = Items
        /\ main'.pc = "item" /\ main'.result = main.result
    BY Vars, TypesStay DEF BeginRound, revisits, MainStates
  <1>2. Remaining' = Items
    <2>1. PICK s \in [Items -> Items] :
            main'.todo = s /\ \A i \in Items : \E k \in Items : s[k] = i
      <3>1. ByCount \in [Items -> Items] /\ \A i \in Items : \E k \in Items : ByCount[k] = i
        BY Vars, Numbers, ByCountOrders
      <3>2. main'.todo = ByCount \/ main'.todo = [i \in Items |-> i]
        BY Vars DEF BeginRound, MainStates
      <3>. QED
        BY <3>1, <3>2
    <2>2. DOMAIN s = Items
      OBVIOUS
    <2>3. Listed(s) = Items
      BY <2>1, <2>2 DEF Listed
    <2>. QED
      BY <1>1, <2>1, <2>3 DEF Remaining, Rest, Listed
  <1>3. RoundKept'
    BY <1>1, <1>2 DEF RoundKept
  <1>4. ResultKept' /\ Heard'
    BY <1>1 DEF ResultKept, Settling, Heard, Earned
  <1>. QED
    BY <1>1, <1>3, <1>4, GoesOn DEF Earned

LEMMA NextItemEarned ==
  ASSUME TInv, TInv', Earned, NextItem PROVE Earned'
  <1>. DEFINE s == main.todo
  <1>1. /\ main.pc = "item" /\ s # <<>> /\ s \in Seq(Items) /\ Head(s) \in Items
        /\ args' = args /\ UNCHANGED <<keys, failed>> /\ Items' = Items
    BY Fields, TypesStay DEF NextItem, revisits
  <1>2. \A i \in Items \ Listed(s) : Kept(i)
    BY <1>1 DEF Earned, RoundKept, Alive, Remaining, Rest
  <1>3. Listed(s) = {Head(s)} \cup Listed(Tail(s))
    BY <1>1, ListedParts
  <1>4. CASE main' = [main EXCEPT !.pc = "start", !.item = Head(s)] /\ fate' = fate
    <2>1. main'.pc = "start" /\ main'.todo = s /\ main'.result = main.result
      BY <1>4, Vars DEF MainStates
    <2>2. Remaining' = Listed(s)
      BY <2>1 DEF Remaining, Rest, Listed
    <2>3. \A i \in Items \ Listed(s) : Kept(i)'
      BY <1>1, <1>2, <1>4 DEF Kept, Settled
    <2>4. RoundKept'
      BY <1>1, <2>2, <2>3 DEF RoundKept, Kept, Settled
    <2>5. ResultKept' /\ Heard'
      BY <1>1, <1>4, <2>1 DEF ResultKept, Settling, Heard, Earned
    <2>. QED
      BY <2>1, <2>4, <2>5, GoesOn DEF Earned
  <1>5. CASE /\ main' = [main EXCEPT !.pc = "between", !.item = Head(s)]
             /\ fate' = [fate EXCEPT ![Head(s)] = "skipped"]
    <2>1. main'.pc = "between" /\ main'.todo = s /\ main'.result = main.result
      BY <1>5, Vars DEF MainStates
    <2>2. Remaining' = Listed(Tail(s))
      BY <2>1 DEF Remaining, Rest, Listed
    <2>3. fate'[Head(s)] = "skipped" /\ \A i \in Items \ {Head(s)} : fate'[i] = fate[i]
      BY <1>1, <1>5, Vars
    <2>4. \A i \in Items \ Listed(Tail(s)) : Kept(i)'
      <3>1. ASSUME NEW i \in Items, i = Head(s) PROVE Kept(i)'
        BY <2>3, <3>1 DEF Kept, Settled
      <3>2. ASSUME NEW i \in Items \ Listed(s) PROVE Kept(i)'
        <4>1. i # Head(s) /\ Kept(i)
          BY <1>2, <1>3
        <4>. QED
          BY <1>1, <2>3, <4>1 DEF Kept, Settled
      <3>. QED
        BY <1>3, <3>1, <3>2
    <2>5. RoundKept'
      BY <1>1, <2>2, <2>4 DEF RoundKept, Kept, Settled
    <2>6. ResultKept' /\ Heard'
      BY <1>1, <2>1, <2>3 DEF ResultKept, Settling, Heard, Earned
    <2>. QED
      BY <2>1, <2>5, <2>6, GoesOn DEF Earned
  <1>. QED
    BY <1>4, <1>5 DEF NextItem

LEMMA SendPrimaryEarned ==
  ASSUME TInv, TInv', Earned, SendPrimary PROVE Earned'
  <1>. DEFINE s == main.todo
              i == main.item
  <1>1. /\ main.pc = "send" /\ s \in Seq(Items) /\ s # <<>> /\ i = Head(s) /\ i \in Items
        /\ args' = args /\ UNCHANGED <<keys, failed>> /\ Items' = Items
    BY AtWork, TypesStay DEF SendPrimary, Primary, revisits
  <1>2. PICK r \in Results :
          /\ Sends(TRUE, main.item, r, active') \/ r = "denied"
          /\ main' = [main EXCEPT !.pc = "release", !.result = r]
          /\ IF r = "denied" THEN fate' = [fate EXCEPT ![i] = r] ELSE Ended(i, r)
    BY DEF SendPrimary
  <1>3. main'.pc = "release" /\ main'.todo = s /\ main'.item = i /\ main'.result = r
    BY <1>2, Vars DEF MainStates
  <1>4. /\ fate'[i] = (IF r = "denied" \/ Completed(r) THEN r ELSE "incomplete")
        /\ \A j \in Items \ {i} : fate'[j] = fate[j]
    BY <1>1, <1>2, Vars DEF Ended, Completed
  <1>5. i \in Listed(s)
    BY <1>1, ListedParts
  <1>6. Remaining' = Listed(s)
    BY <1>3 DEF Remaining, Rest, Listed
  <1>7. \A j \in Items \ Listed(s) : Kept(j)'
    <2>1. \A j \in Items \ Listed(s) : Kept(j)
      BY <1>1 DEF Earned, RoundKept, Alive, Remaining, Rest
    <2>. QED
      BY <1>1, <1>4, <1>5, <2>1 DEF Kept, Settled
  <1>8. RoundKept'
    BY <1>1, <1>6, <1>7 DEF RoundKept, Kept, Settled
  <1>9. ResultKept'
    BY <1>3, <1>4 DEF ResultKept, Kept, Settled, Completed
  <1>10. (args.feedback = "on" => r # "unheard") /\ (r = "empty" => i \in args.empty)
    BY <1>2, SendsHeard
  <1>11. Heard'
    BY <1>1, <1>3, <1>4, <1>10, HeardStays DEF Earned
  <1>. QED
    BY <1>3, <1>8, <1>9, <1>11, GoesOn DEF Earned

LEMMA JoinEarned ==
  ASSUME TInv, TInv', Earned, Join PROVE Earned'
  <1>. DEFINE s == main.todo
  <1>1. /\ main.pc = "join" /\ s \in Seq(Items) /\ s # <<>> /\ main.item = Head(s)
        /\ args' = args /\ UNCHANGED <<keys, failed, fate>> /\ Items' = Items
    BY AtWork, TypesStay DEF Join, Primary, revisits
  <1>2. Kept(main.item) \/ main.result \notin {"delivered", "unheard", "empty", "denied"}
    BY <1>1 DEF Earned, ResultKept, Settling
  <1>3. \A i \in Items \ Listed(s) : Kept(i)
    BY <1>1 DEF Earned, RoundKept, Alive, Remaining, Rest
  <1>4. CASE main.result = "raised"
    <2>1. main'.pc = "done" /\ main'.exit = "raised" /\ main'.result = main.result
      BY <1>4, Vars DEF Join, MainStates
    <2>. QED
      BY <1>1, <2>1 DEF Earned, RoundKept, Alive, ResultKept, Settling, Heard, SuccessIsEarned
  <1>5. CASE main.result = "denied"
    <2>1. main'.pc = "item" /\ main'.todo = Tail(s) /\ main'.result = None
      BY <1>5, Vars DEF Join, MainStates
    <2>2. Remaining' = Listed(Tail(s)) /\ Listed(s) = {main.item} \cup Listed(Tail(s))
      BY <1>1, <2>1, ListedParts DEF Remaining, Rest, Listed
    <2>3. \A i \in Items \ Listed(Tail(s)) : Kept(i)
      BY <1>2, <1>3, <1>5, <2>2
    <2>4. RoundKept'
      BY <1>1, <2>2, <2>3 DEF RoundKept, Kept, Settled
    <2>5. ResultKept' /\ Heard'
      BY <1>1, <2>1, Numbers DEF ResultKept, Settling, Heard, Earned, Results
    <2>. QED
      BY <2>1, <2>4, <2>5, GoesOn DEF Earned
  <1>6. CASE main.result \notin {"raised", "denied"}
    <2>1. /\ main'.pc = "account" /\ main'.todo = s /\ main'.result = main.result
          /\ main'.item = main.item
      BY <1>6, Vars DEF Join, MainStates
    <2>2. Remaining' = Listed(s)
      BY <2>1 DEF Remaining, Rest, Listed
    <2>3. RoundKept'
      BY <1>1, <1>3, <2>2 DEF RoundKept, Kept, Settled
    <2>4. ResultKept' /\ Heard'
      BY <1>1, <1>2, <2>1 DEF ResultKept, Settling, Heard, Earned, Kept, Settled
    <2>. QED
      BY <2>1, <2>3, <2>4, GoesOn DEF Earned
  <1>. QED
    BY <1>4, <1>5, <1>6

LEMMA AccountEarned ==
  ASSUME TInv, TInv', Earned, Account PROVE Earned'
  <1>. DEFINE s == main.todo
  <1>0. PICK i \in Items : i = main.item
    BY AtWork DEF Account, Primary
  <1>1. /\ main.pc = "account" /\ s \in Seq(Items) /\ s # <<>> /\ i = Head(s) /\ i \in Items
        /\ args' = args /\ fate' = fate /\ Items' = Items
        /\ main.result \in {"delivered", "unheard", "empty", "progress", "silent"}
    BY <1>0, AtWork, TypesStay, Vars DEF Account, Primary, MainPhased
  <1>2. main'.pc = "between" /\ main'.todo = s /\ main'.result = None
    BY Vars DEF Account, MainStates
  <1>3. failed \in Nat /\ failed' \in Nat
    BY Vars DEF TInv, Typed
  <1>4. keys \in SUBSET keys' /\ failed' >= failed
    BY <1>3 DEF Account, Enqueue, revisits
  <1>5. \A j \in Items : Kept(j) => Kept(j)'
    BY <1>1, <1>3, <1>4 DEF Kept, Settled
  <1>6. Kept(i)'
    <2>1. CASE Completed(main.result)
      <3>1. Kept(i)
        BY <1>0, <1>1, <2>1 DEF Earned, ResultKept, Settling, Completed
      <3>. QED
        BY <1>1, <1>5, <3>1
    <2>2. CASE ~Completed(main.result)
      <3>1. i \in keys' \/ failed' = failed + 1
        BY <1>0, <2>2 DEF Account, Enqueue
      <3>. QED
        BY <1>3, <3>1 DEF Kept
    <2>. QED
      BY <2>1, <2>2
  <1>7. \A j \in Items \ Listed(s) : Kept(j)
    BY <1>1 DEF Earned, RoundKept, Alive, Remaining, Rest
  <1>8. Remaining' = Listed(Tail(s)) /\ Listed(s) = {i} \cup Listed(Tail(s))
    BY <1>1, <1>2, ListedParts DEF Remaining, Rest, Listed
  <1>9. \A j \in Items \ Listed(Tail(s)) : Kept(j)'
    <2>1. TAKE j \in Items \ Listed(Tail(s))
    <2>2. j = i \/ Kept(j)
      BY <1>7, <1>8
    <2>. QED
      BY <1>5, <1>6, <2>2
  <1>10. RoundKept'
    BY <1>1, <1>8, <1>9 DEF RoundKept, Kept, Settled
  <1>11. ResultKept' /\ Heard'
    BY <1>1, <1>2, Numbers DEF ResultKept, Settling, Heard, Earned, Results
  <1>. QED
    BY <1>2, <1>10, <1>11, GoesOn DEF Earned

LEMMA HolderHasKey ==
  ASSUME TInv, Owned, Alive
  PROVE  /\ main.entry \in Tickets => main.entry.item \in keys
         /\ \A w \in Workers : worker[w].entry \in Tickets => worker[w].entry.item \in keys
  BY TicketFacts DEF Owned, OwnedBy, HeldIn, Hands

LEMMA RevisitEarned ==
  ASSUME TInv, TInv', Owned, Earned, Revisit PROVE Earned'
  <1>. DEFINE e == main.entry
  <1>1. /\ main.pc = "attempt" /\ main.entry \in Tickets /\ args' = args /\ Items' = Items
        /\ main.entry.item \in keys
    BY Vars, TypesStay, HolderHasKey DEF Revisit, MainPhased, Alive
  <1>2. PICK r \in Results \ {"denied"} :
          /\ Sends(FALSE, main.entry.item, r, active')
          /\ Attempted(main.entry, r) /\ Ended(main.entry.item, r)
          /\ main'.pc \in {"done", "attempts"} /\ main'.todo = main.todo
          /\ main'.exit \in {main.exit, "raised"} /\ main'.result = main.result
    BY Vars DEF Revisit, Results, MainStates
  <1>3. /\ \A i \in Items : Kept(i) => Kept(i)'
        /\ fate'[e.item] \in {fate[e.item], "incomplete", r}
        /\ \A i \in Items \ {e.item} : fate'[i] = fate[i]
    BY <1>1, <1>2, AttemptKeeps
  <1>4. Remaining' = Remaining
    BY <1>1, <1>2 DEF Remaining, Rest, Listed
  <1>5. \A i \in Items \ Remaining : Kept(i)'
    BY <1>1, <1>3 DEF Earned, RoundKept, Alive, Kept, Settled
  <1>6. RoundKept'
    BY <1>1, <1>4, <1>5 DEF RoundKept, Kept, Settled
  <1>7. (args.feedback = "on" => r # "unheard") /\ (r = "empty" => e.item \in args.empty)
    BY <1>2, SendsHeard
  <1>8. e.item \in Items
    BY <1>1, TicketFacts
  <1>9. Heard' /\ ResultKept'
    <2>1. Heard'
      BY <1>1, <1>2, <1>3, <1>7, <1>8, HeardStays DEF Earned
    <2>. QED
      BY <1>1, <1>2, <2>1 DEF ResultKept, Settling
  <1>10. main'.exit # "0"
    BY <1>1, <1>2, AliveExit
  <1>. QED
    BY <1>6, <1>9, <1>10 DEF Earned, SuccessIsEarned

\* At the end nothing has failed and the queue is empty, or the exit code is 1: the keys are
\* those of the threads.
LEMMA FinishEarned ==
  ASSUME TInv, TInv', Owned, Earned, Finish PROVE Earned'
  <1>1. /\ main.pc = "finish" /\ main.todo = <<>> /\ args' = args /\ Items' = Items
        /\ UNCHANGED <<worker, fate>> /\ failed' = failed + Len(queue)
    BY Vars, TypesStay DEF Finish, MainPhased, threads, Left
  <1>2. /\ main'.pc = "done" /\ main'.exit = (IF failed' > 0 THEN "1" ELSE "0")
        /\ main'.entry = main.entry /\ main'.result = main.result
    BY Vars DEF Finish, MainStates
  <1>3. Held' = Held
    BY <1>1, <1>2 DEF Held
  <1>4. RoundKept' /\ ResultKept' /\ Heard'
    BY <1>1, <1>2 DEF Earned, RoundKept, Alive, ResultKept, Settling, Heard
  <1>5. ASSUME main'.exit = "0", NEW i \in Items \ Held
        PROVE  \/ fate[i] \in {"skipped", "denied", "delivered"}
               \/ fate[i] = "unheard" /\ args.feedback # "on"
               \/ fate[i] = "empty" /\ i \in args.empty
    <2>1. failed = 0 /\ Len(queue) = 0
      <3>1. failed \in Nat /\ Len(queue) \in Nat /\ failed' = 0
        BY <1>1, <1>2, <1>5, Vars
      <3>. QED
        BY <1>1, <3>1
    <2>2. queue = <<>> /\ ItemsIn(queue) = {}
      <3>1. queue = <<>>
        BY <2>1, Vars
      <3>. QED
        BY <3>1 DEF ItemsIn
    <2>3. Held = keys
      <3>1. Held = HeldIn(main.entry.item, Hands)
        BY DEF Held, HeldIn, Hands
      <3>. QED
        BY <1>1, <2>2, <3>1 DEF Owned, Alive, OwnedBy
    <2>4. Remaining = {}
      BY <1>1 DEF Remaining, Rest, Listed
    <2>5. Kept(i)
      BY <1>1, <2>4 DEF Earned, RoundKept, Alive
    <2>6. Settled(i)
      BY <1>5, <2>1, <2>3, <2>5 DEF Kept
    <2>. QED
      BY <2>6 DEF Settled, Earned, Heard
  <1>6. SuccessIsEarned'
    BY <1>1, <1>3, <1>5 DEF SuccessIsEarned
  <1>. QED
    BY <1>4, <1>6 DEF Earned

LEMMA QuietEarned ==
  ASSUME TInv, TInv', Earned, Quiet PROVE Earned'
  <1>1. Items' = Items /\ Remaining' = Remaining
    BY TypesStay DEF Quiet, Remaining, Listed
  <1>2. RoundKept'
    BY <1>1 DEF Quiet, Earned, RoundKept, Alive, Kept, Settled
  <1>3. ResultKept' /\ Heard'
    BY <1>1 DEF Quiet, Earned, ResultKept, Heard, Kept, Settled
  <1>4. SuccessIsEarned'
    BY GoesOn DEF Quiet
  <1>. QED
    BY <1>2, <1>3, <1>4 DEF Earned

LEMMA WorkerRevisitEarned ==
  ASSUME TInv, TInv', Owned, Earned, NEW w \in Workers, WorkerRevisit(w) PROVE Earned'
  <1>. DEFINE e == worker[w].entry
  <1>1. /\ main' = main /\ main.pc # "done" /\ args' = args /\ Items' = Items
        /\ worker[w].entry \in Tickets /\ worker[w].entry.item \in keys
    BY TypesStay, ThreadFields, HolderHasKey DEF WorkerRevisit, Alive, Holding
  <1>2. PICK r \in Results \ {"denied"}, a \in BOOLEAN :
          Sends(FALSE, e.item, r, a) /\ Attempted(e, r) /\ Ended(e.item, r)
    BY DEF WorkerRevisit, Results
  <1>3. /\ \A i \in Items : Kept(i) => Kept(i)'
        /\ fate'[e.item] \in {fate[e.item], "incomplete", r}
        /\ \A i \in Items \ {e.item} : fate'[i] = fate[i]
    BY <1>1, <1>2, AttemptKeeps
  <1>4. Remaining' = Remaining
    BY <1>1 DEF Remaining, Rest, Listed
  <1>5. RoundKept'
    <2>1. main.pc # "round" => \A i \in Items \ Remaining : Kept(i)'
      BY <1>1, <1>3 DEF Earned, RoundKept, Alive, Kept, Settled
    <2>. QED
      BY <1>1, <1>4, <2>1 DEF RoundKept, Kept, Settled
  <1>6. ResultKept'
    <2>1. main.pc \in Settling => main.item \in Items
      BY AtWork DEF Settling, Primary
    <2>2. ASSUME main.pc \in Settling, main.result \in {"delivered", "unheard", "empty", "denied"}
          PROVE  Kept(main.item)'
      BY <1>1, <1>3, <2>1, <2>2 DEF Earned, ResultKept, Kept, Settled
    <2>. QED
      BY <1>1, <2>2 DEF ResultKept, Kept, Settled
  <1>7. (args.feedback = "on" => r # "unheard") /\ (r = "empty" => e.item \in args.empty)
    BY <1>2, SendsHeard
  <1>8. e.item \in Items
    BY <1>1, TicketFacts
  <1>9. Heard'
    BY <1>1, <1>3, <1>7, <1>8, HeardStays DEF Earned
  <1>. QED
    BY <1>1, <1>5, <1>6, <1>9, AliveExit DEF Earned, SuccessIsEarned

LEMMA AsideEarned ==
  ASSUME TInv, Earned, UNCHANGED <<args, main, keys, failed, fate>>,
         main.pc = "done" => worker' = worker
  PROVE  Earned'
  <1>1. Items' = Items /\ Remaining' = Remaining
    BY TypesStay DEF Remaining, Rest, Listed
  <1>2. RoundKept' /\ ResultKept' /\ Heard'
    BY <1>1 DEF Earned, RoundKept, Alive, ResultKept, Heard, Kept, Settled
  <1>3. SuccessIsEarned'
    <2>1. CASE main.pc = "done"
      BY <1>1, <2>1 DEF Earned, SuccessIsEarned, Held
    <2>2. CASE main.pc # "done"
      BY <2>2, AliveExit DEF SuccessIsEarned
    <2>. QED
      BY <2>1, <2>2
  <1>. QED
    BY <1>2, <1>3 DEF Earned

LEMMA NextEarned == TInv /\ TInv' /\ Owned /\ Earned /\ [Next]_vars => Earned'
  <1>. SUFFICES ASSUME TInv, TInv', Owned, Earned, [Next]_vars PROVE Earned'
    OBVIOUS
  <1>1. CASE MainStep
    BY <1>1, QuietSteps, BeginRoundEarned, NextItemEarned, SendPrimaryEarned, JoinEarned,
       AccountEarned, RevisitEarned, FinishEarned, QuietEarned
  <1>2. ASSUME NEW w \in Workers, WorkerStep(w) PROVE Earned'
    <2>1. CASE WorkerCheck(w) \/ WorkerTake(w) \/ WorkerReturn(w)
      BY <2>1, AsideEarned DEF WorkerCheck, WorkerTake, WorkerReturn, Alive, revisits
    <2>. QED
      BY <1>2, <2>1, WorkerRevisitEarned DEF WorkerStep
  <1>3. CASE PrefetchStep \/ Signal \/ (\E i \in Items : Edit(i)) \/ UNCHANGED vars
    BY <1>3, AsideEarned
    DEF PrefetchStep, PrefetchTake, PrefetchStat, PrefetchHash, Signal, Edit, vars, revisits,
        threads
  <1>4. CASE Crash
    <2>1. /\ main'.pc = "round" /\ main'.result = None /\ main'.exit = None
          /\ fate' = [i \in Items |-> "new"] /\ Items' = Items
      BY <1>4, CrashArgs DEF Crash, Fresh
    <2>. QED
      BY <2>1, Numbers
      DEF Earned, RoundKept, ResultKept, Settling, Heard, SuccessIsEarned, Results, Exits
  <1>. QED
    BY <1>1, <1>2, <1>3, <1>4 DEF Next

LEMMA InitEarned == Init => Earned
  <1>. SUFFICES ASSUME Init PROVE Earned
    OBVIOUS
  <1>1. /\ main.pc = "round" /\ main.result = None /\ main.exit = None
        /\ fate = [i \in Items |-> "new"] /\ None \notin Results \cup Exits
    BY SyncAssumption DEF Init, Fresh
  <1>. QED
    BY <1>1 DEF Earned, RoundKept, ResultKept, Settling, Heard, SuccessIsEarned, Results, Exits

\* Exit code 0 is earned, for every number of files and threads: each file was skipped,
\* refused or completed, by the receiver's word if feedback is forced on, or by having no
\* chunks; except for those whose entry a worker thread took and has not given back,
\* whether it still runs or an exception ended it.
THEOREM SuccessCorrect == Spec => []SuccessIsEarned
  <1>1. Spec => []Owned
    BY InitOwned, NextOwned, TypeInvariant, PTL DEF Spec
  <1>2. Earned => SuccessIsEarned
    BY DEF Earned
  <1>. QED
    BY <1>1, <1>2, InitEarned, NextEarned, TypeInvariant, PTL DEF Spec
-----------------------------------------------------------------------------
(* The send counts. *)

LEMMA OrderedTail ==
  ASSUME NEW s \in Seq(Items), s # <<>>, NEW c, Ordered(s, c)
  PROVE  /\ Ordered(Tail(s), c) /\ Head(s) \notin Listed(Tail(s))
         /\ \A i \in Listed(s) \cap Allowed :
              Head(s) \in Allowed => i = Head(s) \/ c[Head(s)] <= c[i]
  <1>1. /\ 1 \in DOMAIN s /\ Head(s) = s[1] /\ DOMAIN s = 1 .. Len(s) /\ Len(s) \in Nat
        /\ DOMAIN Tail(s) = 1 .. Len(s) - 1
        /\ \A k \in DOMAIN Tail(s) : Tail(s)[k] = s[k + 1] /\ k + 1 \in DOMAIN s
    OBVIOUS
  <1>2. Ordered(Tail(s), c)
    <2>1. ASSUME NEW k \in DOMAIN Tail(s), NEW l \in DOMAIN Tail(s), k < l
          PROVE  /\ Tail(s)[k] # Tail(s)[l]
                 /\ {Tail(s)[k], Tail(s)[l]} \subseteq Allowed => c[Tail(s)[k]] <= c[Tail(s)[l]]
      <3>1. k + 1 < l + 1
        BY <1>1, <2>1
      <3>2. /\ s[k + 1] # s[l + 1]
            /\ {s[k + 1], s[l + 1]} \subseteq Allowed => c[s[k + 1]] <= c[s[l + 1]]
        BY <1>1, <3>1 DEF Ordered
      <3>. QED
        BY <1>1, <3>2
    <2>. QED
      BY <2>1 DEF Ordered
  <1>3. ASSUME NEW k \in DOMAIN s, k # 1
        PROVE  s[1] # s[k] /\ ({s[1], s[k]} \subseteq Allowed => c[s[1]] <= c[s[k]])
    <2>1. 1 < k
      BY <1>1, <1>3
    <2>. QED
      BY <1>1, <2>1 DEF Ordered
  <1>4. Head(s) \notin Listed(Tail(s))
    <2>1. ASSUME NEW k \in DOMAIN Tail(s) PROVE Tail(s)[k] # Head(s)
      <3>1. k + 1 \in DOMAIN s /\ k + 1 # 1 /\ Tail(s)[k] = s[k + 1]
        BY <1>1
      <3>. QED
        BY <1>1, <1>3, <3>1
    <2>. QED
      BY <2>1 DEF Listed
  <1>5. \A i \in Listed(s) \cap Allowed : Head(s) \in Allowed => i = Head(s) \/ c[Head(s)] <= c[i]
    <2>1. TAKE i \in Listed(s) \cap Allowed
    <2>2. PICK k \in DOMAIN s : s[k] = i
      BY DEF Listed
    <2>. QED
      BY <1>1, <1>3, <2>2
  <1>. QED
    BY <1>2, <1>4, <1>5

\* In open loop from the start there is no moment with feedback.
LEMMA AlwaysOpen == args.feedback = "off" => \A a : OpenLoop(a)
  BY DEF OpenLoop

LEMMA BeginRoundSorted ==
  ASSUME TInv, Sorted, BeginRound PROVE Sorted'
  <1>. SUFFICES ASSUME args.feedback = "off", ~args.query PROVE Sorted'
    BY DEF Sorted, BeginRound
  <1>1. args' = args /\ counts' = counts /\ Items' = Items /\ Allowed' = Allowed
    BY TypesStay DEF BeginRound, Allowed
  <1>2. /\ ByCount \in [Items -> Items]
        /\ \A i \in Items : \E k \in Items : ByCount[k] = i
        /\ \A k, l \in Items : k < l =>
             ByCount[k] # ByCount[l] /\ counts[ByCount[k]] <= counts[ByCount[l]]
    BY Vars, Numbers, ByCountOrders
  <1>3. Rest' = ByCount
    BY Vars, AlwaysOpen DEF BeginRound, MainStates, Rest
  <1>4. Listed(ByCount) = Items /\ DOMAIN ByCount = Items
    BY <1>2 DEF Listed
  <1>5. Ordered(ByCount, counts)
    BY <1>2 DEF Ordered
  <1>6. Remaining' = Items /\ Ordered(Rest, counts)'
    BY <1>1, <1>3, <1>4, <1>5 DEF Remaining, Listed, Ordered
  <1>7. \A i, j \in Allowed : counts[i] <= counts[j] + 1
    BY DEF Sorted
  <1>8. Allowed \ Items = {}
    BY DEF Allowed
  <1>. QED
    BY <1>1, <1>6, <1>7, <1>8 DEF Sorted

\* The first file is passed over, without being sent or after it was.
LEMMA PassedSorted ==
  ASSUME TInv, Sorted, args.feedback = "off", ~args.query, args' = args,
         NEW s \in Seq(Items), s # <<>>, Rest = s, Rest' = Tail(s), NEW i \in Items, i = Head(s),
         \/ i \in args.denied /\ counts' = counts
         \/ counts' = [counts EXCEPT ![i] = @ + 1]
  PROVE  Sorted'
  <1>1. Items' = Items /\ Allowed' = Allowed /\ Allowed \in SUBSET Items
    BY TypesStay DEF Allowed
  <1>2. counts \in [Items -> Nat]
    BY Vars
  <1>3. /\ \A j, k \in Allowed : counts[j] <= counts[k] + 1
        /\ \A j \in Listed(s) \cap Allowed, k \in Allowed \ Listed(s) : counts[j] <= counts[k]
        /\ Ordered(s, counts)
    BY DEF Sorted, Remaining
  <1>. DEFINE t == Tail(s)
  <1>4. /\ Ordered(t, counts) /\ i \notin Listed(t)
        /\ \A j \in Listed(s) \cap Allowed : i \in Allowed => j = i \/ counts[i] <= counts[j]
    BY <1>3, OrderedTail
  <1>5. Listed(s) = {i} \cup Listed(t) /\ Listed(t) \in SUBSET Items
    BY ListedParts
  <1>6. Remaining' = Listed(t)
    BY DEF Remaining, Listed
  <1>7. \A j \in Items \ {i} : counts'[j] = counts[j]
    BY <1>2
  <1>8. i \in Allowed => counts'[i] = counts[i] + 1
    BY <1>2 DEF Allowed
  <1>. HIDE DEF t
  <1>9. \A j \in Items : counts[j] \in Nat
    BY <1>2
  <1>10. ASSUME NEW j \in Allowed, NEW k \in Allowed PROVE counts'[j] <= counts'[k] + 1
    <2>1. counts[j] \in Nat /\ counts[k] \in Nat /\ counts[j] <= counts[k] + 1
      BY <1>1, <1>3, <1>9
    <2>2. CASE j = i /\ k # i
      <3>1. counts[i] <= counts[k]
        BY <1>3, <1>4, <1>5, <2>2
      <3>. QED
        BY <1>1, <1>7, <1>8, <2>1, <2>2, <3>1
    <2>3. CASE j # i /\ k = i
      BY <1>1, <1>7, <1>8, <2>1, <2>3
    <2>4. CASE j = k
      <3>1. counts'[j] \in Nat
        BY <1>1, <1>7, <1>8, <2>1
      <3>. QED
        BY <2>4, <3>1
    <2>5. CASE j # i /\ k # i
      BY <1>1, <1>7, <2>1, <2>5
    <2>. QED
      BY <2>2, <2>3, <2>4, <2>5
  <1>11. ASSUME NEW j \in Listed(t) \cap Allowed, NEW k \in Allowed \ Listed(t)
         PROVE  counts'[j] <= counts'[k]
    <2>1. counts[j] \in Nat /\ counts[k] \in Nat /\ counts[j] <= counts[k] + 1
      BY <1>1, <1>3, <1>9
    <2>2. j # i /\ counts'[j] = counts[j] /\ j \in Listed(s)
      BY <1>1, <1>4, <1>5, <1>7
    <2>3. CASE k = i
      BY <1>8, <2>1, <2>2, <2>3
    <2>4. CASE k # i
      <3>1. k \notin Listed(s)
        BY <1>5, <2>4
      <3>. QED
        BY <1>1, <1>3, <1>7, <2>2, <2>4, <3>1
    <2>. QED
      BY <2>3, <2>4
  <1>12. Ordered(t, counts')
    <2>1. \A k \in DOMAIN t : t[k] \in Items \ {i}
      BY <1>4, <1>5 DEF Listed
    <2>. QED
      BY <1>4, <1>7, <2>1 DEF Ordered
  <1>13. Ordered(Rest, counts)'
    BY <1>1, <1>12 DEF Ordered, t
  <1>. QED
    BY <1>1, <1>6, <1>10, <1>11, <1>13 DEF Sorted

LEMMA SortedStays ==
  ASSUME TInv, Sorted, counts' = counts, Rest' = Rest, Items' = Items,
         args'.feedback = args.feedback, args'.query = args.query, args'.denied = args.denied
  PROVE  Sorted'
  <1>1. Allowed' = Allowed /\ Remaining' = Remaining
    BY DEF Allowed, Remaining, Listed
  <1>2. Ordered(Rest, counts) => Ordered(Rest, counts)'
    BY <1>1 DEF Ordered
  <1>. QED
    BY <1>1, <1>2 DEF Sorted

LEMMA NextSorted == TInv /\ Sorted /\ [Next]_vars => Sorted'
  <1>. SUFFICES ASSUME TInv, Sorted, [Next]_vars PROVE Sorted'
    OBVIOUS
  <1>1. CASE MainStep
    <2>1. CASE NextItem
      <3>. SUFFICES ASSUME ~args.query PROVE Sorted'
        BY <2>1 DEF Sorted, NextItem
      <3>1. Rest' = Rest
        BY <2>1, Vars DEF NextItem, Rest, MainStates
      <3>. QED
        BY <2>1, <3>1, SortedStays, TypesStay DEF NextItem
    <2>2. CASE SendPrimary
      <3>1. Rest' = Rest
        BY <2>2, Vars DEF SendPrimary, Rest, MainStates
      <3>. QED
        BY <2>2, <3>1, SortedStays, TypesStay DEF SendPrimary
    <2>3. CASE Join
      <3>. DEFINE s == main.todo
      <3>1. /\ main.pc = "join" /\ s \in Seq(Items) /\ s # <<>> /\ main.item = Head(s)
            /\ main.item \in Items /\ args' = args /\ Items' = Items /\ counts' = counts
        BY <2>3, AtWork, TypesStay DEF Join, Primary
      <3>2. Rest = s
        BY <3>1 DEF Rest
      <3>3. CASE main.result = "denied"
        <4>1. Rest' = Tail(s)
          BY <2>3, <3>3, Vars DEF Join, Rest, MainStates
        <4>2. main.item \in args.denied
          BY <3>3, Vars DEF MainPhased
        <4>3. args.feedback = "off" /\ ~args.query => Sorted'
          BY <3>1, <3>2, <4>1, <4>2, PassedSorted
        <4>. QED
          BY <3>1, <4>3 DEF Sorted
      <3>4. CASE main.result # "denied"
        <4>1. Rest' = s
          BY <2>3, <3>4, Vars DEF Join, Rest, MainStates
        <4>. QED
          BY <3>1, <3>2, <4>1, SortedStays
      <3>. QED
        BY <3>3, <3>4
    <2>4. CASE Account
      <3>. DEFINE s == main.todo
      <3>1. /\ main.pc = "account" /\ s \in Seq(Items) /\ s # <<>> /\ main.item = Head(s)
            /\ main.item \in Items /\ args' = args
        BY <2>4, AtWork DEF Account, Primary
      <3>2. Rest = s /\ Rest' = Tail(s)
        BY <2>4, <3>1, Vars DEF Account, Rest, MainStates
      <3>3. args.feedback = "off" => counts' = [counts EXCEPT ![main.item] = @ + 1]
        BY <2>4, AlwaysOpen DEF Account
      <3>4. args.feedback = "off" /\ ~args.query => Sorted'
        BY <3>1, <3>2, <3>3, PassedSorted
      <3>. QED
        BY <3>1, <3>4 DEF Sorted
    <2>5. CASE Revisit \/ Finish
      <3>1. Rest' = Rest
        BY <2>5, Vars DEF Revisit, Finish, Rest, MainStates
      <3>. QED
        BY <2>5, <3>1, SortedStays, TypesStay DEF Revisit, Finish, files
    <2>6. CASE Quiet
      BY <2>6, SortedStays, TypesStay DEF Quiet
    <2>. QED
      BY <1>1, <2>1, <2>2, <2>3, <2>4, <2>5, <2>6, QuietSteps, BeginRoundSorted
  <1>2. CASE UNCHANGED <<args, main, counts>>
    BY <1>2, SortedStays, TypesStay DEF Rest
  <1>3. ASSUME NEW w \in Workers, WorkerStep(w) PROVE Sorted'
    BY <1>2, <1>3 DEF WorkerStep, WorkerCheck, WorkerTake, WorkerReturn, WorkerRevisit
  <1>4. CASE PrefetchStep \/ Signal \/ (\E i \in Items : Edit(i)) \/ UNCHANGED vars
    BY <1>2, <1>4
    DEF PrefetchStep, PrefetchTake, PrefetchStat, PrefetchHash, Signal, Edit, vars
  <1>5. CASE Crash
    <2>1. /\ args'.feedback = args.feedback /\ args'.query = args.query /\ Allowed' = Allowed
          /\ counts' = counts
      BY <1>5, CrashArgs DEF Crash, Allowed
    <2>2. Rest' = <<>>
      BY <1>5 DEF Crash, Fresh, Rest
    <2>3. Remaining' = {} /\ Ordered(Rest, counts)'
      BY <2>2 DEF Remaining, Listed, Ordered
    <2>. QED
      BY <2>1, <2>3 DEF Sorted
  <1>. QED
    BY <1>1, <1>3, <1>4, <1>5 DEF Next

LEMMA InitSorted == Init => Sorted
  <1>. SUFFICES ASSUME Init PROVE Sorted
    OBVIOUS
  <1>1. Rest = <<>> /\ counts = [i \in Items |-> 0]
    BY DEF Init, Fresh, Rest
  <1>2. Remaining = {} /\ Ordered(Rest, counts)
    BY <1>1 DEF Remaining, Listed, Ordered
  <1>. QED
    BY <1>1, <1>2 DEF Sorted, Allowed

\* However often the command is killed and repeated, no file is sent in open loop more than
\* once more than another one that may be sent, for every number of files.
THEOREM CountsCorrect == Spec => []CountsFair
  <1>1. Sorted => CountsFair
    BY DEF Sorted, CountsFair, Allowed
  <1>. QED
    BY <1>1, InitSorted, NextSorted, TypeInvariant, PTL DEF Spec
=============================================================================
