--------------------------- MODULE TransferProofs ---------------------------
(***************************************************************************)
(* Theorems about Transfer, for every set of calls and every configuration *)
(* of the sender.                                                          *)
(***************************************************************************)
EXTENDS Transfer, FiniteSetTheorems, TLAPS

-----------------------------------------------------------------------------
(* The inductive invariants. *)

\* Where the calling thread stands in the pass: what a chunk that is about to be sent,
\* and the count of idle timeouts, can be.
Steady ==
  /\ main.pc \in {"start", "manifest"} => main.phaseDone = ~call.initial
  /\ main.pc \in {"join", "tail", "before"} => main.phaseDone
  /\ main.pc = "send" \/ (main.pc = "drain" /\ ~main.phaseDone) => main.next < call.total
  /\ main.pc # "done" => spent.idle < MaxIdle

\* A COMPLETE that is on its way or was heard, by whichever thread, came from a receiver
\* that has the file in place; from there it never starts over.
Told ==
  /\ \A u \in uplink : u.state = "COMPLETE" => rcv.placed
  /\ rt.completed => rcv.placed
  /\ main.signalled \/ main.completed => rcv.placed
  /\ main.result.kind = "feedback" /\ main.result.completed => rcv.placed
  /\ rcv.placed => ~rcv.open

\* The inductive type invariant, and with it what was heard.
TInv == TypeOK /\ Steady
Heard == TInv /\ Told

-----------------------------------------------------------------------------
(* Operators. *)

LEMMA CallTyped ==
  ASSUME call \in Calls
  PROVE  /\ call.total \in Nat /\ call.initial \in BOOLEAN /\ call.timed \in BOOLEAN
         /\ call.stops \in BOOLEAN /\ call.edits \subseteq {"edited", "cut"}
  BY SenderAssumption DEF CallSet

LEMMA DataTyped ==
  ASSUME NEW c \in Chunks, NEW good \in BOOLEAN PROVE Data(c, good) \in Frame
  BY DEF Data, Frame

\* The copies of a set of chunks are frames, and finitely many.
LEMMA DataOfTyped ==
  ASSUME call \in Calls, NEW S \in SUBSET Chunks
  PROVE  DataOf(S) \in SUBSET Frame /\ Cardinality(DataOf(S)) \in Nat
  <1>. DEFINE T == {d \in S : Readable(d)}
              f == [c \in T |-> Data(c, source # "edited")]
  <1>1. DataOf(S) \in SUBSET Frame
    <2>1. (source # "edited") \in BOOLEAN
      OBVIOUS
    <2>2. \A c \in Chunks : Data(c, source # "edited") \in Frame
      BY <2>1, DataTyped
    <2>. QED
      BY <2>2 DEF DataOf
  <1>2. IsFiniteSet(Chunks)
    BY CallTyped, FS_Interval DEF Chunks
  <1>3. IsFiniteSet(T)
    BY <1>2, FS_Subset
  <1>4. DataOf(S) = {f[c] : c \in T}
    BY DEF DataOf
  <1>5. IsFiniteSet({f[c] : c \in T})
    <2>1. f \in Surjection(T, {f[c] : c \in T})
      BY DEF Surjection
    <2>. QED
      BY <1>3, <2>1, FS_Surjection
  <1>. QED
    BY <1>1, <1>4, <1>5, FS_CardinalityType

LEMMA FirstOfTyped ==
  ASSUME NEW S \in SUBSET Chunks, NEW n PROVE FirstOf(S, n) \in SUBSET Chunks
  BY DEF FirstOf

\* The types depend on the call only.
LEMMA TypesStay ==
  ASSUME call' = call
  PROVE  /\ Chunks' = Chunks /\ Missing' = Missing /\ Frame' = Frame
         /\ UplinkFrame' = UplinkFrame /\ MainStates' = MainStates /\ Runtimes' = Runtimes
         /\ WorkerStates' = WorkerStates
  BY DEF Chunks, Missing, Frame, UplinkFrame, MainStates, Runtimes, WorkerStates, SendResult

\* The ways a call ends.
LEMMA ReturnedTyped ==
  ASSUME main \in MainStates, NEW completed \in BOOLEAN,
         NEW kind \in {"empty", "open", "feedback", "aborted", "raised"}
  PROVE  /\ Returned(kind, completed) \in MainStates
         /\ Returned(kind, completed).pc = "done"
         /\ Returned(kind, completed).signalled = main.signalled
         /\ Returned(kind, completed).completed = main.completed
         /\ Returned(kind, completed).dropped = main.dropped
         /\ Returned(kind, completed).result.kind = kind
         /\ Returned(kind, completed).result.completed = completed
  <1>. DEFINE repaired == main.repaired /\ kind = "feedback"
              r == [kind |-> kind, completed |-> completed, repaired |-> repaired]
  <1>1. repaired \in BOOLEAN
    BY ZenonT(30) DEF MainStates
  <1>. HIDE DEF repaired
  <1>2. r \in SendResult /\ r.kind = kind /\ r.completed = completed
    BY <1>1 DEF SendResult
  <1>3. Returned(kind, completed) = [main EXCEPT !.pc = "done", !.result = r]
    BY DEF Returned, repaired
  <1>. HIDE DEF r
  <1>. QED
    BY <1>2, <1>3 DEF MainStates

LEMMA LeavingTyped ==
  ASSUME main \in MainStates, NEW exit \in {"normal", "aborted", "raised"}
  PROVE  /\ Leaving(exit) \in MainStates
         /\ Leaving(exit).pc = "join" /\ Leaving(exit).phaseDone
         /\ Leaving(exit).signalled = main.signalled
         /\ Leaving(exit).completed = main.completed
         /\ Leaving(exit).dropped = main.dropped /\ Leaving(exit).exit = exit
         /\ Leaving(exit).result = main.result
  BY DEF Leaving, MainStates

-----------------------------------------------------------------------------
(* Steps of the sender: what each of its variables needs for the invariant. *)

LEMMA TypeParts ==
  ASSUME TypeOK
  PROVE  /\ call \in Calls /\ known \in BOOLEAN /\ stop \in BOOLEAN
         /\ source \in {"whole", "edited", "cut"}
         /\ main \in MainStates /\ fb \in Modes /\ spent \in Spending
         /\ rt \in Runtimes /\ Len(rt.queue) <= QueueMax
         /\ pump \in {"off", "check", "recv", "blocked"} /\ worker \in WorkerStates
         /\ wire \subseteq Frame /\ uplink \subseteq UplinkFrame
  BY DEF TypeOK, SenderTypeOK

LEMMA TypesKept ==
  ASSUME TypeOK, call' = call, rcv' = rcv,
         known' \in BOOLEAN, stop' \in BOOLEAN, source' \in {"whole", "edited", "cut"},
         main' \in MainStates, fb' \in Modes, spent' \in Spending,
         rt' \in Runtimes, Len(rt'.queue) <= QueueMax,
         pump' \in {"off", "check", "recv", "blocked"}, worker' \in WorkerStates,
         wire' \subseteq Frame, uplink' \subseteq uplink
  PROVE  TypeOK'
  <1>1. rcv' \in [open : BOOLEAN, placed : BOOLEAN, got : [Chunks' -> {"none", "good", "bad"}]]
    BY TypesStay DEF TypeOK
  <1>2. SenderTypeOK'
    BY TypesStay DEF TypeOK, SenderTypeOK
  <1>. QED
    BY <1>1, <1>2 DEF TypeOK

LEMMA ToldKept ==
  ASSUME Told, rcv' = rcv, uplink' \subseteq uplink,
         rt'.completed => rt.completed \/ rcv.placed,
         main'.signalled => main.signalled \/ main.completed \/ rt.completed \/ rcv.placed,
         main'.completed => main.completed \/ rt.completed \/ rcv.placed,
         \/ main'.result = main.result
         \/ main'.result.kind = "feedback" /\ main'.result.completed =>
              main.signalled \/ rcv.placed
  PROVE  Told'
  BY DEF Told

\* The helpers of the calling thread's steps.
LEMMA ProbedTyped ==
  ASSUME call \in Calls, NEW m \in Modes, NEW due, Probed(m, due)
  PROVE  fb' \in Modes /\ uplink' \subseteq uplink
  <1>1. Prioritize \in BOOLEAN
    BY CallTyped DEF Prioritize
  <1>2. PICK taken \in SUBSET uplink :
          /\ uplink' = uplink \ taken
          /\ fb' = IF taken = {} THEN m
                   ELSE [active |-> TRUE, prior |-> Prioritize, late |-> FALSE]
    BY DEF Probed
  <1>. QED
    BY <1>1, <1>2 DEF Modes

LEMMA ModeIsTyped ==
  ASSUME call \in Calls, fb \in Modes, NEW active \in BOOLEAN
  PROVE  ModeIs(active) \in Modes
  <1>. DEFINE prior == active /\ Prioritize
  <1>1. prior \in BOOLEAN
    BY CallTyped DEF Prioritize
  <1>2. ModeIs(active) = IF active = fb.active THEN fb
                         ELSE [active |-> active, prior |-> prior, late |-> FALSE]
    BY DEF ModeIs
  <1>. QED
    BY <1>1, <1>2 DEF Modes

LEMMA ThreadsTyped ==
  ASSUME TypeOK, NEW f, NEW switches,
         StartRepairs(f, switches) \/ ThreadsMeet(switches) \/ UNCHANGED Threads
  PROVE  /\ rt' \in Runtimes /\ Len(rt'.queue) <= QueueMax
         /\ pump' \in {"off", "check", "recv", "blocked"} /\ worker' \in WorkerStates
         /\ rt'.completed => rt.completed
  <1>. DEFINE fresh == [NoRuntime EXCEPT !.on = TRUE]
  <1>1. fresh \in Runtimes /\ Len(fresh.queue) = 0 /\ fresh.completed = FALSE
    <2>1. <<>> \in Seq(Missing) /\ {} \in Missing /\ Len(<<>>) = 0
      BY DEF Missing
    <2>2. /\ NoRuntime \in Runtimes /\ NoRuntime.queue = <<>>
          /\ NoRuntime.completed = FALSE
      BY <2>1 DEF Runtimes, NoRuntime
    <2>. QED
      BY <2>1, <2>2 DEF Runtimes
  <1>2. [pc |-> "check", request |-> {}] \in WorkerStates
    BY DEF WorkerStates, Missing
  <1>3. 0 <= QueueMax
    BY SenderAssumption
  <1>. HIDE DEF fresh
  <1>4. \/ rt' = fresh /\ pump' = "check" /\ worker' = [pc |-> "check", request |-> {}]
        \/ rt' = rt /\ pump' \in {pump, "blocked"} /\ worker' = worker
    BY DEF StartRepairs, ThreadsMeet, PumpMeets, Threads, fresh
  <1>. QED
    BY <1>1, <1>2, <1>3, <1>4, TypeParts

LEMMA StoppingTyped ==
  ASSUME TypeOK
  PROVE  /\ Stopping \in Runtimes /\ Stopping.queue = rt.queue
         /\ Stopping.completed = rt.completed
  BY TypeParts DEF Stopping, Runtimes

LEMMA PumpCheckStep ==
  ASSUME Heard, PumpCheck, rcv' = rcv
  PROVE  Heard'
  <1>1. TypeOK'
    BY TypeParts, TypesKept, CallTyped DEF Heard, TInv, PumpCheck, Outside, Threads
  <1>2. Steady' /\ Told'
    BY DEF Heard, TInv, Steady, Told, PumpCheck, Outside, Threads
  <1>. QED
    BY <1>1, <1>2 DEF Heard, TInv

LEMMA PumpTimeoutStep ==
  ASSUME Heard, PumpTimeout, rcv' = rcv
  PROVE  Heard'
  <1>1. TypeOK'
    BY TypeParts, TypesKept, CallTyped DEF Heard, TInv, PumpTimeout, Outside, Threads
  <1>2. Steady' /\ Told'
    BY DEF Heard, TInv, Steady, Told, PumpTimeout, Outside, Threads
  <1>. QED
    BY <1>1, <1>2 DEF Heard, TInv

LEMMA WorkerCheckStep ==
  ASSUME Heard, WorkerCheck, rcv' = rcv
  PROVE  Heard'
  <1>1. TypeOK'
    BY TypeParts, TypesKept, CallTyped
    DEF Heard, TInv, WorkerCheck, Outside, Threads, WorkerStates
  <1>2. Steady' /\ Told'
    BY DEF Heard, TInv, Steady, Told, WorkerCheck, Outside, Threads
  <1>. QED
    BY <1>1, <1>2 DEF Heard, TInv

LEMMA WorkerTimeoutStep ==
  ASSUME Heard, WorkerTimeout, rcv' = rcv
  PROVE  Heard'
  <1>1. TypeOK'
    BY TypeParts, TypesKept, CallTyped
    DEF Heard, TInv, WorkerTimeout, Outside, Threads, WorkerStates
  <1>2. Steady' /\ Told'
    BY DEF Heard, TInv, Steady, Told, WorkerTimeout, Outside, Threads
  <1>. QED
    BY <1>1, <1>2 DEF Heard, TInv

LEMMA SignalStep ==
  ASSUME Heard, Signal, rcv' = rcv
  PROVE  Heard'
  <1>1. TypeOK'
    BY TypeParts, TypesKept, CallTyped DEF Heard, TInv, Signal, Outside, Threads
  <1>2. Steady' /\ Told'
    BY DEF Heard, TInv, Steady, Told, Signal, Outside, Threads
  <1>. QED
    BY <1>1, <1>2 DEF Heard, TInv

LEMMA EditSourceStep ==
  ASSUME Heard, EditSource, rcv' = rcv
  PROVE  Heard'
  <1>1. TypeOK'
    BY TypeParts, TypesKept, CallTyped DEF Heard, TInv, EditSource, Outside, Threads
  <1>2. Steady' /\ Told'
    BY DEF Heard, TInv, Steady, Told, EditSource, Outside, Threads
  <1>. QED
    BY <1>1, <1>2 DEF Heard, TInv

LEMMA DeadlinePassesStep ==
  ASSUME Heard, DeadlinePasses, rcv' = rcv
  PROVE  Heard'
  <1>1. TypeOK'
    BY TypeParts, TypesKept, CallTyped
    DEF Heard, TInv, DeadlinePasses, Outside, Threads, Modes
  <1>2. Steady' /\ Told'
    BY DEF Heard, TInv, Steady, Told, DeadlinePasses, Outside, Threads
  <1>. QED
    BY <1>1, <1>2 DEF Heard, TInv

LEMMA SendChunkStep ==
  ASSUME Heard, SendChunk, rcv' = rcv
  PROVE  Heard'
  <1>1. /\ main' \in MainStates
        /\ main'.pc = "pass"
        /\ main'.phaseDone = main.phaseDone /\ main'.signalled = main.signalled /\ (main'.completed => main.completed)
        /\ main'.result = main.result
    <2>1. main \in MainStates /\ call.total \in Nat
          /\ main.next + 1 \in 0 .. call.total /\ main.frames \subseteq Frame
      BY TypeParts, CallTyped DEF Heard, TInv, Steady, SendChunk, MainStates
    <2>. QED
      BY <2>1 DEF SendChunk, MainStates
  <1>2. TypeOK'
    <2>1. wire' \subseteq Frame
      BY TypeParts DEF Heard, TInv, SendChunk, MainStates
    <2>. QED
      BY <1>1, <2>1, TypeParts, TypesKept DEF Heard, TInv, SendChunk, Outside, Threads
  <1>3. Steady'
    BY <1>1 DEF Heard, TInv, Steady, SendChunk, Outside
  <1>4. Told'
    BY <1>1, ToldKept, StoppingTyped DEF Heard, TInv, SendChunk, Threads
  <1>. QED
    BY <1>2, <1>3, <1>4 DEF Heard, TInv

LEMMA DropChunkStep ==
  ASSUME Heard, DropChunk, rcv' = rcv
  PROVE  Heard'
  <1>1. /\ main' \in MainStates
        /\ main'.pc = "pass"
        /\ main'.phaseDone = main.phaseDone /\ main'.signalled = main.signalled /\ (main'.completed => main.completed)
        /\ main'.result = main.result
    <2>1. main \in MainStates /\ call.total \in Nat
          /\ main.next + 1 \in 0 .. call.total
          /\ main.dropped \cup {main.next} \in Missing
      BY TypeParts, CallTyped
      DEF Heard, TInv, Steady, DropChunk, MainStates, Missing, Chunks
    <2>. QED
      BY <2>1 DEF DropChunk, MainStates
  <1>2. TypeOK'
    BY <1>1, TypeParts, TypesKept, StoppingTyped
    DEF Heard, TInv, DropChunk, Outside, Threads
  <1>3. Steady'
    BY <1>1 DEF Heard, TInv, Steady, DropChunk, Outside
  <1>4. Told'
    BY <1>1, ToldKept, StoppingTyped DEF Heard, TInv, DropChunk, Threads
  <1>. QED
    BY <1>2, <1>3, <1>4 DEF Heard, TInv

LEMMA BeforeWaitStep ==
  ASSUME Heard, BeforeWait, rcv' = rcv
  PROVE  Heard'
  <1>1. /\ main' \in MainStates
        /\ main'.pc \in {"drain", "probe"}
        /\ main'.phaseDone = main.phaseDone /\ main'.signalled = main.signalled /\ (main'.completed => main.completed)
        /\ main'.result = main.result
    <2>1. main \in MainStates /\ call.total \in Nat
      BY TypeParts, CallTyped DEF Heard, TInv, Steady, BeforeWait
    <2>. QED
      BY <2>1 DEF BeforeWait, MainStates, Missing
  <1>2. TypeOK'
    BY <1>1, TypeParts, TypesKept, StoppingTyped
    DEF Heard, TInv, BeforeWait, Outside, Threads
  <1>3. Steady'
    BY <1>1 DEF Heard, TInv, Steady, BeforeWait, Outside
  <1>4. Told'
    BY <1>1, ToldKept, StoppingTyped DEF Heard, TInv, BeforeWait, Threads
  <1>. QED
    BY <1>2, <1>3, <1>4 DEF Heard, TInv

LEMMA DrainEndStep ==
  ASSUME Heard, DrainEnd, rcv' = rcv
  PROVE  Heard'
  <1>1. /\ main' \in MainStates
        /\ main'.pc = (IF main.phaseDone THEN "probe" ELSE "send") /\ main'.next = main.next
        /\ main'.phaseDone = main.phaseDone /\ main'.signalled = main.signalled /\ (main'.completed => main.completed)
        /\ main'.result = main.result
    <2>1. main \in MainStates /\ call.total \in Nat
      BY TypeParts, CallTyped DEF Heard, TInv, Steady, DrainEnd
    <2>. QED
      BY <2>1 DEF DrainEnd, MainStates, Missing
  <1>2. TypeOK'
    BY <1>1, TypeParts, TypesKept, StoppingTyped
    DEF Heard, TInv, DrainEnd, Outside, Threads
  <1>3. Steady'
    BY <1>1 DEF Heard, TInv, Steady, DrainEnd, Outside
  <1>4. Told'
    BY <1>1, ToldKept, StoppingTyped DEF Heard, TInv, DrainEnd, Threads
  <1>. QED
    BY <1>2, <1>3, <1>4 DEF Heard, TInv

LEMMA EndPassStep ==
  ASSUME Heard, EndPass, rcv' = rcv
  PROVE  Heard'
  <1>1. /\ main' \in MainStates
        /\ main'.pc = "join" /\ main'.phaseDone /\ main'.signalled = main.signalled /\ (main'.completed => main.completed)
        /\ main'.result = main.result
    <2>1. main \in MainStates /\ call.total \in Nat
      BY TypeParts, CallTyped DEF Heard, TInv, Steady, EndPass
    <2>. QED
      BY <2>1, LeavingTyped DEF EndPass
  <1>2. TypeOK'
    BY <1>1, TypeParts, TypesKept, StoppingTyped
    DEF Heard, TInv, EndPass, Outside, Threads
  <1>3. Steady'
    BY <1>1 DEF Heard, TInv, Steady, EndPass, Outside
  <1>4. Told'
    BY <1>1, ToldKept, StoppingTyped DEF Heard, TInv, EndPass, Threads
  <1>. QED
    BY <1>2, <1>3, <1>4 DEF Heard, TInv

LEMMA BeginStep ==
  ASSUME Heard, Begin, rcv' = rcv
  PROVE  Heard'
  <1>1. /\ main' \in MainStates
        /\ main'.pc = "manifest" /\ main.pc = "start"
        /\ main'.phaseDone = main.phaseDone /\ main'.signalled = main.signalled /\ (main'.completed => main.completed)
        /\ main'.result = main.result
    BY TypeParts DEF Heard, TInv, Begin, MainStates
  <1>2. fb' \in Modes /\ uplink' \subseteq uplink
    BY TypeParts, ProbedTyped DEF Heard, TInv, Begin
  <1>3. /\ rt' \in Runtimes /\ Len(rt'.queue) <= QueueMax
        /\ pump' \in {"off", "check", "recv", "blocked"} /\ worker' \in WorkerStates
        /\ rt'.completed => rt.completed
    BY ThreadsTyped DEF Heard, TInv, Begin
  <1>4. TypeOK'
    BY <1>1, <1>2, <1>3, TypeParts, TypesKept DEF Heard, TInv, Begin, Outside
  <1>5. Steady'
    BY <1>1 DEF Heard, TInv, Steady, Begin, Outside
  <1>6. Told'
    BY <1>1, <1>2, <1>3, ToldKept DEF Heard
  <1>. QED
    BY <1>4, <1>5, <1>6 DEF Heard, TInv

LEMMA SendManifestStep ==
  ASSUME Heard, SendManifest, rcv' = rcv
  PROVE  Heard'
  <1>1. /\ main' \in MainStates
        /\ main'.pc = "manifest" /\ main.pc = "manifest"
        /\ main'.phaseDone = main.phaseDone /\ main'.signalled = main.signalled /\ (main'.completed => main.completed)
        /\ main'.result = main.result
    <2>1. main \in MainStates /\ main.copies - 1 \in 0 .. Repeats
      BY TypeParts, SenderAssumption DEF Heard, TInv, SendManifest, MainStates
    <2>. QED
      BY <2>1 DEF SendManifest, MainStates
  <1>2. fb' \in Modes /\ uplink' \subseteq uplink
    BY TypeParts, ProbedTyped DEF Heard, TInv, SendManifest
  <1>3. wire' \subseteq Frame
    BY TypeParts DEF Heard, TInv, SendManifest, Frame
  <1>4. TypeOK'
    BY <1>1, <1>2, <1>3, TypeParts, TypesKept
    DEF Heard, TInv, SendManifest, Outside, Threads
  <1>5. Steady'
    BY <1>1 DEF Heard, TInv, Steady, SendManifest, Outside
  <1>6. Told'
    BY <1>1, <1>2, ToldKept DEF Heard, SendManifest, Threads
  <1>. QED
    BY <1>4, <1>5, <1>6 DEF Heard, TInv

LEMMA BeginPassStep ==
  ASSUME Heard, BeginPass, rcv' = rcv
  PROVE  Heard'
  <1>1. /\ main' \in MainStates
        /\ main'.signalled = main.signalled /\ (main'.completed => main.completed)
        /\ \/ main'.pc = "done" /\ main'.result.kind = "empty"
           \/ /\ main'.pc = (IF call.initial THEN "pass" ELSE "before")
              /\ main'.phaseDone = main.phaseDone /\ main'.result = main.result
    <2>1. main \in MainStates
      BY TypeParts DEF Heard, TInv
    <2>2. CASE main' = Returned("empty", TRUE)
      BY <2>1, <2>2, ReturnedTyped
    <2>3. CASE main' = [main EXCEPT !.pc = IF call.initial THEN "pass" ELSE "before"]
      BY <2>1, <2>3 DEF MainStates
    <2>. QED
      BY <2>2, <2>3 DEF BeginPass
  <1>2. /\ rt' \in Runtimes /\ Len(rt'.queue) <= QueueMax
        /\ pump' \in {"off", "check", "recv", "blocked"} /\ worker' \in WorkerStates
        /\ rt'.completed => rt.completed
    BY ThreadsTyped DEF Heard, TInv, BeginPass
  <1>3. TypeOK'
    BY <1>1, <1>2, TypeParts, TypesKept DEF Heard, TInv, BeginPass, Outside
  <1>4. Steady'
    <2>1. main.pc = "manifest" /\ main.phaseDone = ~call.initial /\ call' = call
      BY DEF Heard, TInv, Steady, BeginPass, Outside
    <2>2. main'.pc = "before" => main'.phaseDone
      BY <1>1, <2>1
    <2>3. main'.pc \in {"pass", "before", "done"}
      BY <1>1
    <2>. QED
      BY <2>1, <2>2, <2>3 DEF Heard, TInv, Steady, BeginPass
  <1>5. Told'
    BY <1>1, <1>2, ToldKept DEF Heard, BeginPass
  <1>. QED
    BY <1>3, <1>4, <1>5 DEF Heard, TInv

LEMMA PassChunkStep ==
  ASSUME Heard, PassChunk, rcv' = rcv
  PROVE  Heard'
  <1>1. PICK idle \in BOOLEAN, due \in BOOLEAN :
          LET f == IF idle THEN ModeIs(FALSE) ELSE fb
              probes == due /\ AutoFeedback /\ ~f.active
          IN
          IF Readable(main.next)
          THEN /\ main' = [main EXCEPT
                             !.pc = IF f.active /\ ~f.prior /\ ~rt.on THEN "drain" ELSE "send",
                             !.frames = DataOf({main.next}), !.rounds = 0, !.chunks = 0]
               /\ Probed(f, due)
               /\ IF fb'.active /\ ~f.active THEN StartRepairs(fb', TRUE)
                  ELSE ThreadsMeet(idle \/ probes)
          ELSE /\ main' = [main EXCEPT !.next = @ + 1]
               /\ fb' = f
               /\ ThreadsMeet(idle)
               /\ UNCHANGED uplink
    BY DEF PassChunk
  <1>. DEFINE f == IF idle THEN ModeIs(FALSE) ELSE fb
  <1>2. main \in MainStates /\ call \in Calls /\ call.total \in Nat /\ f \in Modes
    BY TypeParts, CallTyped, ModeIsTyped DEF Heard, TInv
  <1>3. main.next + 1 \in 0 .. call.total /\ main.next \in Chunks /\ main.next < call.total
    BY <1>2 DEF PassChunk, MainStates, Chunks
  <1>4. DataOf({main.next}) \in SUBSET Frame
    BY <1>2, <1>3, DataOfTyped
  <1>. HIDE DEF f
  <1>5. /\ main' \in MainStates
        /\ \/ main'.pc \in {"drain", "send"} /\ main'.next = main.next
           \/ main'.pc = "pass"
        /\ main'.phaseDone = main.phaseDone /\ main'.signalled = main.signalled /\ (main'.completed => main.completed)
        /\ main'.result = main.result
    <2>1. CASE main' = [main EXCEPT !.next = @ + 1]
      BY <1>2, <1>3, <2>1 DEF MainStates, PassChunk
    <2>2. CASE main' = [main EXCEPT
                          !.pc = IF f.active /\ ~f.prior /\ ~rt.on THEN "drain" ELSE "send",
                          !.frames = DataOf({main.next}), !.rounds = 0, !.chunks = 0]
      BY <1>2, <1>4, <2>2 DEF MainStates
    <2>. QED
      BY <1>1, <2>1, <2>2 DEF f
  <1>6. fb' \in Modes /\ uplink' \subseteq uplink
    BY <1>1, <1>2, ProbedTyped DEF f
  <1>7. /\ rt' \in Runtimes /\ Len(rt'.queue) <= QueueMax
        /\ pump' \in {"off", "check", "recv", "blocked"} /\ worker' \in WorkerStates
        /\ rt'.completed => rt.completed
    <2>1. PICK switches : StartRepairs(fb', switches) \/ ThreadsMeet(switches)
      BY <1>1
    <2>. QED
      BY <2>1, ThreadsTyped DEF Heard, TInv
  <1>8. TypeOK'
    BY <1>5, <1>6, <1>7, TypeParts, TypesKept DEF Heard, TInv, PassChunk, Outside
  <1>9. Steady'
    BY <1>3, <1>5 DEF Heard, TInv, Steady, PassChunk, Outside
  <1>10. Told'
    BY <1>5, <1>6, <1>7, ToldKept DEF Heard
  <1>. QED
    BY <1>8, <1>9, <1>10 DEF Heard, TInv

LEMMA JoinThreadsStep ==
  ASSUME Heard, JoinThreads, rcv' = rcv
  PROVE  Heard'
  <1>1. /\ main' \in MainStates
        /\ main'.signalled => main.signalled \/ rt.completed \/ main.completed
        /\ main'.completed => rt.completed \/ main.completed
        /\ \/ main'.pc = "done" /\ main'.result.kind # "feedback"
           \/ main'.pc = "tail" /\ main'.phaseDone = main.phaseDone /\ main'.result = main.result
    <2>1. main \in MainStates /\ rt \in Runtimes
      BY TypeParts DEF Heard, TInv
    <2>2. HeardComplete \in BOOLEAN /\ (HeardComplete => rt.completed \/ main.completed)
      BY <2>1 DEF HeardComplete, Runtimes, MainStates
    <2>3. CASE main' = Aborted \/ main' = Returned("raised", FALSE)
      BY <2>1, <2>3, ReturnedTyped DEF Aborted
    <2>4. CASE main' = [main EXCEPT !.pc = "tail", !.completed = HeardComplete,
                                    !.signalled = @ \/ HeardComplete,
                                    !.repaired = @ \/ rt.repaired]
      <3>. DEFINE signalled == main.signalled \/ HeardComplete
                  repaired == main.repaired \/ rt.repaired
      <3>1. signalled \in BOOLEAN /\ repaired \in BOOLEAN
        BY <2>1, <2>2, ZenonT(30) DEF MainStates, Runtimes
      <3>2. signalled => main.signalled \/ rt.completed \/ main.completed
        BY <2>2
      <3>3. main' = [main EXCEPT !.pc = "tail", !.completed = HeardComplete,
                                 !.signalled = signalled, !.repaired = repaired]
        BY <2>4
      <3>. HIDE DEF signalled, repaired
      <3>. QED
        BY <2>1, <2>2, <3>1, <3>2, <3>3 DEF MainStates
    <2>. QED
      BY <2>3, <2>4 DEF JoinThreads
  <1>2. /\ rt' \in Runtimes /\ Len(rt'.queue) <= QueueMax
        /\ rt'.completed => rt.completed
    <2>1. <<>> \in Seq(Missing) /\ {} \in Missing /\ Len(<<>>) = 0 /\ 0 <= QueueMax
      BY SenderAssumption DEF Missing
    <2>2. /\ NoRuntime \in Runtimes /\ NoRuntime.queue = <<>>
          /\ NoRuntime.completed = FALSE
      BY <2>1 DEF Runtimes, NoRuntime
    <2>3. CASE rt' = [NoRuntime EXCEPT !.stop = TRUE]
      BY <2>1, <2>2, <2>3 DEF Runtimes
    <2>4. CASE rt' = rt
      BY <2>4, TypeParts DEF Heard, TInv
    <2>. QED
      BY <2>3, <2>4 DEF JoinThreads
  <1>3. TypeOK'
    BY <1>1, <1>2, TypeParts, TypesKept DEF Heard, TInv, JoinThreads, Outside
  <1>4. Steady'
    BY <1>1 DEF Heard, TInv, Steady, JoinThreads, Outside
  <1>5. Told'
    BY <1>1, <1>2, ToldKept DEF Heard, JoinThreads
  <1>. QED
    BY <1>3, <1>4, <1>5 DEF Heard, TInv

LEMMA SendTailStep ==
  ASSUME Heard, SendTail, rcv' = rcv
  PROVE  Heard'
  <1>1. main \in MainStates /\ call \in Calls /\ wire \subseteq Frame
    BY TypeParts DEF Heard, TInv
  <1>2. /\ main' \in MainStates
        /\ main'.signalled = main.signalled /\ (main'.completed => main.completed)
        /\ \/ main'.pc = "done" /\ main'.result.kind # "feedback"
           \/ main'.pc = "before" /\ main'.phaseDone = main.phaseDone
              /\ main'.result = main.result
    <2>1. CASE main' = Aborted
      BY <1>1, <2>1, ReturnedTyped DEF Aborted
    <2>2. CASE main' = [main EXCEPT !.pc = "before"]
      BY <1>1, <2>2 DEF MainStates
    <2>3. CASE main' = [main EXCEPT !.pc = "before", !.dropped = DroppedAfterTail]
      <3>1. DroppedAfterTail \in Missing
        BY <1>1 DEF DroppedAfterTail, MainStates, Missing
      <3>. QED
        BY <1>1, <2>3, <3>1 DEF MainStates
    <2>. QED
      BY <2>1, <2>2, <2>3 DEF SendTail
  <1>3. wire' \subseteq Frame
    <2>1. \A S \in SUBSET TailChunks : DataOf(S) \subseteq Frame
      BY <1>1, DataOfTyped DEF TailChunks
    <2>2. PICK S \in SUBSET TailChunks : wire' = wire \/ wire' = wire \cup DataOf(S)
      BY DEF SendTail
    <2>. QED
      BY <1>1, <2>1, <2>2
  <1>4. TypeOK'
    BY <1>2, <1>3, TypeParts, TypesKept DEF Heard, TInv, SendTail, Outside, Threads
  <1>5. Steady'
    BY <1>2 DEF Heard, TInv, Steady, SendTail, Outside
  <1>6. Told'
    BY <1>2, ToldKept DEF Heard, SendTail, Threads
  <1>. QED
    BY <1>4, <1>5, <1>6 DEF Heard, TInv

LEMMA DecideStep ==
  ASSUME Heard, Decide, rcv' = rcv
  PROVE  Heard'
  <1>1. main \in MainStates /\ call \in Calls /\ known \in BOOLEAN /\ main.pc # "done"
    BY TypeParts DEF Heard, TInv, Decide
  <1>2. fb' \in Modes /\ uplink' \subseteq uplink
    BY TypeParts, ProbedTyped DEF Heard, TInv, Decide
  <1>3. /\ main' \in MainStates
        /\ main'.signalled = main.signalled /\ (main'.completed => main.completed)
        /\ \/ main'.pc = "done" /\ (main'.result.kind = "feedback" => main.signalled)
           \/ main'.pc = "wait" /\ main'.result = main.result
    <2>1. CASE main' = Returned("open", main.dropped = {})
      <3>1. (main.dropped = {}) \in BOOLEAN
        OBVIOUS
      <3>. QED
        BY <1>1, <2>1, <3>1, ReturnedTyped
    <2>2. CASE main' = Returned("feedback", TRUE) /\ main.signalled
      BY <1>1, <2>2, ReturnedTyped
    <2>3. CASE main' = [main EXCEPT !.pc = "wait", !.completed = FALSE]
      BY <1>1, <2>3 DEF MainStates
    <2>. QED
      BY <2>1, <2>2, <2>3 DEF Decide
  <1>4. known' \in BOOLEAN
    BY DEF Decide
  <1>8. /\ rt' \in Runtimes /\ Len(rt'.queue) <= QueueMax
        /\ pump' \in {"off", "check", "recv", "blocked"} /\ worker' \in WorkerStates
        /\ rt'.completed => rt.completed
    BY ThreadsTyped DEF Heard, TInv, Decide
  <1>5. TypeOK'
    BY <1>2, <1>3, <1>4, <1>8, TypeParts, TypesKept DEF Heard, TInv, Decide, Outside
  <1>6. Steady'
    BY <1>1, <1>3 DEF Heard, TInv, Steady, Decide
  <1>7. Told'
    BY <1>2, <1>3, <1>8, ToldKept DEF Heard, Decide
  <1>. QED
    BY <1>5, <1>6, <1>7 DEF Heard, TInv

LEMMA WaitOverStep ==
  ASSUME Heard, WaitOver, rcv' = rcv
  PROVE  Heard'
  <1>1. main \in MainStates /\ call \in Calls /\ known \in BOOLEAN /\ fb \in Modes
    BY TypeParts DEF Heard, TInv
  <1>2. /\ main' \in MainStates
        /\ main'.signalled = main.signalled /\ (main'.completed => main.completed) /\ main'.pc = "done"
        /\ main'.result.completed = FALSE
    BY <1>1, ReturnedTyped DEF WaitOver
  <1>3. fb' \in Modes
    BY <1>1, ModeIsTyped DEF WaitOver
  <1>4. known' \in BOOLEAN
    BY <1>1, <1>3 DEF WaitOver, Remember, Modes
  <1>8. /\ rt' \in Runtimes /\ Len(rt'.queue) <= QueueMax
        /\ pump' \in {"off", "check", "recv", "blocked"} /\ worker' \in WorkerStates
        /\ rt'.completed => rt.completed
    BY ThreadsTyped DEF Heard, TInv, WaitOver
  <1>5. TypeOK'
    BY <1>2, <1>3, <1>4, <1>8, TypeParts, TypesKept DEF Heard, TInv, WaitOver, Outside
  <1>6. Steady'
    BY <1>2 DEF Heard, TInv, Steady
  <1>7. Told'
    BY <1>2, <1>8, ToldKept DEF Heard, WaitOver
  <1>. QED
    BY <1>5, <1>6, <1>7 DEF Heard, TInv

LEMMA WaitIdleStep ==
  ASSUME Heard, WaitIdle, rcv' = rcv
  PROVE  Heard'
  <1>1. /\ main \in MainStates /\ spent \in Spending /\ fb \in Modes /\ known \in BOOLEAN
        /\ main.pc = "wait" /\ spent.idle < MaxIdle /\ MaxIdle \in Nat
    BY TypeParts, SenderAssumption DEF Heard, TInv, Steady, WaitIdle, Waiting
  <1>2. spent' \in Spending /\ spent'.idle = OneMoreIdle
    BY <1>1 DEF WaitIdle, OneMoreIdle, Spending
  <1>3. /\ main' \in MainStates /\ main'.signalled = main.signalled /\ (main'.completed => main.completed) /\ known' \in BOOLEAN
        /\ \/ main'.pc = "done" /\ main'.result.completed = FALSE
           \/ main' = main /\ ~(OneMoreIdle >= MaxIdle)
    <2>1. CASE main' = Returned("feedback", FALSE) /\ Remember(fb)
      <3>1. known' \in BOOLEAN
        BY <1>1, <2>1 DEF Remember, Modes
      <3>. QED
        BY <1>1, <2>1, <3>1, ReturnedTyped
    <2>2. CASE ~(OneMoreIdle >= MaxIdle) /\ UNCHANGED <<main, known>>
      BY <1>1, <2>2
    <2>. QED
      BY <2>1, <2>2 DEF WaitIdle
  <1>4. wire' \subseteq Frame
    BY TypeParts DEF Heard, TInv, WaitIdle, Frame
  <1>5. TypeOK'
    BY <1>2, <1>3, <1>4, TypeParts, TypesKept DEF Heard, TInv, WaitIdle, Outside, Threads
  <1>6. Steady'
    <2>1. OneMoreIdle \in Nat
      BY <1>1 DEF OneMoreIdle, Spending
    <2>. QED
      BY <1>1, <1>2, <1>3, <2>1 DEF Heard, TInv, Steady, WaitIdle, Outside
  <1>7. Told'
    BY <1>3, ToldKept DEF Heard, WaitIdle, Threads
  <1>. QED
    BY <1>5, <1>6, <1>7 DEF Heard, TInv

LEMMA SendBlockedStep ==
  ASSUME Heard, SendBlocked, rcv' = rcv
  PROVE  Heard'
  <1>1. main \in MainStates
    BY TypeParts DEF Heard, TInv
  <1>2. /\ main' \in MainStates /\ main'.signalled = main.signalled /\ (main'.completed => main.completed)
        /\ \/ main'.pc = "done" /\ main'.result.kind # "feedback"
           \/ /\ main'.pc = "join" /\ main'.phaseDone /\ main'.result = main.result
              /\ main.pc # "done"
    <2>1. PICK exit \in {"raised", "aborted"} :
            main' = IF InPass THEN Leaving(exit) ELSE Returned(exit, FALSE)
      BY DEF SendBlocked
    <2>2. CASE InPass
      BY <1>1, <2>1, <2>2, LeavingTyped DEF InPass
    <2>3. CASE ~InPass
      BY <1>1, <2>1, <2>3, ReturnedTyped
    <2>. QED
      BY <2>2, <2>3
  <1>3. /\ rt' \in Runtimes /\ Len(rt'.queue) <= QueueMax
        /\ rt'.completed => rt.completed
    BY TypeParts, StoppingTyped DEF Heard, TInv, SendBlocked
  <1>4. TypeOK'
    BY <1>2, <1>3, TypeParts, TypesKept DEF Heard, TInv, SendBlocked, Outside
  <1>5. Steady'
    BY <1>2 DEF Heard, TInv, Steady, SendBlocked, Outside
  <1>6. Told'
    BY <1>2, <1>3, ToldKept DEF Heard, SendBlocked
  <1>. QED
    BY <1>4, <1>5, <1>6 DEF Heard, TInv

LEMMA FrameTyped ==
  ASSUME TypeOK, NEW u \in uplink
  PROVE  u.missing \in SUBSET Chunks /\ u.missing \in Missing
  BY TypeParts DEF UplinkFrame, Missing

LEMMA DrainFrameStep ==
  ASSUME Heard, NEW u \in uplink, DrainFrame(u), rcv' = rcv
  PROVE  Heard'
  <1>. DEFINE m == IF PollChunks > 0 THEN FirstOf(u.missing, PollChunks - main.chunks)
                   ELSE u.missing
              ended == IF main.phaseDone THEN [main EXCEPT !.pc = "probe"]
                       ELSE Leaving("normal")
  <1>1. /\ main \in MainStates /\ call \in Calls /\ wire \subseteq Frame /\ spent \in Spending
        /\ main.pc = "drain"
    BY TypeParts DEF Heard, TInv, DrainFrame
  <1>2. m \in SUBSET Chunks
    BY FrameTyped, FirstOfTyped DEF Heard, TInv
  <1>. HIDE DEF m
  <1>3. DataOf(m) \in SUBSET Frame /\ Cardinality(DataOf(m)) \in Nat
    BY <1>1, <1>2, DataOfTyped
  <1>4. /\ ended \in MainStates /\ ended.pc \in {"probe", "join"} /\ ended.phaseDone
        /\ ended.result = main.result
    <2>1. CASE main.phaseDone
      BY <1>1, <2>1 DEF MainStates
    <2>2. CASE ~main.phaseDone
      BY <1>1, <2>2, LeavingTyped
    <2>. QED
      BY <2>1, <2>2
  <1>. HIDE DEF ended
  <1>5. CASE /\ u.state = "COMPLETE"
             /\ main' = [ended EXCEPT !.completed = TRUE, !.signalled = TRUE]
             /\ UNCHANGED <<spent, wire>>
    <2>1. /\ main' \in MainStates /\ main'.pc \in {"probe", "join"} /\ main'.phaseDone
          /\ main'.result = main.result
      BY <1>4, <1>5 DEF MainStates
    <2>2. rcv.placed
      BY <1>5 DEF Heard, Told
    <2>3. TypeOK'
      BY <1>5, <2>1, TypeParts, TypesKept DEF Heard, TInv, DrainFrame, Outside, Threads
    <2>4. Steady'
      BY <1>1, <1>5, <2>1 DEF Heard, TInv, Steady, DrainFrame, Outside
    <2>5. Told'
      BY <2>1, <2>2, ToldKept DEF Heard, DrainFrame, Threads
    <2>. QED
      BY <2>3, <2>4, <2>5 DEF Heard, TInv
  <1>6. CASE /\ main' = [main EXCEPT !.rounds = @ + 1, !.repaired = TRUE,
                                     !.chunks = @ + Cardinality(DataOf(m))]
             /\ spent' = [spent EXCEPT !.budget = @ + 1]
             /\ wire' = wire \cup DataOf(m)
    <2>1. /\ main' \in MainStates /\ main'.pc = main.pc /\ main'.phaseDone = main.phaseDone
          /\ main'.result = main.result /\ main'.signalled = main.signalled /\ (main'.completed => main.completed)
          /\ main'.next = main.next
      <3>1. main.rounds + 1 \in Nat /\ main.chunks + Cardinality(DataOf(m)) \in Nat
        BY <1>1, <1>3 DEF MainStates
      <3>. QED
        BY <1>1, <1>6, <3>1 DEF MainStates
    <2>2. spent' \in Spending /\ spent'.idle = spent.idle
      BY <1>1, <1>6 DEF Spending
    <2>3. wire' \subseteq Frame
      BY <1>1, <1>3, <1>6
    <2>4. TypeOK'
      BY <2>1, <2>2, <2>3, TypeParts, TypesKept
      DEF Heard, TInv, DrainFrame, Outside, Threads
    <2>5. Steady'
      BY <2>1, <2>2 DEF Heard, TInv, Steady, DrainFrame, Outside
    <2>6. Told'
      BY <2>1, ToldKept DEF Heard, DrainFrame, Threads
    <2>. QED
      BY <2>4, <2>5, <2>6 DEF Heard, TInv
  <1>7. CASE UNCHANGED <<main, spent, wire>>
    <2>1. TypeOK'
      BY <1>7, TypeParts, TypesKept DEF Heard, TInv, DrainFrame, Outside, Threads
    <2>2. Steady'
      BY <1>7 DEF Heard, TInv, Steady, DrainFrame, Outside
    <2>3. Told'
      BY <1>7, ToldKept DEF Heard, DrainFrame, Threads
    <2>. QED
      BY <2>1, <2>2, <2>3 DEF Heard, TInv
  <1>. QED
    BY <1>5, <1>6, <1>7 DEF DrainFrame, m, ended

LEMMA WaitFrameStep ==
  ASSUME Heard, NEW u \in uplink, WaitFrame(u), rcv' = rcv
  PROVE  Heard'
  <1>1. /\ main \in MainStates /\ call \in Calls /\ wire \subseteq Frame /\ spent \in Spending
        /\ fb \in Modes /\ known \in BOOLEAN /\ main.pc = "wait"
    BY TypeParts DEF Heard, TInv, WaitFrame, Waiting
  <1>2. /\ u.missing \in Missing
        /\ wire \cup DataOf(u.missing) \subseteq Frame
    BY <1>1, FrameTyped, DataOfTyped DEF Heard, TInv
  <1>3. CASE /\ u.state \in {"COMPLETE", "HASH_MISMATCH"}
             /\ main' = Returned("feedback", u.state = "COMPLETE")
             /\ Remember(fb)
             /\ UNCHANGED <<spent, wire>>
    <2>1. (u.state = "COMPLETE") \in BOOLEAN
      OBVIOUS
    <2>2. /\ main' \in MainStates /\ main'.pc = "done" /\ main'.signalled = main.signalled /\ (main'.completed => main.completed)
          /\ main'.result.completed = (u.state = "COMPLETE")
      BY <1>1, <1>3, <2>1, ReturnedTyped
    <2>3. main'.result.completed => rcv.placed
      BY <2>2 DEF Heard, Told
    <2>4. known' \in BOOLEAN
      BY <1>1, <1>3 DEF Remember, Modes
    <2>5. TypeOK'
      BY <1>3, <2>2, <2>4, TypeParts, TypesKept
      DEF Heard, TInv, WaitFrame, Outside, Threads
    <2>6. Steady'
      BY <2>2 DEF Heard, TInv, Steady
    <2>7. Told'
      BY <2>2, <2>3, ToldKept DEF Heard, WaitFrame, Threads
    <2>. QED
      BY <2>5, <2>6, <2>7 DEF Heard, TInv
  <1>4. CASE /\ main' = [main EXCEPT !.repaired = TRUE, !.last = u.missing]
             /\ spent' = [budget |-> spent.budget + 1, rounds |-> spent.rounds + 1, idle |-> 0]
             /\ wire' = wire \cup DataOf(u.missing)
             /\ UNCHANGED known
    <2>1. /\ main' \in MainStates /\ main'.pc = main.pc
          /\ main'.result = main.result /\ main'.signalled = main.signalled /\ (main'.completed => main.completed)
      BY <1>1, <1>2, <1>4 DEF MainStates
    <2>2. spent' \in Spending /\ spent'.idle = 0 /\ 0 < MaxIdle
      BY <1>1, <1>4, SenderAssumption DEF Spending
    <2>3. TypeOK'
      BY <1>2, <1>4, <2>1, <2>2, TypeParts, TypesKept
      DEF Heard, TInv, WaitFrame, Outside, Threads
    <2>4. Steady'
      BY <1>1, <2>1, <2>2 DEF Heard, TInv, Steady
    <2>5. Told'
      BY <2>1, ToldKept DEF Heard, WaitFrame, Threads
    <2>. QED
      BY <2>3, <2>4, <2>5 DEF Heard, TInv
  <1>5. CASE spent' \in {spent, [spent EXCEPT !.idle = 0]} /\ UNCHANGED <<main, known, wire>>
    <2>1. spent' \in Spending /\ spent'.idle < MaxIdle
      BY <1>1, <1>5, SenderAssumption DEF Heard, TInv, Steady, Spending
    <2>2. TypeOK'
      BY <1>5, <2>1, TypeParts, TypesKept DEF Heard, TInv, WaitFrame, Outside, Threads
    <2>3. Steady'
      BY <1>1, <1>5, <2>1 DEF Heard, TInv, Steady
    <2>4. Told'
      BY <1>5, ToldKept DEF Heard, WaitFrame, Threads
    <2>. QED
      BY <2>2, <2>3, <2>4 DEF Heard, TInv
  <1>. QED
    BY <1>3, <1>4, <1>5 DEF WaitFrame

LEMMA WorkerGetStep ==
  ASSUME Heard, WorkerGet, rcv' = rcv
  PROVE  Heard'
  <1>. DEFINE rest == SubSeq(rt.queue, 2, Len(rt.queue))
  <1>1. /\ rt' \in Runtimes /\ Len(rt'.queue) <= QueueMax
        /\ rt'.completed => rt.completed
    <2>1. rt \in Runtimes /\ rt.queue \in Seq(Missing) /\ rt.queue # <<>>
          /\ Len(rt.queue) <= QueueMax /\ QueueMax \in Nat
      BY TypeParts, SenderAssumption DEF Heard, TInv, WorkerGet, Runtimes
    <2>2. rest \in Seq(Missing) /\ Len(rest) <= Len(rt.queue) /\ Len(rest) \in Nat
      BY <2>1
    <2>3. rt' = [rt EXCEPT !.queue = rest]
      BY DEF WorkerGet
    <2>. HIDE DEF rest
    <2>. QED
      BY <2>1, <2>2, <2>3 DEF Runtimes
  <1>2. worker' \in WorkerStates
    <2>1. worker \in WorkerStates /\ rt.queue \in Seq(Missing) /\ rt.queue # <<>>
      BY TypeParts DEF Heard, TInv, WorkerGet, Runtimes
    <2>2. rt.queue[1] \in Missing
      BY <2>1
    <2>. QED
      BY <2>1, <2>2 DEF WorkerGet, WorkerStates
  <1>3. TypeOK'
    BY <1>1, <1>2, TypeParts, TypesKept DEF Heard, TInv, WorkerGet, Outside
  <1>4. Steady'
    BY DEF Heard, TInv, Steady, WorkerGet, Outside
  <1>5. Told'
    BY <1>1, ToldKept DEF Heard, WorkerGet
  <1>. QED
    BY <1>3, <1>4, <1>5 DEF Heard, TInv

LEMMA WorkerBurstStep ==
  ASSUME Heard, WorkerBurst, rcv' = rcv
  PROVE  Heard'
  <1>1. /\ rt' \in Runtimes /\ Len(rt'.queue) <= QueueMax
        /\ rt'.completed => rt.completed
    BY TypeParts DEF Heard, TInv, WorkerBurst, WorkerStates, Runtimes
  <1>2. worker' \in WorkerStates /\ wire' \subseteq Frame
    <2>1. worker.request \in SUBSET Chunks
      BY TypeParts DEF Heard, TInv, WorkerStates, Missing
    <2>2. DataOf(FirstOf(worker.request, Burst)) \subseteq Frame
      BY <2>1, FirstOfTyped, DataOfTyped, TypeParts DEF Heard, TInv
    <2>. QED
      BY <2>2, TypeParts DEF Heard, TInv, WorkerBurst, WorkerStates, Missing
  <1>3. TypeOK'
    BY <1>1, <1>2, TypeParts, TypesKept DEF Heard, TInv, WorkerBurst, Outside
  <1>4. Steady'
    BY DEF Heard, TInv, Steady, WorkerBurst, Outside
  <1>5. Told'
    BY <1>1, ToldKept DEF Heard, WorkerBurst
  <1>. QED
    BY <1>3, <1>4, <1>5 DEF Heard, TInv

LEMMA WorkerBlockedStep ==
  ASSUME Heard, WorkerBlocked, rcv' = rcv
  PROVE  Heard'
  <1>1. worker' \in WorkerStates
    BY DEF WorkerBlocked, WorkerStates, Missing
  <1>2. UNCHANGED <<rt, main, uplink>>
    BY DEF WorkerBlocked
  <1>3. TypeOK'
    BY <1>1, <1>2, TypeParts, TypesKept DEF Heard, TInv, WorkerBlocked, Outside
  <1>4. Steady'
    BY DEF Heard, TInv, Steady, WorkerBlocked, Outside
  <1>5. Told'
    BY <1>2, ToldKept DEF Heard, WorkerBlocked
  <1>. QED
    BY <1>3, <1>4, <1>5 DEF Heard, TInv

LEMMA PumpFrameStep ==
  ASSUME Heard, NEW u \in uplink, PumpFrame(u), rcv' = rcv
  PROVE  Heard'
  <1>1. /\ rt' \in Runtimes /\ Len(rt'.queue) <= QueueMax
        /\ rt'.completed => rt.completed \/ rcv.placed
    <2>1. rt \in Runtimes /\ rt.queue \in Seq(Missing) /\ Len(rt.queue) <= QueueMax
          /\ QueueMax \in Nat /\ u.missing \in Missing
      BY TypeParts, FrameTyped, SenderAssumption DEF Heard, TInv, Runtimes
    <2>2. u.state = "COMPLETE" => rcv.placed
      BY DEF Heard, Told
    <2>3. CASE UNCHANGED rt
      BY <2>1, <2>3
    <2>4. CASE u.state = "COMPLETE" /\ rt' = [rt EXCEPT !.completed = TRUE, !.stop = TRUE]
      BY <2>1, <2>2, <2>4 DEF Runtimes
    <2>5. CASE rt' = [rt EXCEPT !.mismatch = TRUE, !.stop = TRUE]
      BY <2>1, <2>5 DEF Runtimes
    <2>6. CASE rt' = [rt EXCEPT !.queue = Enqueued(u.missing)]
      <3>1. Enqueued(u.missing) \in Seq(Missing) /\ Len(Enqueued(u.missing)) <= QueueMax
        BY <2>1 DEF Enqueued
      <3>. QED
        BY <2>1, <2>6, <3>1 DEF Runtimes
    <2>. QED
      BY <2>3, <2>4, <2>5, <2>6 DEF PumpFrame
  <1>2. pump' \in {"off", "check", "recv", "blocked"} /\ uplink' \subseteq uplink
    BY DEF PumpFrame
  <1>3. TypeOK'
    BY <1>1, <1>2, TypeParts, TypesKept DEF Heard, TInv, PumpFrame, Outside
  <1>4. Steady'
    BY DEF Heard, TInv, Steady, PumpFrame, Outside
  <1>5. Told'
    BY <1>1, <1>2, ToldKept DEF Heard, PumpFrame
  <1>. QED
    BY <1>3, <1>4, <1>5 DEF Heard, TInv

\* Every step of the sender.
LEMMA SenderKeeps ==
  ASSUME Heard, SenderStep, rcv' = rcv
  PROVE  Heard'
  <1>1. CASE MainStep
    BY <1>1, BeginStep, SendManifestStep, BeginPassStep, PassChunkStep, SendChunkStep,
       DropChunkStep, EndPassStep, JoinThreadsStep, SendTailStep, BeforeWaitStep,
       DrainEndStep, DecideStep, WaitOverStep, WaitIdleStep, SendBlockedStep,
       DrainFrameStep, WaitFrameStep
    DEF MainStep
  <1>2. CASE PumpStep
    BY <1>2, PumpCheckStep, PumpTimeoutStep, PumpFrameStep DEF PumpStep
  <1>3. CASE WorkerStep
    BY <1>3, WorkerCheckStep, WorkerTimeoutStep, WorkerGetStep, WorkerBurstStep,
       WorkerBlockedStep
    DEF WorkerStep
  <1>. QED
    BY <1>1, <1>2, <1>3, SignalStep, EditSourceStep, DeadlinePassesStep DEF SenderStep

-----------------------------------------------------------------------------
(* Steps of the receiver.  A transfer that is placed is closed, and stays placed. *)

LEMMA ReceiverTypesKept ==
  ASSUME TypeOK, UNCHANGED <<call, known, main, fb, spent, Threads, source, stop, wire>>,
         rcv' \in [open : BOOLEAN, placed : BOOLEAN, got : [Chunks -> {"none", "good", "bad"}]],
         uplink' \subseteq UplinkFrame
  PROVE  TypeOK'
  <1>1. SenderTypeOK'
    BY TypesStay DEF TypeOK, SenderTypeOK, Threads
  <1>. QED
    BY <1>1, TypesStay DEF TypeOK

LEMMA SentTyped ==
  ASSUME TypeOK, NEW state \in {"BEACON", "INCOMPLETE", "COMPLETE", "HASH_MISMATCH"},
         NEW missing \in Missing, Sent(Status(state, missing))
  PROVE  /\ uplink' \subseteq UplinkFrame
         /\ state # "COMPLETE" => \A u \in uplink' : u.state = "COMPLETE" => u \in uplink
  <1>1. Status(state, missing) \in UplinkFrame /\ Status(state, missing).state = state
    BY DEF Status, UplinkFrame
  <1>2. uplink' \subseteq uplink \cup {Status(state, missing)}
    BY DEF Sent
  <1>. QED
    BY <1>1, <1>2, TypeParts

LEMMA LackingTyped == Lacking \in Missing /\ {} \in Missing
  BY DEF Lacking, Missing

LEMMA ArriveManifestStep ==
  ASSUME Heard, ArriveManifest
  PROVE  Heard'
  <1>1. /\ TypeOK
        /\ rcv \in [open : BOOLEAN, placed : BOOLEAN, got : [Chunks -> {"none", "good", "bad"}]]
    BY DEF Heard, TInv, TypeOK
  <1>2. /\ rcv' \in [open : BOOLEAN, placed : BOOLEAN, got : [Chunks -> {"none", "good", "bad"}]]
        /\ rcv'.placed = rcv.placed /\ (rcv'.placed => ~rcv'.open)
    BY <1>1 DEF ArriveManifest, Heard, Told
  <1>3. /\ uplink' \subseteq UplinkFrame
        /\ \A u \in uplink' : u.state = "COMPLETE" => u \in uplink \/ rcv.placed
    <2>1. CASE rcv.placed /\ Sent(Status("COMPLETE", {}))
      BY <1>1, <2>1, SentTyped, LackingTyped
    <2>2. CASE UNCHANGED uplink
      BY <1>1, <2>2, TypeParts
    <2>3. CASE Sent(Status("INCOMPLETE", Lacking))
      BY <1>1, <2>3, SentTyped, LackingTyped
    <2>. QED
      BY <2>1, <2>2, <2>3 DEF ArriveManifest
  <1>4. TypeOK'
    BY <1>1, <1>2, <1>3, ReceiverTypesKept DEF ArriveManifest
  <1>5. Steady' /\ Told'
    BY <1>2, <1>3 DEF Heard, TInv, Steady, Told, ArriveManifest, Threads
  <1>. QED
    BY <1>4, <1>5 DEF Heard, TInv

LEMMA ArriveDataStep ==
  ASSUME Heard, NEW f \in wire, ArriveData(f)
  PROVE  Heard'
  <1>1. /\ TypeOK /\ f \in Frame /\ f.type = "DATA"
        /\ rcv \in [open : BOOLEAN, placed : BOOLEAN, got : [Chunks -> {"none", "good", "bad"}]]
    BY TypeParts DEF Heard, TInv, TypeOK, ArriveData
  <1>2. /\ rcv' \in [open : BOOLEAN, placed : BOOLEAN, got : [Chunks -> {"none", "good", "bad"}]]
        /\ rcv'.placed = rcv.placed /\ rcv'.open = rcv.open
    BY <1>1 DEF ArriveData
  <1>3. TypeOK'
    BY <1>1, <1>2, TypeParts, ReceiverTypesKept DEF ArriveData, vars, Threads
  <1>4. Steady' /\ Told'
    BY <1>2 DEF Heard, TInv, Steady, Told, ArriveData, vars
  <1>. QED
    BY <1>3, <1>4 DEF Heard, TInv

LEMMA FinalizeStep ==
  ASSUME Heard, Finalize
  PROVE  Heard'
  <1>. DEFINE whole == \A c \in Chunks : rcv.got[c] = "good"
  <1>1. TypeOK /\ rcv.open /\ ~rcv.placed
    BY DEF Heard, TInv, TypeOK, Told, Finalize
  <1>2. whole \in BOOLEAN /\ Nothing \in [Chunks -> {"none", "good", "bad"}]
    BY DEF Nothing
  <1>3. /\ rcv' = [open |-> FALSE, placed |-> whole, got |-> Nothing]
        /\ Sent(Status(IF whole THEN "COMPLETE" ELSE "HASH_MISMATCH", {}))
    BY DEF Finalize
  <1>. HIDE DEF whole
  <1>4. /\ rcv' \in [open : BOOLEAN, placed : BOOLEAN, got : [Chunks -> {"none", "good", "bad"}]]
        /\ rcv'.placed = whole /\ ~rcv'.open
    BY <1>2, <1>3
  <1>5. /\ uplink' \subseteq UplinkFrame
        /\ \A u \in uplink' : u.state = "COMPLETE" => u \in uplink \/ whole
    BY <1>1, <1>3, SentTyped, LackingTyped
  <1>6. TypeOK'
    BY <1>1, <1>4, <1>5, ReceiverTypesKept DEF Finalize
  <1>7. Steady' /\ Told'
    BY <1>1, <1>4, <1>5 DEF Heard, TInv, Steady, Told, Finalize, Threads
  <1>. QED
    BY <1>6, <1>7 DEF Heard, TInv

LEMMA AskStep ==
  ASSUME Heard, Ask
  PROVE  Heard'
  <1>1. /\ TypeOK
        /\ rcv \in [open : BOOLEAN, placed : BOOLEAN, got : [Chunks -> {"none", "good", "bad"}]]
    BY DEF Heard, TInv, TypeOK
  <1>2. /\ uplink' \subseteq UplinkFrame
        /\ \A u \in uplink' : u.state = "COMPLETE" => u \in uplink
    <2>1. Beacon = Status("BEACON", {})
      BY DEF Beacon, Status
    <2>. QED
      BY <1>1, <2>1, SentTyped, LackingTyped DEF Ask
  <1>3. TypeOK'
    BY <1>1, <1>2, ReceiverTypesKept DEF Ask
  <1>4. Steady' /\ Told'
    BY <1>2 DEF Heard, TInv, Steady, Told, Ask, Threads
  <1>. QED
    BY <1>3, <1>4 DEF Heard, TInv

-----------------------------------------------------------------------------
(* The theorems. *)

LEMMA InitHeard == Init => Heard
  <1>. SUFFICES ASSUME Init PROVE Heard
    OBVIOUS
  <1>1. /\ call \in Calls /\ call.total \in Nat /\ call.initial \in BOOLEAN
        /\ 0 \in 0 .. call.total /\ Repeats \in 0 .. Repeats /\ 0 \in 0 .. MaxIdle
        /\ 0 < MaxIdle /\ 0 <= QueueMax
    BY CallTyped, SenderAssumption DEF Init, SenderInit
  <1>2. {} \in Missing /\ <<>> \in Seq(Missing) /\ Len(<<>>) = 0
    BY DEF Missing
  <1>3. /\ main \in MainStates /\ main.pc = "start" /\ main.phaseDone = ~call.initial
        /\ main.signalled = FALSE /\ main.completed = FALSE /\ main.result.kind = "none"
    <2>1. NoResult \in SendResult /\ NoResult.kind = "none"
      BY DEF NoResult, SendResult
    <2>. QED
      BY <1>1, <1>2, <2>1 DEF Init, SenderInit, MainStates
  <1>4. fb \in Modes
    <2>1. Prioritize \in BOOLEAN
      BY <1>1, CallTyped DEF Prioritize
    <2>2. PICK active \in BOOLEAN :
            fb = [active |-> active, prior |-> active /\ Prioritize, late |-> FALSE]
      BY DEF Init, SenderInit
    <2>3. (active /\ Prioritize) \in BOOLEAN
      BY <2>1
    <2>. QED
      BY <2>2, <2>3 DEF Modes
  <1>5. rt \in Runtimes /\ Len(rt.queue) <= QueueMax /\ rt.completed = FALSE
    BY <1>1, <1>2 DEF Init, SenderInit, NoRuntime, Runtimes
  <1>6. spent \in Spending /\ spent.idle = 0
    BY <1>1 DEF Init, SenderInit, Spending
  <1>7. worker \in WorkerStates
    BY <1>2 DEF Init, SenderInit, WorkerStates
  <1>8. uplink \subseteq UplinkFrame /\ \A u \in uplink : u.state # "COMPLETE"
    <2>1. Beacon \in UplinkFrame /\ Beacon.state # "COMPLETE"
      BY <1>2 DEF Beacon, UplinkFrame
    <2>. QED
      BY <2>1 DEF Init
  <1>9. /\ rcv \in [open : BOOLEAN, placed : BOOLEAN, got : [Chunks -> {"none", "good", "bad"}]]
        /\ rcv.placed = FALSE
    BY DEF Init
  <1>10. TypeOK
    BY <1>1, <1>3, <1>4, <1>5, <1>6, <1>7, <1>8, <1>9
    DEF Init, SenderInit, TypeOK, SenderTypeOK
  <1>. QED
    BY <1>1, <1>3, <1>5, <1>6, <1>8, <1>9, <1>10 DEF Heard, TInv, Steady, Told

LEMMA NextHeard == Heard /\ [Next]_allVars => Heard'
  <1>. SUFFICES ASSUME Heard, [Next]_allVars PROVE Heard'
    OBVIOUS
  <1>1. CASE SenderStep /\ UNCHANGED rcv
    BY <1>1, SenderKeeps
  <1>2. CASE ReceiverStep
    BY <1>2, ArriveManifestStep, FinalizeStep, AskStep, ArriveDataStep DEF ReceiverStep
  <1>3. CASE UNCHANGED allVars
    <2>1. UNCHANGED <<vars, rcv>>
      BY <1>3 DEF allVars
    <2>2. TypeOK'
      BY <2>1, TypeParts, TypesKept DEF Heard, TInv, vars
    <2>. QED
      BY <2>1, <2>2 DEF Heard, TInv, Steady, Told, vars
  <1>. QED
    BY <1>1, <1>2, <1>3 DEF Next

LEMMA AlwaysHeard == Spec => []Heard
  BY InitHeard, NextHeard, PTL DEF Spec

\* Type correctness: the cursor of the pass, the copies of the manifest and the count
\* of idle timeouts stay in their ranges, the queue within its limit, and no frame
\* names a chunk that the file does not have.
THEOREM TransferTypes == Spec => []TypeOK
  <1>1. Heard => TypeOK
    BY DEF Heard, TInv
  <1>. QED
    BY <1>1, AlwaysHeard, PTL

\* A call that ends as completed with feedback active has the file in place at the
\* receiver: for any number of chunks, any limits and any loss on either link.
THEOREM TransferConfirmed == Spec => []ConfirmedIsDelivered
  <1>1. Heard => ConfirmedIsDelivered
    BY DEF Heard, Told, ConfirmedIsDelivered
  <1>. QED
    BY <1>1, AlwaysHeard, PTL


-----------------------------------------------------------------------------
(* What a call has done by the time it ends: the threads that serve it, how many *)
(* rounds it waited, and which chunks it sent.                                  *)

\* The first pass has its threads whenever feedback is active, so that the calling
\* thread drains requests only after it.
Attended ==
  /\ ThreadsServeThePass
  /\ main.pc \in {"drain", "probe", "wait"} => main.phaseDone

\* Nothing is spent before the one poll after the pass, which starts from nothing; the
\* wait serves a request only with feedback active and budget left.
Budgeted ==
  /\ BudgetKept
  /\ main.pc = "wait" => fb.active
  /\ main.pc \in {"start", "manifest", "pass", "send", "join", "tail", "before"} =>
       spent.budget = 0
  /\ main.pc = "drain" => spent.budget = main.rounds

\* What the cursor of the pass has gone past was sent, or dropped by the simulation.
OnWire(c) == \E good \in BOOLEAN : Data(c, good) \in wire
SentOrDropped(S) == \A c \in S : OnWire(c) \/ c \in main.dropped
SentSoFar ==
  /\ main.pc \in {"start", "manifest"} => main.next = 0
  /\ main.pc = "join" => main.exit # "none"
  /\ main.result.kind # "none" => main.pc = "done"
  /\ call.initial /\ source # "cut" =>
       /\ main.pc \in {"pass", "send"} => SentOrDropped({c \in Chunks : c < main.next})
       /\ main.pc = "send" => \E good \in BOOLEAN : Data(main.next, good) \in main.frames
       /\ main.pc = "join" /\ main.exit = "normal" => SentOrDropped(Chunks)
       /\ main.pc \in {"tail", "before", "drain", "probe"} => SentOrDropped(Chunks)
       /\ main.result.kind = "open" =>
            \A c \in Chunks : OnWire(c) \/ (c \in main.dropped /\ ~main.result.completed)
  /\ ~call.initial =>
       /\ main.pc \notin {"pass", "send", "join", "tail"}
       /\ main.dropped = {}
       /\ main.result.kind = "open" => main.result.completed

\* The three together, which every step keeps.
Settled == Attended /\ Budgeted /\ SentSoFar

-----------------------------------------------------------------------------
(* Steps of the calling thread. *)

LEMMA Fields ==
  ASSUME TypeOK
  PROVE  /\ main \in MainStates /\ fb \in Modes /\ spent \in Spending /\ rt \in Runtimes
         /\ call.total \in Nat /\ call.budget \in Nat /\ call.rounds \in Nat
         /\ PollRounds \in Nat
  BY TypeParts, SenderAssumption DEF CallSet

\* What was sent stays sent.
LEMMA WireGrows ==
  ASSUME wire \subseteq wire', NEW c, OnWire(c) PROVE OnWire(c)'
  BY DEF OnWire

LEMMA DataOfHas ==
  ASSUME source # "cut", NEW S, NEW c \in S
  PROVE  \E good \in BOOLEAN : Data(c, good) \in DataOf(S)
  <1>1. (source # "edited") \in BOOLEAN
    OBVIOUS
  <1>2. Data(c, source # "edited") \in DataOf(S)
    BY DEF DataOf, Readable
  <1>. QED
    BY <1>1, <1>2

LEMMA BeginDoes ==
  ASSUME TypeOK, Steady, Settled, Begin
  PROVE  Settled'
  <1>. USE DEF Begin, Outside, MainStates
  <1>1. Attended'
    BY Fields DEF Modes, Settled, Attended, ThreadsServeThePass
  <1>2. Budgeted'
    BY Fields DEF Modes, Spending, Settled, Attended, Budgeted, BudgetKept
  <1>3. SentSoFar'
    BY Fields DEF Settled, SentSoFar, OnWire, SentOrDropped, Chunks
  <1>. QED
    BY <1>1, <1>2, <1>3 DEF Settled

LEMMA SendManifestDoes ==
  ASSUME TypeOK, Steady, Settled, SendManifest
  PROVE  Settled'
  <1>. USE DEF SendManifest, Outside, MainStates
  <1>1. Attended'
    BY Fields DEF Modes, Settled, Attended, ThreadsServeThePass
  <1>2. Budgeted'
    BY Fields DEF Modes, Spending, Settled, Attended, Budgeted, BudgetKept
  <1>3. SentSoFar'
    BY Fields DEF Settled, SentSoFar, OnWire, SentOrDropped, Chunks
  <1>. QED
    BY <1>1, <1>2, <1>3 DEF Settled

LEMMA BeginPassDoes ==
  ASSUME TypeOK, Steady, Settled, BeginPass
  PROVE  Settled'
  <1>. USE DEF BeginPass, Outside, MainStates
  <1>1. Attended'
    <2>1. /\ main'.pc \in {"pass", "before", "done"} /\ fb' = fb
          /\ main'.pc = "pass" => call.initial /\ call.total > 0
      BY Fields DEF Returned
    <2>2. StartRepairs(fb, FALSE) /\ fb.active => rt'.on
      BY DEF StartRepairs, StartsUnder, ThreadsMeet, NoRuntime
    <2>. QED
      BY <2>1, <2>2 DEF Attended, ThreadsServeThePass
  <1>2. Budgeted'
    BY Fields DEF Modes, Spending, Settled, Attended, Budgeted, BudgetKept, Returned
  <1>3. SentSoFar'
    BY Fields DEF Settled, SentSoFar, OnWire, SentOrDropped, Chunks, Returned
  <1>. QED
    BY <1>1, <1>2, <1>3 DEF Settled

LEMMA PassChunkDoes ==
  ASSUME TypeOK, Steady, Settled, PassChunk
  PROVE  Settled'
  <1>1. PICK idle \in BOOLEAN, due \in BOOLEAN :
          LET f == IF idle THEN ModeIs(FALSE) ELSE fb
              probes == due /\ AutoFeedback /\ ~f.active
          IN
          IF Readable(main.next)
          THEN /\ main' = [main EXCEPT
                             !.pc = IF f.active /\ ~f.prior /\ ~rt.on THEN "drain" ELSE "send",
                             !.frames = DataOf({main.next}), !.rounds = 0, !.chunks = 0]
               /\ Probed(f, due)
               /\ IF fb'.active /\ ~f.active THEN StartRepairs(fb', TRUE)
                  ELSE ThreadsMeet(idle \/ probes)
          ELSE /\ main' = [main EXCEPT !.next = @ + 1]
               /\ fb' = f
               /\ ThreadsMeet(idle)
               /\ UNCHANGED uplink
    BY DEF PassChunk
  <1>. DEFINE f == IF idle THEN ModeIs(FALSE) ELSE fb
  <1>2. /\ main.pc = "pass" /\ UNCHANGED <<call, source, wire, spent>>
        /\ spent.budget = 0 /\ main.result.kind = "none"
        /\ call.initial
        /\ source # "cut" => SentOrDropped({c \in Chunks : c < main.next})
    BY DEF PassChunk, Outside, Settled, Budgeted, SentSoFar
  <1>3. f.active => rt.on
    <2>1. ModeIs(FALSE).active = FALSE
      BY Fields DEF Modes, ModeIs
    <2>. QED
      BY <1>2, <2>1 DEF Settled, Attended, ThreadsServeThePass
  <1>. HIDE DEF f
  <1>4. /\ main'.dropped = main.dropped /\ main'.result = main.result
        /\ \/ /\ main'.pc = "send" /\ main'.next = main.next
              /\ main'.frames = DataOf({main.next})
           \/ main'.pc = "pass" /\ ~Readable(main.next)
    <2>1. CASE Readable(main.next)
      <3>1. main' = [main EXCEPT !.pc = "send", !.frames = DataOf({main.next}),
                                 !.rounds = 0, !.chunks = 0]
        BY <1>1, <1>3, <2>1 DEF f
      <3>. QED
        BY <3>1, Fields DEF MainStates
    <2>2. CASE ~Readable(main.next)
      <3>1. main' = [main EXCEPT !.next = @ + 1]
        BY <1>1, <2>2
      <3>. QED
        BY <1>2, <2>2, <3>1, Fields DEF MainStates
    <2>. QED
      BY <2>1, <2>2
  <1>5. Attended'
    <2>1. CASE rt' = rt /\ (fb'.active => f.active)
      BY <1>3, <1>4, <2>1 DEF Attended, ThreadsServeThePass
    <2>2. CASE fb'.active /\ StartRepairs(fb', TRUE)
      <3>1. rt'.on
        BY <2>2 DEF StartRepairs, StartsUnder, NoRuntime, ThreadsMeet
      <3>. QED
        BY <1>4, <3>1 DEF Attended, ThreadsServeThePass
    <2>. QED
      BY <1>1, <2>1, <2>2 DEF f, ThreadsMeet
  <1>6. Budgeted'
    BY <1>2, <1>4 DEF Settled, Budgeted, BudgetKept
  <1>7. SentSoFar'
    <2>1. CASE main'.pc = "send"
      <3>1. source # "cut" => \E good \in BOOLEAN : Data(main.next, good) \in main'.frames
        BY <1>4, <2>1, DataOfHas
      <3>. QED
        BY <1>2, <1>4, <2>1, <3>1 DEF SentSoFar, SentOrDropped, OnWire, Chunks
    <2>2. CASE ~Readable(main.next) /\ main'.pc = "pass"
      <3>1. source = "cut"
        BY <2>2 DEF Readable
      <3>. QED
        BY <1>2, <1>4, <2>2, <3>1 DEF SentSoFar
    <2>. QED
      BY <1>4, <2>1, <2>2
  <1>. QED
    BY <1>5, <1>6, <1>7 DEF Settled

LEMMA SendChunkDoes ==
  ASSUME TypeOK, Steady, Settled, SendChunk
  PROVE  Settled'
  <1>. USE DEF SendChunk, Outside, MainStates
  <1>1. Attended'
    BY Fields DEF Modes, Settled, Attended, ThreadsServeThePass, Threads
  <1>2. Budgeted'
    BY Fields DEF Modes, Spending, Settled, Attended, Budgeted, BudgetKept
  <1>3. SentSoFar'
    BY Fields DEF Settled, SentSoFar, OnWire, SentOrDropped, Chunks
  <1>. QED
    BY <1>1, <1>2, <1>3 DEF Settled

LEMMA DropChunkDoes ==
  ASSUME TypeOK, Steady, Settled, DropChunk
  PROVE  Settled'
  <1>. USE DEF DropChunk, Outside, MainStates
  <1>1. Attended'
    BY Fields DEF Modes, Settled, Attended, ThreadsServeThePass, Threads
  <1>2. Budgeted'
    BY Fields DEF Modes, Spending, Settled, Attended, Budgeted, BudgetKept
  <1>3. SentSoFar'
    BY Fields DEF Settled, SentSoFar, OnWire, SentOrDropped, Chunks
  <1>. QED
    BY <1>1, <1>2, <1>3 DEF Settled

LEMMA EndPassDoes ==
  ASSUME TypeOK, Steady, Settled, EndPass
  PROVE  Settled'
  <1>. USE DEF EndPass, Outside, MainStates
  <1>1. Attended'
    BY Fields
    DEF Modes, Settled, Attended, ThreadsServeThePass, Threads, Leaving, Stopping
  <1>2. Budgeted'
    BY Fields DEF Modes, Spending, Settled, Attended, Budgeted, BudgetKept, Leaving
  <1>3. SentSoFar'
    BY Fields DEF Settled, SentSoFar, OnWire, SentOrDropped, Chunks, Leaving
  <1>. QED
    BY <1>1, <1>2, <1>3 DEF Settled

LEMMA JoinThreadsDoes ==
  ASSUME TypeOK, Steady, Settled, JoinThreads
  PROVE  Settled'
  <1>. USE DEF JoinThreads, Outside, MainStates
  <1>1. Attended'
    BY Fields DEF Modes, Settled, Attended, ThreadsServeThePass, Returned, Aborted
  <1>2. Budgeted'
    BY Fields
    DEF Modes, Spending, Settled, Attended, Budgeted, BudgetKept, Returned, Aborted
  <1>3. SentSoFar'
    BY Fields DEF Settled, SentSoFar, OnWire, SentOrDropped, Chunks, Returned, Aborted
  <1>. QED
    BY <1>1, <1>2, <1>3 DEF Settled

LEMMA SendTailDoes ==
  ASSUME TypeOK, Steady, Settled, SendTail
  PROVE  Settled'
  <1>. USE DEF SendTail, Outside, MainStates
  <1>1. Attended'
    BY Fields
    DEF Modes, Settled, Attended, ThreadsServeThePass, Steady, Threads, Returned, Aborted
  <1>2. Budgeted'
    BY Fields
    DEF Modes, Spending, Settled, Attended, Budgeted, BudgetKept, Returned, Aborted
  <1>3. SentSoFar'
    <2>1. /\ main.pc = "tail"
          /\ \/ main'.pc = "done" /\ main'.result.kind = "aborted"
             \/ main'.pc = "before" /\ main'.result = main.result /\ main'.dropped = main.dropped
                /\ wire' = wire
             \/ /\ main'.pc = "before" /\ main'.result = main.result
                /\ main'.dropped = DroppedAfterTail
                /\ wire' = wire \cup DataOf(TailChunks)
      <3>1. CASE main' = Aborted
        BY <3>1, Fields, ReturnedTyped DEF Aborted
      <3>2. CASE main' = [main EXCEPT !.pc = "before"] /\ UNCHANGED wire
        BY <3>2, Fields
      <3>3. CASE /\ main' = [main EXCEPT !.pc = "before", !.dropped = DroppedAfterTail]
                 /\ wire' = wire \cup DataOf(TailChunks)
        BY <3>3, Fields
      <3>. QED
        BY <3>1, <3>2, <3>3
    <2>2. source # "cut" =>
            \A c \in TailChunks : \E good \in BOOLEAN : Data(c, good) \in DataOf(TailChunks)
      BY DataOfHas
    <2>. QED
      BY <2>1, <2>2
      DEF Settled, SentSoFar, SentOrDropped, OnWire, DroppedAfterTail, Chunks
  <1>. QED
    BY <1>1, <1>2, <1>3 DEF Settled

LEMMA BeforeWaitDoes ==
  ASSUME TypeOK, Steady, Settled, BeforeWait
  PROVE  Settled'
  <1>. USE DEF BeforeWait, Outside, MainStates
  <1>1. Attended'
    BY Fields DEF Modes, Settled, Attended, ThreadsServeThePass, Steady, Threads
  <1>2. Budgeted'
    BY Fields
    DEF Modes, Spending, Settled, Attended, Budgeted, BudgetKept, Exhausted, Steady
  <1>3. SentSoFar'
    BY Fields DEF Settled, SentSoFar, OnWire, SentOrDropped, Chunks
  <1>. QED
    BY <1>1, <1>2, <1>3 DEF Settled

LEMMA DrainEndDoes ==
  ASSUME TypeOK, Steady, Settled, DrainEnd
  PROVE  Settled'
  <1>. USE DEF DrainEnd, Outside, MainStates
  <1>1. Attended'
    BY Fields DEF Modes, Settled, Attended, ThreadsServeThePass, Threads
  <1>2. Budgeted'
    BY Fields DEF Modes, Spending, Settled, Attended, Budgeted, BudgetKept
  <1>3. SentSoFar'
    <2>1. main.pc = "drain" /\ main' = [main EXCEPT !.pc = "probe"] /\ UNCHANGED wire
      BY DEF Settled, Attended
    <2>. QED
      BY <2>1, Fields DEF Settled, SentSoFar, SentOrDropped, OnWire, Chunks
  <1>. QED
    BY <1>1, <1>2, <1>3 DEF Settled

LEMMA DecideDoes ==
  ASSUME TypeOK, Steady, Settled, Decide
  PROVE  Settled'
  <1>. USE DEF Decide, Outside, MainStates
  <1>1. Attended'
    BY Fields DEF Modes, Settled, Attended, ThreadsServeThePass, Threads, Returned
  <1>2. Budgeted'
    BY Fields DEF Modes, Spending, Settled, Attended, Budgeted, BudgetKept, Returned
  <1>3. SentSoFar'
    BY Fields DEF Settled, SentSoFar, OnWire, SentOrDropped, Chunks, Returned
  <1>. QED
    BY <1>1, <1>2, <1>3 DEF Settled

LEMMA WaitOverDoes ==
  ASSUME TypeOK, Steady, Settled, WaitOver
  PROVE  Settled'
  <1>. USE DEF WaitOver, Outside, MainStates
  <1>1. Attended'
    BY Fields DEF Modes, Settled, Attended, ThreadsServeThePass, Threads, Returned
  <1>2. Budgeted'
    BY Fields DEF Modes, Spending, Settled, Attended, Budgeted, BudgetKept, Returned
  <1>3. SentSoFar'
    BY Fields DEF Settled, SentSoFar, OnWire, SentOrDropped, Chunks, Returned
  <1>. QED
    BY <1>1, <1>2, <1>3 DEF Settled

LEMMA WaitIdleDoes ==
  ASSUME TypeOK, Steady, Settled, WaitIdle
  PROVE  Settled'
  <1>1. /\ main.pc = "wait" /\ wire \subseteq wire' /\ UNCHANGED <<call, fb, source>>
        /\ main' = Returned("feedback", FALSE) \/ main' = main
    BY DEF WaitIdle, Waiting, Outside
  <1>2. \/ /\ main'.pc = "done" /\ main'.result.kind = "feedback"
           /\ main'.dropped = main.dropped
        \/ main' = main
    BY <1>1, Fields, ReturnedTyped
  <1>3. spent'.budget = spent.budget /\ spent'.rounds = spent.rounds
    BY Fields DEF WaitIdle, Spending
  <1>4. Attended'
    BY <1>1, <1>2 DEF Settled, Attended, ThreadsServeThePass
  <1>5. Budgeted'
    BY <1>1, <1>2, <1>3 DEF Settled, Budgeted, BudgetKept
  <1>6. SentSoFar'
    BY <1>1, <1>2 DEF Settled, SentSoFar
  <1>. QED
    BY <1>4, <1>5, <1>6 DEF Settled

LEMMA SendBlockedDoes ==
  ASSUME TypeOK, Steady, Settled, SendBlocked
  PROVE  Settled'
  <1>. USE DEF SendBlocked, Outside, MainStates
  <1>1. Attended'
    BY Fields
    DEF Modes, Settled, Attended, ThreadsServeThePass, Threads, Waiting, Leaving, Returned,
        InPass
  <1>2. Budgeted'
    BY Fields
    DEF Modes, Spending, Settled, Attended, Budgeted, BudgetKept, Waiting, Leaving,
        Returned, InPass
  <1>3. SentSoFar'
    <2>1. PICK exit \in {"raised", "aborted"} :
            main' = IF InPass THEN Leaving(exit) ELSE Returned(exit, FALSE)
      OBVIOUS
    <2>2. /\ main'.dropped = main.dropped /\ UNCHANGED <<call, source, wire>>
          /\ \/ /\ main'.pc = "join" /\ main'.exit \in {"raised", "aborted"}
                /\ main'.result = main.result /\ main.pc \in {"pass", "send", "drain"}
                /\ main.pc = "drain" => ~main.phaseDone
             \/ main'.pc = "done" /\ main'.result.kind \in {"raised", "aborted"}
      <3>1. CASE InPass
        BY <2>1, <3>1, Fields, LeavingTyped DEF InPass
      <3>2. CASE ~InPass
        <4>1. main' = Returned(exit, FALSE) /\ UNCHANGED <<call, source, wire>>
          BY <2>1, <3>2
        <4>2. main \in MainStates /\ exit \in {"empty", "open", "feedback", "aborted", "raised"}
          BY Fields
        <4>3. main'.dropped = main.dropped /\ main'.pc = "done" /\ main'.result.kind = exit
          <5>. HIDE DEF MainStates, SendBlocked
          <5>1. FALSE \in BOOLEAN
            OBVIOUS
          <5>. QED
            BY <4>1, <4>2, <5>1, ReturnedTyped
        <4>. QED
          BY <4>1, <4>3
      <3>. QED
        BY <3>1, <3>2
    <2>. QED
      BY <2>2 DEF Settled, Attended, SentSoFar
  <1>. QED
    BY <1>1, <1>2, <1>3 DEF Settled

LEMMA DrainFrameDoes ==
  ASSUME TypeOK, Steady, Settled, NEW u \in uplink, DrainFrame(u)
  PROVE  Settled'
  <1>. USE DEF DrainFrame, Outside, MainStates
  <1>1. Attended'
    <2>1. /\ main.pc = "drain" /\ main.phaseDone
          /\ main'.pc \in {"drain", "probe"} /\ main'.phaseDone
      BY Fields DEF Settled, Attended
    <2>. QED
      BY <2>1 DEF Attended, ThreadsServeThePass
  <1>2. Budgeted'
    <2>1. main.pc = "drain" /\ main.phaseDone /\ DrainMore /\ spent.budget = main.rounds
      BY DEF Settled, Attended, Budgeted
    <2>2. \/ main'.pc = "probe" /\ spent' = spent
          \/ /\ main'.pc = "drain" /\ main'.rounds = main.rounds + 1
             /\ spent' = [spent EXCEPT !.budget = @ + 1]
          \/ main' = main /\ spent' = spent
      BY <2>1, Fields
    <2>. QED
      BY <2>1, <2>2, Fields DEF Settled, Budgeted, BudgetKept, DrainMore, Spending
  <1>3. SentSoFar'
    <2>1. /\ main.pc = "drain" /\ main'.pc \in {"drain", "probe"} /\ wire \subseteq wire'
          /\ main'.dropped = main.dropped /\ main'.result = main.result
      BY Fields DEF Settled, Attended
    <2>. QED
      BY <2>1 DEF Settled, SentSoFar, OnWire, SentOrDropped, Chunks
  <1>. QED
    BY <1>1, <1>2, <1>3 DEF Settled

LEMMA WaitFrameDoes ==
  ASSUME TypeOK, Steady, Settled, NEW u \in uplink, WaitFrame(u)
  PROVE  Settled'
  <1>. USE DEF WaitFrame, Outside, MainStates
  <1>1. Attended'
    <2>1. main'.pc \in {"wait", "done"} /\ main'.phaseDone = main.phaseDone /\ main.pc = "wait"
      BY Fields DEF Waiting, Returned
    <2>. QED
      BY <2>1 DEF Settled, Attended, ThreadsServeThePass
  <1>2. Budgeted'
    <2>1. /\ main.pc = "wait" /\ main.phaseDone /\ fb.active /\ RoundsLeft /\ ~Exhausted(fb)
          /\ main'.pc \in {"wait", "done"}
      BY Fields DEF Settled, Attended, Budgeted, Waiting, Returned
    <2>2. \/ spent'.budget = spent.budget /\ spent'.rounds = spent.rounds
          \/ spent'.budget = spent.budget + 1 /\ spent'.rounds = spent.rounds + 1
      BY Fields DEF Spending
    <2>. QED
      BY <2>1, <2>2, Fields
      DEF Settled, Budgeted, BudgetKept, RoundsLeft, Exhausted, Spending
  <1>3. SentSoFar'
    <2>1. /\ main.pc = "wait" /\ wire \subseteq wire'
          /\ main'.dropped = main.dropped
          /\ \/ main'.pc = "done" /\ main'.result.kind = "feedback"
             \/ main'.pc = "wait" /\ main'.result = main.result
      <3>1. (u.state = "COMPLETE") \in BOOLEAN /\ main.pc = "wait"
        BY DEF Waiting
      <3>2. CASE main' = Returned("feedback", u.state = "COMPLETE") /\ UNCHANGED wire
        BY <3>1, <3>2, Fields, ReturnedTyped
      <3>3. CASE /\ main' = [main EXCEPT !.repaired = TRUE, !.last = u.missing]
                 /\ wire' = wire \cup DataOf(u.missing)
        BY <3>1, <3>3, Fields
      <3>4. CASE UNCHANGED <<main, wire>>
        BY <3>1, <3>4
      <3>. QED
        BY <3>2, <3>3, <3>4
    <2>. QED
      BY <2>1 DEF Settled, SentSoFar
  <1>. QED
    BY <1>1, <1>2, <1>3 DEF Settled

-----------------------------------------------------------------------------
(* The other steps: the threads, the environment and the receiver. *)

\* They leave the calling thread and its counts alone, and the wire only grows.
LEMMA OthersKeep ==
  ASSUME Settled, UNCHANGED <<call, main, spent>>, fb'.active = fb.active, rt'.on = rt.on,
         wire \subseteq wire', source' = "cut" \/ source # "cut"
  PROVE  Settled'
  <1>1. Attended' /\ Budgeted'
    BY DEF Settled, Attended, ThreadsServeThePass, Budgeted, BudgetKept
  <1>2. SentSoFar'
    BY DEF Settled, SentSoFar, SentOrDropped, OnWire, Chunks
  <1>. QED
    BY <1>1, <1>2 DEF Settled

LEMMA ThreadsDo ==
  ASSUME TypeOK, Settled, PumpStep \/ WorkerStep
  PROVE  Settled'
  <1>1. UNCHANGED <<call, main, spent, fb, source>> /\ wire \subseteq wire'
    BY DEF PumpStep, PumpCheck, PumpTimeout, PumpFrame, WorkerStep, WorkerCheck,
           WorkerTimeout, WorkerGet, WorkerBurst, WorkerBlocked, Outside
  <1>2. rt'.on = rt.on
    BY Fields
    DEF Runtimes, PumpStep, PumpCheck, PumpTimeout, PumpFrame, WorkerStep, WorkerCheck,
        WorkerTimeout, WorkerGet, WorkerBurst, WorkerBlocked
  <1>. QED
    BY <1>1, <1>2, OthersKeep

LEMMA EnvironmentDoes ==
  ASSUME TypeOK, Settled, Signal \/ EditSource \/ DeadlinePasses
  PROVE  Settled'
  <1>1. /\ UNCHANGED <<call, main, spent, rt, wire>> /\ fb'.active = fb.active
        /\ source' = "cut" \/ source # "cut"
    BY Fields DEF Signal, EditSource, DeadlinePasses, Outside, Threads, Modes
  <1>. QED
    BY <1>1, OthersKeep

LEMMA ReceiverDoes ==
  ASSUME Settled, ReceiverStep \/ UNCHANGED allVars
  PROVE  Settled'
  <1>1. UNCHANGED <<call, main, spent, fb, rt, wire, source>>
    BY DEF ReceiverStep, ArriveManifest, ArriveData, Finalize, Ask, Threads, vars, allVars
  <1>. QED
    BY <1>1, OthersKeep

-----------------------------------------------------------------------------
(* The theorems. *)

LEMMA InitSettled == Init => Settled
  <1>. SUFFICES ASSUME Init PROVE Settled
    OBVIOUS
  <1>1. TypeOK
    BY InitHeard DEF Heard, TInv
  <1>2. /\ main.pc = "start" /\ main.next = 0 /\ main.result.kind = "none"
        /\ main.dropped = {}
        /\ spent.budget = 0 /\ spent.rounds = 0
    BY DEF Init, SenderInit, NoResult
  <1>3. Attended /\ SentSoFar
    BY <1>2 DEF Attended, ThreadsServeThePass, SentSoFar
  <1>4. Budgeted
    BY <1>1, <1>2, Fields DEF Budgeted, BudgetKept
  <1>. QED
    BY <1>3, <1>4 DEF Settled

LEMMA NextSettled == Heard /\ Settled /\ [Next]_allVars => Settled'
  <1>. SUFFICES ASSUME TypeOK, Steady, Settled, [Next]_allVars PROVE Settled'
    BY DEF Heard, TInv
  <1>1. CASE MainStep
    BY <1>1, BeginDoes, SendManifestDoes, BeginPassDoes, PassChunkDoes, SendChunkDoes,
       DropChunkDoes, EndPassDoes, JoinThreadsDoes, SendTailDoes, BeforeWaitDoes,
       DrainEndDoes, DecideDoes, WaitOverDoes, WaitIdleDoes, SendBlockedDoes,
       DrainFrameDoes, WaitFrameDoes
    DEF MainStep
  <1>. QED
    BY <1>1, ThreadsDo, EnvironmentDoes, ReceiverDoes DEF Next, SenderStep

LEMMA AlwaysSettled == Spec => []Settled
  BY InitHeard, NextHeard, InitSettled, NextSettled, PTL DEF Spec

\* While feedback is active the first pass has its threads.
THEOREM TransferAttended == Spec => []ThreadsServeThePass
  <1>1. Settled => ThreadsServeThePass
    BY DEF Settled, Attended
  <1>. QED
    BY <1>1, AlwaysSettled, PTL

\* The wait serves no more requests than it may, and a call exceeds the budget of its
\* feedback by no more than one poll, however the mode of the call changed on the way.
THEOREM TransferBudget == Spec => []BudgetKept
  <1>1. Settled => BudgetKept
    BY DEF Settled, Budgeted
  <1>. QED
    BY <1>1, AlwaysSettled, PTL

\* Of a file that was not cut meanwhile, an open-loop call with a first pass has sent every
\* chunk or says that it has not completed, for any tail and any losses of the simulation;
\* one without a first pass says "completed" in any case.
THEOREM TransferOpenLoop == Spec => []OpenLoopSentAll
  <1>1. Settled => OpenLoopSentAll
    BY DEF Settled, SentSoFar, OnWire, OpenLoopSentAll
  <1>. QED
    BY <1>1, AlwaysSettled, PTL
=============================================================================
