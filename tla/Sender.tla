------------------------------- MODULE Sender -------------------------------
(***************************************************************************)
(* One call of SpaceSyncSender.send_file (space_sync/sender.py:70-925):    *)
(* the thread that called it, the receive pump and the repair worker that  *)
(* it starts while feedback is active.                                     *)
(*                                                                         *)
(* Time is not stored: a timeout, an interval that is due and a            *)
(* suppression window are choices that may fall either way.  A burst of    *)
(* DATA is one step, and one that ends in an exception has sent nothing; a *)
(* frame on the wire may arrive at any later time.                         *)
(***************************************************************************)
EXTENDS Integers, Sequences, FiniteSets, FiniteSetsExt

CONSTANTS
  Calls,        \* the calls explored, see CallSet
  Repeats,      \* manifest_repeats
  MaxIdle,      \* max_feedback_idle_timeouts
  QueueMax,     \* repair_queue_max_pending_requests
  Burst,        \* repair_worker_max_chunks_per_burst
  PollRounds,   \* midstream_repair_max_rounds_per_poll
  PollChunks,   \* midstream_repair_max_chunks_per_poll
  TailSize      \* tail_redundancy_chunks

\* mode: --feedback, --no-feedback or neither; initial: send_initial_data;
\* rounds, budget: the limits on rounds after the pass and on rounds of feedback, 0
\* for none; timed: there is a limit in seconds; drops: chunks the loss simulation may
\* drop; edits: what may happen to the source meanwhile; stops: a signal may come.
CallSet ==
  [mode : {"on", "off", "auto"}, initial : BOOLEAN, total : Nat, rounds : Nat,
   budget : Nat, timed : BOOLEAN, drops : SUBSET Nat,
   edits : SUBSET {"edited", "cut"}, stops : BOOLEAN]

ASSUME SenderAssumption ==
  /\ Calls \subseteq CallSet
  /\ {Repeats, MaxIdle, QueueMax, Burst} \subseteq Nat \ {0}
  /\ {PollRounds, PollChunks, TailSize} \subseteq Nat

VARIABLES
  call,     \* the arguments and the configuration of the call
  known,    \* _auto_feedback_active of the sender object
  main,     \* where the calling thread stands, with its locals
  fb,       \* feedback_active, prioritize_forward_data, the deadline has passed
  spent,    \* rounds of the feedback budget and after the pass, idle timeouts
  rt,       \* _ParallelRepairRuntime
  pump,     \* where _recv_pump stands
  worker,   \* where _repair_worker stands, with the request it serves
  source,   \* the file, against its manifest
  stop,     \* stop_requested()
  wire,     \* frames sent so far
  uplink    \* frames on their way to rx_sock or waiting in it

vars == <<call, known, main, fb, spent, rt, pump, worker, source, stop, wire, uplink>>

Chunks == 0 .. call.total - 1
AutoFeedback == call.mode = "auto"

\* Frames.  A beacon stands for every frame that is no STATUS of this transfer.
Manifest == [type |-> "METADATA"]
Data(c, good) == [type |-> "DATA", chunk |-> c, good |-> good]
Beacon == [state |-> "BEACON", missing |-> {}]
Status(state, missing) == [state |-> state, missing |-> missing]

\* What chunk_reader finds: a file that was cut has no last chunk.
Readable(c) == ~(source = "cut" /\ c = call.total - 1)
DataOf(S) == {Data(c, source # "edited") : c \in {d \in S : Readable(d)}}

\* The first n chunks of S: limit_ranges_to_chunk_budget.
FirstOf(S, n) == {c \in S : Cardinality({d \in S : d < c}) < n}

NoRuntime == [on |-> FALSE, stop |-> FALSE, completed |-> FALSE, mismatch |-> FALSE,
              queue |-> <<>>, last |-> {}, repaired |-> FALSE]
NoResult == [kind |-> "none", completed |-> FALSE, repaired |-> FALSE]

Prioritize == call.initial /\ (call.timed \/ call.budget > 0)

\* The calls' first states: fb begins active when feedback is forced, or is known from
\* an earlier call and not idle for too long since (137-146).
SenderInit ==
  /\ call \in Calls
  /\ known \in BOOLEAN /\ (known => AutoFeedback)
  /\ \E active \in BOOLEAN :
       /\ call.mode = "on" => active
       /\ active => call.mode = "on" \/ known
       /\ fb = [active |-> active, prior |-> active /\ Prioritize, late |-> FALSE]
  /\ main = [pc |-> "start", exit |-> "none", copies |-> Repeats, next |-> 0,
             dropped |-> {}, signalled |-> FALSE, completed |-> FALSE,
             repaired |-> FALSE, last |-> {}, rounds |-> 0, chunks |-> 0, frames |-> {},
             phaseDone |-> ~call.initial, result |-> NoResult]
  /\ spent = [budget |-> 0, rounds |-> 0, idle |-> 0]
  /\ rt = NoRuntime
  /\ pump = "off"
  /\ worker = [pc |-> "off", request |-> {}]
  /\ source = "whole"
  /\ stop = FALSE
  /\ wire = {}

-----------------------------------------------------------------------------
(* Pieces of the calling thread's steps. *)

\* _set_feedback_mode: a new mode begins with a new deadline.
ModeIs(active) ==
  IF active = fb.active THEN fb
  ELSE [active |-> active, prior |-> active /\ Prioritize, late |-> FALSE]

\* _feedback_budget_exhausted, once the first pass is over.
Exhausted(f) ==
  /\ f.active
  /\ main.phaseDone
  /\ (call.budget > 0 /\ spent.budget >= call.budget) \/ f.late

\* Mutant: no threads while the first pass has priority.
StartsUnderMutant(f) == f.active /\ ~f.prior /\ ~rt.on
StartsUnder(f) == f.active /\ ~rt.on

\* The calling thread switches rx_sock to blocking and only then gives it a timeout
\* again (254-255, 285-286, 767-768).  A recvfrom that the pump enters in between has
\* no timeout: it waits for a frame.
PumpMeets(switches) ==
  \/ pump' = pump
  \/ switches /\ pump = "recv" /\ pump' = "blocked"
Threads == <<rt, pump, worker>>
ThreadsMeet(switches) == PumpMeets(switches) /\ UNCHANGED <<rt, worker>>

\* _start_parallel_repairs under the mode f.
StartRepairs(f, switches) ==
  \/ /\ StartsUnder(f)
     /\ rt' = [NoRuntime EXCEPT !.on = TRUE]
     /\ pump' = "check"
     /\ worker' = [pc |-> "check", request |-> {}]
  \/ ~StartsUnder(f) /\ ThreadsMeet(switches)

\* _probe_uplink_packets, for the mode m of a caller in which it is due: it takes
\* what waits without a look at it, and anything turns feedback on.
Probed(m, due) ==
  \E taken \in SUBSET uplink :
    /\ taken # {} => due /\ AutoFeedback /\ ~m.active
    /\ uplink' = uplink \ taken
    /\ fb' = IF taken = {} THEN m
             ELSE [active |-> TRUE, prior |-> Prioritize, late |-> FALSE]

Outside == <<call, source, stop>>

\* The end of the call: SendResult or an exception.
Returned(kind, completed) ==
  [main EXCEPT !.pc = "done",
               !.result = [kind |-> kind, completed |-> completed,
                           repaired |-> main.repaired /\ kind = "feedback"]]
Aborted == Returned("aborted", FALSE)
\* The same from inside the first pass, whose finally clause runs first (642-643).
Leaving(exit) == [main EXCEPT !.pc = "join", !.exit = exit, !.phaseDone = TRUE]
Stopping == [rt EXCEPT !.stop = rt.on]

-----------------------------------------------------------------------------
(* The calling thread: before the first pass. *)

\* The probe before the manifest; a return before the first pass leaves the threads
\* that it starts running (444-447).
Begin ==
  /\ main.pc = "start"
  /\ main' = [main EXCEPT !.pc = "manifest"]
  /\ Probed(fb, TRUE)
  /\ IF fb' # fb /\ call.initial THEN StartRepairs(fb', TRUE) ELSE UNCHANGED Threads
  /\ UNCHANGED <<Outside, known, spent, wire>>

SendManifest ==
  /\ main.pc = "manifest" /\ main.copies > 0 /\ ~stop
  /\ wire' = wire \cup {Manifest}
  /\ main' = [main EXCEPT !.copies = @ - 1]
  /\ Probed(fb, TRUE)
  /\ UNCHANGED <<Outside, Threads, known, spent>>

\* Without chunks there is nothing to wait for (475-486).
BeginPass ==
  /\ main.pc = "manifest" /\ main.copies = 0
  /\ main' = IF call.total = 0 THEN Returned("empty", TRUE)
             ELSE [main EXCEPT !.pc = IF call.initial THEN "pass" ELSE "before"]
  /\ IF call.total > 0 /\ call.initial THEN StartRepairs(fb, FALSE) ELSE UNCHANGED Threads
  /\ UNCHANGED <<Outside, known, fb, spent, wire, uplink>>

-----------------------------------------------------------------------------
(* The first pass. *)

\* One turn of the loop up to the decision to drop the chunk.  Repairs are served from
\* here only when no threads do it.
PassChunk ==
  /\ main.pc = "pass" /\ main.next < call.total /\ ~stop
  /\ \E idle, due \in BOOLEAN :
       LET f == IF idle THEN ModeIs(FALSE) ELSE fb
           probes == due /\ AutoFeedback /\ ~f.active
       IN
       /\ idle => AutoFeedback /\ fb.active
       /\ IF Readable(main.next)
          THEN /\ main' = [main EXCEPT
                             !.pc = IF f.active /\ ~f.prior /\ ~rt.on THEN "drain" ELSE "send",
                             !.frames = DataOf({main.next}), !.rounds = 0, !.chunks = 0]
               /\ Probed(f, due)
               /\ IF fb'.active /\ ~f.active THEN StartRepairs(fb', TRUE)
                  ELSE ThreadsMeet(idle \/ probes)
          ELSE /\ main' = [main EXCEPT !.next = @ + 1]
               /\ fb' = f
               /\ ThreadsMeet(idle)
               /\ UNCHANGED uplink
  /\ UNCHANGED <<Outside, known, spent, wire>>

\* METADATA repeated during the pass (612-621) is on the wire already.
SendChunk ==
  /\ main.pc = "send"
  /\ main' = [main EXCEPT !.pc = "pass", !.next = @ + 1, !.frames = {}]
  /\ wire' = wire \cup main.frames
  /\ UNCHANGED <<Outside, Threads, known, fb, spent, uplink>>

\* The loss simulation (596-606).
DropChunk ==
  /\ main.pc = "send" /\ main.next \in call.drops
  /\ main' = [main EXCEPT !.pc = "pass", !.next = @ + 1, !.frames = {},
                          !.dropped = @ \cup {main.next}]
  /\ UNCHANGED <<Outside, Threads, known, fb, spent, wire, uplink>>

\* The finally clause: the pass is over, and the threads are told to stop.
EndPass ==
  /\ main.pc = "pass" /\ (main.next = call.total \/ stop)
  /\ main' = Leaving(IF main.next = call.total THEN "normal" ELSE "aborted")
  /\ rt' = Stopping
  /\ UNCHANGED <<Outside, known, fb, spent, pump, worker, wire, uplink>>

\* Mutant: any final status counts.
HeardCompleteMutant == IF rt.on THEN rt.completed \/ rt.mismatch ELSE main.completed
\* What the pump has heard by the time the threads are joined; without threads, what
\* is known already (426-427).
HeardComplete == IF rt.on THEN rt.completed /\ ~rt.mismatch ELSE main.completed

\* _stop_parallel_repairs after its joins, which give up after a second: a thread may
\* still run.  What is left in the queue is forgotten; their event stays set.
JoinThreads ==
  /\ main.pc = "join"
  /\ main' = CASE main.exit = "aborted" -> Aborted
               [] main.exit = "raised" -> Returned("raised", FALSE)
               [] OTHER -> [main EXCEPT !.pc = "tail", !.completed = HeardComplete,
                                        !.signalled = @ \/ HeardComplete,
                                        !.repaired = @ \/ rt.repaired]
  /\ rt' = IF rt.on THEN [NoRuntime EXCEPT !.stop = TRUE] ELSE rt
  /\ UNCHANGED <<Outside, known, fb, spent, pump, worker, wire, uplink>>

-----------------------------------------------------------------------------
(* After the pass. *)

TailChunks == {c \in Chunks : c >= call.total - TailSize}
\* Mutant: the tail clears the whole set.
DroppedAfterTailMutant == {}
DroppedAfterTail == main.dropped \ TailChunks

\* _send_tail_redundancy; it gives up when the socket blocks after a signal.
SendTail ==
  /\ main.pc = "tail"
  /\ \/ /\ fb.active \/ DataOf(TailChunks) = {}
        /\ main' = [main EXCEPT !.pc = "before"]
        /\ UNCHANGED wire
     \/ /\ ~fb.active /\ DataOf(TailChunks) # {}
        /\ main' = [main EXCEPT !.pc = "before", !.dropped = DroppedAfterTail]
        /\ wire' = wire \cup DataOf(TailChunks)
     \/ /\ ~fb.active /\ stop
        /\ main' = Aborted
        /\ \E S \in SUBSET TailChunks : wire' = wire \cup DataOf(S)
  /\ UNCHANGED <<Outside, Threads, known, fb, spent, uplink>>

\* The repairs before the wait, as far as the budget goes (679-713).
BeforeWait ==
  /\ main.pc = "before"
  /\ main' = [main EXCEPT !.pc = IF fb.active /\ ~main.signalled /\ ~Exhausted(fb)
                                 THEN "drain" ELSE "probe",
                          !.rounds = 0, !.chunks = 0]
  /\ UNCHANGED <<Outside, Threads, known, fb, spent, wire, uplink>>

\* _drain_repair_requests, one frame at a time, until none waits or a limit is reached.
DrainMore ==
  /\ PollRounds > 0 => main.rounds < PollRounds
  /\ PollChunks > 0 => main.chunks < PollChunks

DrainFrame(u) ==
  LET m == IF PollChunks > 0 THEN FirstOf(u.missing, PollChunks - main.chunks)
           ELSE u.missing
  IN
  /\ main.pc = "drain" /\ DrainMore
  /\ uplink' = uplink \ {u}
  /\ CASE u.state = "COMPLETE" ->
            /\ main' = [(IF main.phaseDone THEN [main EXCEPT !.pc = "probe"]
                         ELSE Leaving("normal"))
                        EXCEPT !.completed = TRUE, !.signalled = TRUE]
            /\ UNCHANGED <<spent, wire>>
       [] u.state = "INCOMPLETE" /\ u.missing # {} ->
            /\ main' = [main EXCEPT !.rounds = @ + 1, !.repaired = TRUE,
                                    !.chunks = @ + Cardinality(DataOf(m))]
            /\ spent' = [spent EXCEPT !.budget = @ + 1]
            /\ wire' = wire \cup DataOf(m)
       [] OTHER -> UNCHANGED <<main, spent, wire>>
  /\ UNCHANGED <<Outside, Threads, known, fb>>

DrainEnd ==
  /\ main.pc = "drain"
  /\ main' = [main EXCEPT !.pc = IF main.phaseDone THEN "probe" ELSE "send"]
  /\ UNCHANGED <<Outside, Threads, known, fb, spent, wire, uplink>>

\* The last probe; open loop ends here, and so does a call that heard COMPLETE, which
\* leaves "known" as it was (725-765).
Decide ==
  /\ main.pc = "probe"
  /\ Probed(fb, TRUE)
  /\ main' = IF ~fb'.active THEN Returned("open", main.dropped = {})
             ELSE IF main.signalled THEN Returned("feedback", TRUE)
             ELSE [main EXCEPT !.pc = "wait", !.completed = FALSE]
  /\ known' = (known /\ (AutoFeedback => fb'.active))
  /\ ThreadsMeet((AutoFeedback /\ ~fb.active) \/ main'.pc = "wait")
  /\ UNCHANGED <<Outside, spent, wire>>

-----------------------------------------------------------------------------
(* The wait for the receiver's answer (768-899). *)

\* Mutant: one round too many.
RoundsLeftMutant == call.rounds > 0 => spent.rounds <= call.rounds
RoundsLeft == call.rounds > 0 => spent.rounds < call.rounds
Waiting == main.pc = "wait" /\ RoundsLeft /\ ~Exhausted(fb)

\* What a call remembers for the next one.
Remember(f) == known' = IF AutoFeedback THEN f.active ELSE known

\* The rounds or the budget are used up, or the uplink has been idle for too long.
WaitOver ==
  /\ main.pc = "wait"
  /\ \/ (RoundsLeft => Exhausted(fb)) /\ UNCHANGED <<fb, Threads>>
     \/ RoundsLeft /\ AutoFeedback /\ fb.active /\ fb' = ModeIs(FALSE) /\ ThreadsMeet(TRUE)
  /\ main' = Returned("feedback", FALSE)
  /\ Remember(fb')
  /\ UNCHANGED <<Outside, spent, wire, uplink>>

\* Mutant: the count starts again at each timeout.
OneMoreIdleMutant == 1
\* Nothing of this transfer for feedback_wait_s: METADATA is sent once more.
OneMoreIdle == spent.idle + 1
WaitIdle ==
  /\ Waiting /\ ~stop
  /\ spent' = [spent EXCEPT !.idle = OneMoreIdle]
  /\ wire' = wire \cup {Manifest}
  /\ IF OneMoreIdle >= MaxIdle
     THEN main' = Returned("feedback", FALSE) /\ Remember(fb)
     ELSE UNCHANGED <<main, known>>
  /\ UNCHANGED <<Outside, Threads, fb, uplink>>

\* One frame while waiting.  A request that repeats the last one may fall into the
\* window in which it is suppressed; like an empty one it resets the idle count.
WaitFrame(u) ==
  /\ Waiting /\ ~stop
  /\ uplink' = uplink \ {u}
  /\ CASE u.state \in {"COMPLETE", "HASH_MISMATCH"} ->
            /\ main' = Returned("feedback", u.state = "COMPLETE")
            /\ Remember(fb)
            /\ UNCHANGED <<spent, wire>>
       [] u.state = "INCOMPLETE" ->
            /\ \/ /\ u.missing # {}
                  /\ main' = [main EXCEPT !.repaired = TRUE, !.last = u.missing]
                  /\ spent' = [budget |-> spent.budget + 1, rounds |-> spent.rounds + 1,
                               idle |-> 0]
                  /\ wire' = wire \cup DataOf(u.missing)
               \/ /\ u.missing \in {{}, main.last}
                  /\ spent' = [spent EXCEPT !.idle = 0]
                  /\ UNCHANGED <<main, wire>>
            /\ UNCHANGED known
       [] OTHER -> UNCHANGED <<main, known, spent, wire>>
  /\ UNCHANGED <<Outside, Threads, fb>>

\* A send that finds the socket blocked for longer than its timeout raises, beacons and
\* repeated METADATA included (981-987, 1011-1013); one that is interrupted by a signal,
\* like a check of the signal, gives up.
InPass == main.pc \in {"pass", "send"} \/ (main.pc = "drain" /\ ~main.phaseDone)
SendBlocked ==
  /\ \/ main.pc = "manifest" /\ main.copies > 0
     \/ main.pc = "pass" /\ main.next < call.total /\ ~stop
     \/ main.pc \in {"send", "drain"}
     \/ main.pc = "tail" /\ ~fb.active
     \/ main.pc = "before" /\ fb.active /\ ~main.signalled /\ ~Exhausted(fb)
     \/ Waiting
  /\ \E exit \in {"raised", "aborted"} :
       /\ exit = "aborted" => stop /\ main.pc \in {"manifest", "send", "wait"}
       /\ main' = IF InPass THEN Leaving(exit) ELSE Returned(exit, FALSE)
  /\ rt' = IF InPass THEN Stopping ELSE rt
  /\ UNCHANGED <<Outside, known, fb, spent, pump, worker, wire, uplink>>

-----------------------------------------------------------------------------
(* The threads.  One that is still alive when the calling thread has dropped the
   runtime finds None in its place and ends with an exception. *)

\* Mutant: a runtime that was dropped is taken for one that was not stopped.
MayRunMutant == rt.on => ~rt.stop
MayRun == rt.on /\ ~rt.stop

PumpCheck ==
  /\ pump = "check"
  /\ pump' = IF MayRun THEN "recv" ELSE "off"
  /\ UNCHANGED <<Outside, known, main, fb, spent, rt, worker, wire, uplink>>

\* Nothing has come, within half a second or at once; only a frame ends a recvfrom
\* without a timeout.
PumpTimeout ==
  /\ pump = "recv"
  /\ pump' = "check"
  /\ UNCHANGED <<Outside, known, main, fb, spent, rt, worker, wire, uplink>>

\* Mutant: a queue without a limit.
EnqueuedMutant(request) == Append(rt.queue, request)
\* A request for which the queue has no room is forgotten.
Enqueued(request) ==
  IF Len(rt.queue) < QueueMax THEN Append(rt.queue, request) ELSE rt.queue

PumpFrame(u) ==
  /\ pump \in {"recv", "blocked"}
  /\ uplink' = uplink \ {u}
  /\ CASE ~rt.on -> pump' = "off" /\ UNCHANGED rt
       [] rt.on /\ u.state = "COMPLETE" ->
            pump' = "off" /\ rt' = [rt EXCEPT !.completed = TRUE, !.stop = TRUE]
       [] rt.on /\ u.state = "HASH_MISMATCH" ->
            pump' = "off" /\ rt' = [rt EXCEPT !.mismatch = TRUE, !.stop = TRUE]
       [] rt.on /\ u.state = "INCOMPLETE" /\ u.missing # {} ->
            /\ pump' = "check"
            /\ rt' = [rt EXCEPT !.queue = Enqueued(u.missing)]
       [] OTHER -> pump' = "check" /\ UNCHANGED rt
  /\ UNCHANGED <<Outside, known, main, fb, spent, worker, wire>>

WorkerCheck ==
  /\ worker.pc = "check"
  /\ worker' = [worker EXCEPT !.pc = IF MayRun THEN "get" ELSE "off"]
  /\ UNCHANGED <<Outside, known, main, fb, spent, rt, pump, wire, uplink>>

WorkerTimeout ==
  /\ worker.pc = "get" /\ rt.queue = <<>>
  /\ worker' = [worker EXCEPT !.pc = "check"]
  /\ UNCHANGED <<Outside, known, main, fb, spent, rt, pump, wire, uplink>>

\* A request leaves the queue and is served, unless the window of a duplicate or the
\* priority of the first pass makes the worker drop it.
Deferred == call.initial /\ ~main.phaseDone /\ fb.prior
WorkerGet ==
  /\ worker.pc = "get" /\ rt.queue # <<>>
  /\ rt' = [rt EXCEPT !.queue = SubSeq(@, 2, Len(@))]
  /\ LET request == rt.queue[1] IN
     \/ /\ ~Deferred
        /\ worker' = [pc |-> "burst", request |-> request]
     \/ /\ Deferred \/ request = rt.last
        /\ worker' = [worker EXCEPT !.pc = "check"]
  /\ UNCHANGED <<Outside, known, main, fb, spent, pump, wire, uplink>>

WorkerBurst ==
  /\ worker.pc = "burst"
  /\ LET sent == DataOf(FirstOf(worker.request, Burst)) IN
     /\ wire' = wire \cup sent
     /\ rt' = IF rt.on THEN [rt EXCEPT !.last = worker.request, !.repaired = @ \/ sent # {}]
              ELSE rt
  /\ worker' = [pc |-> IF rt.on THEN "check" ELSE "off", request |-> {}]
  /\ UNCHANGED <<Outside, known, main, fb, spent, pump, uplink>>

WorkerBlocked ==
  /\ worker.pc = "burst"
  /\ worker' = [pc |-> "off", request |-> {}]
  /\ UNCHANGED <<Outside, known, main, fb, spent, rt, pump, wire, uplink>>

-----------------------------------------------------------------------------
(* Signals, the file system and the clock. *)

Signal ==
  /\ call.stops /\ ~stop
  /\ stop' = TRUE
  /\ UNCHANGED <<call, source, Threads, known, main, fb, spent, wire, uplink>>

EditSource ==
  /\ source = "whole" /\ source' \in call.edits
  /\ UNCHANGED <<call, stop, Threads, known, main, fb, spent, wire, uplink>>

DeadlinePasses ==
  /\ fb.active /\ call.timed /\ ~fb.late
  /\ fb' = [fb EXCEPT !.late = TRUE]
  /\ UNCHANGED <<Outside, Threads, known, main, spent, wire, uplink>>

MainStep ==
  \/ Begin \/ SendManifest \/ BeginPass
  \/ PassChunk \/ SendChunk \/ DropChunk \/ EndPass \/ JoinThreads
  \/ SendTail \/ BeforeWait \/ DrainEnd \/ Decide
  \/ WaitOver \/ WaitIdle \/ SendBlocked
  \/ \E u \in uplink : DrainFrame(u) \/ WaitFrame(u)
PumpStep == PumpCheck \/ PumpTimeout \/ \E u \in uplink : PumpFrame(u)
WorkerStep == WorkerCheck \/ WorkerTimeout \/ WorkerGet \/ WorkerBurst \/ WorkerBlocked

SenderStep ==
  \/ MainStep \/ PumpStep \/ WorkerStep
  \/ Signal \/ EditSource \/ DeadlinePasses

-----------------------------------------------------------------------------
(* Types. *)

Missing == SUBSET Chunks
UplinkFrame == [state : {"BEACON", "INCOMPLETE", "COMPLETE", "HASH_MISMATCH"},
                missing : Missing]
Frame == {Manifest} \cup [type : {"DATA"}, chunk : Chunks, good : BOOLEAN]

SendResult == [kind : {"none", "empty", "open", "feedback", "aborted", "raised"},
               completed : BOOLEAN, repaired : BOOLEAN]
MainStates ==
  [pc : {"start", "manifest", "pass", "send", "join", "tail", "before", "drain", "probe",
         "wait", "done"},
   exit : {"none", "normal", "aborted", "raised"},
   copies : 0 .. Repeats, next : 0 .. call.total, dropped : Missing,
   signalled : BOOLEAN, completed : BOOLEAN, repaired : BOOLEAN,
   last : Missing, rounds : Nat, chunks : Nat, frames : SUBSET Frame,
   phaseDone : BOOLEAN, result : SendResult]
Runtimes == [on : BOOLEAN, stop : BOOLEAN, completed : BOOLEAN, mismatch : BOOLEAN,
             queue : Seq(Missing), last : Missing, repaired : BOOLEAN]
Modes == [active : BOOLEAN, prior : BOOLEAN, late : BOOLEAN]
Spending == [budget : Nat, rounds : Nat, idle : 0 .. MaxIdle]
WorkerStates == [pc : {"off", "check", "get", "burst"}, request : Missing]

SenderTypeOK ==
  /\ call \in Calls /\ known \in BOOLEAN /\ stop \in BOOLEAN
  /\ source \in {"whole", "edited", "cut"}
  /\ main \in MainStates /\ fb \in Modes /\ spent \in Spending
  /\ rt \in Runtimes /\ Len(rt.queue) <= QueueMax
  /\ pump \in {"off", "check", "recv", "blocked"} /\ worker \in WorkerStates
  /\ wire \subseteq Frame
  /\ uplink \subseteq UplinkFrame
=============================================================================
