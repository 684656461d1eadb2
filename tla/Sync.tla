-------------------------------- MODULE Sync --------------------------------
(***************************************************************************)
(* One run of "ssync SRC DEST" (space_sync/cli.py:1415-2070) for the files *)
(* of one destination: the rounds of primary transfers, the queue of       *)
(* incomplete ones with the worker that revisits them during a transfer,   *)
(* the checksums computed ahead, and the send counts kept between runs.    *)
(*                                                                         *)
(* send_file is what Transfer shows of it: it returns, and what a          *)
(* "completed" is worth depends on feedback.  The idle timeout of feedback *)
(* may pass at any moment.                                                 *)
(***************************************************************************)
EXTENDS Integers, Sequences, FiniteSets

CONSTANTS
  Runs,     \* the runs explored, see RunSet
  Workers,  \* the threads the revisit worker may run in, one per start
  None

\* feedback: --feedback, --no-feedback or neither; files: how many; rounds:
\* open_loop_max_rounds, 0 for no limit; passes: revisit_incomplete_passes; query:
\* --skip-unchanged; prefetch: supports_sha256_override; denied: files that may be
\* refused; empty: files that may have no chunks when they are sent; raises: send_file
\* may raise; stops: a signal may come; edits, crashes: how often.
RunSet ==
  [feedback : {"on", "off", "auto"}, files : Nat, rounds : Nat, passes : Nat,
   query : BOOLEAN, prefetch : BOOLEAN, denied : SUBSET Nat, empty : SUBSET Nat,
   raises : BOOLEAN, stops : BOOLEAN, edits : Nat, crashes : Nat]

\* How a transfer of a whole file may end, and the command.
Results == {"delivered", "unheard", "empty", "progress", "silent", "raised", "denied"}
Exits == {"0", "1", "raised"}

ASSUME SyncAssumption ==
  /\ Runs \subseteq RunSet
  /\ IsFiniteSet(Workers) /\ Workers # {}
  /\ None \notin Nat \cup Results \cup Exits

VARIABLES
  args,     \* the command line and what may happen
  active,   \* sender._auto_feedback_active
  main,     \* the main thread
  queue,    \* revisit_queue
  keys,     \* revisit_active_keys
  current,  \* current_primary_revisit_key
  worker,   \* the revisit worker threads, those that outlived their join included
  thread,   \* revisit_worker_thread
  halt,     \* revisit_worker_stop
  failed,   \* the counter of the same name
  stop,     \* should_stop
  counts,   \* the state file: how often each file was sent in open loop
  ahead,    \* the checksum prefetch: its queue, the file in hand, the cache
  version,  \* the contents of each file; every edit changes size or mtime
  fate      \* how the last transfer of each file ended

revisits == <<queue, keys, failed>>
threads == <<worker, thread, halt>>
files == <<ahead, version>>
vars == <<args, active, main, revisits, current, threads, stop, counts, files, fate>>

Items == 1 .. args.files
AutoFeedback == args.feedback = "auto"
RevisitEnabled == args.feedback # "off" /\ args.passes > 0

Entry(i) == [item |-> i, attempts |-> 0]
NoEntry == [item |-> None, attempts |-> 0]
NotHashed == [stat |-> None, digest |-> None]

\* The prefetch queue holds each source once (1528-1536).
NothingAhead ==
  [todo |-> IF args.prefetch THEN [i \in Items |-> i] ELSE <<>>, pc |-> "idle",
   item |-> None, stat |-> None, cache |-> [i \in Items |-> NotHashed]]

Fresh == [pc |-> "round", round |-> 0, todo |-> <<>>, item |-> None, checked |-> None,
          override |-> None, result |-> None, left |-> 0, gain |-> 0, entry |-> NoEntry,
          draining |-> FALSE, exit |-> None]

Init ==
  /\ args \in Runs
  /\ active = FALSE
  /\ main = Fresh
  /\ queue = <<>> /\ keys = {} /\ failed = 0
  /\ current = None
  /\ worker = [w \in Workers |-> [pc |-> "off", entry |-> NoEntry]]
  /\ thread = None /\ halt = FALSE
  /\ stop = FALSE
  /\ counts = [i \in Items |-> 0]
  /\ ahead = NothingAhead
  /\ version = [i \in Items |-> 0]
  /\ fate = [i \in Items |-> "new"]

-----------------------------------------------------------------------------
(* Feedback and send_file. *)

\* _refresh_auto_feedback_idle_state: a looks whether the uplink has been idle too long.
Refreshed(a) == a = active \/ (AutoFeedback /\ a = FALSE)
RepairsActive(a) == args.feedback = "on" \/ (AutoFeedback /\ a)
OpenLoop(a) == args.feedback = "off" \/ (AutoFeedback /\ ~a)

\* How send_file ends when feedback is heard or not at its end: without it a transfer
\* of the whole file has dropped chunks or not, one of repairs only is complete.
Ends(initial, heard) ==
  IF heard THEN {"delivered", "progress", "silent"}
  ELSE IF initial THEN {"unheard", "silent"} ELSE {"unheard"}

\* A call for file i with result r after which the sender's flag is a.  A call that is
\* stopped by the signal, raises, or hears COMPLETE before it waits leaves the flag alone,
\* and so does one for a file without chunks: it is complete as soon as the METADATA is
\* sent, without an answer even when feedback is forced on (sender.py:475-486).
Sends(initial, i, r, a) ==
  \/ \E heard \in BOOLEAN :
       /\ args.feedback = "on" => heard
       /\ args.feedback = "off" => ~heard
       /\ r \in Ends(initial, heard)
       /\ a \in {AutoFeedback /\ heard, AutoFeedback /\ heard /\ (active \/ r # "delivered")}
  \/ i \in args.empty /\ r = "empty" /\ a = active
  \/ stop /\ r = "silent" /\ a = active
  \/ args.raises /\ r = "raised" /\ a = active

Completed(r) == r \in {"delivered", "unheard", "empty"}

-----------------------------------------------------------------------------
(* Revisits, in whichever thread makes them. *)

\* What a finished attempt at e does to the queue: repairs that made progress use up an
\* attempt, an attempt without any does not.
\* Mutant: one attempt too many.
MayRetryMutant(e) == e.attempts < args.passes
MayRetry(e) == e.attempts + 1 < args.passes
Attempted(e, r) ==
  CASE Completed(r) ->
         /\ keys' = keys \ {e.item}
         /\ UNCHANGED <<queue, failed>>
    [] r = "silent" ->
         /\ queue' = Append(queue, e)
         /\ UNCHANGED <<keys, failed>>
    [] r = "progress" /\ MayRetry(e) ->
         /\ queue' = Append(queue, [e EXCEPT !.attempts = @ + 1])
         /\ UNCHANGED <<keys, failed>>
    [] r = "progress" /\ ~MayRetry(e) ->
         /\ keys' = keys \ {e.item}
         /\ failed' = failed + 1
         /\ UNCHANGED queue
    [] OTHER -> UNCHANGED revisits

Ended(i, r) == fate' = [fate EXCEPT ![i] = IF Completed(r) THEN r ELSE "incomplete"]

\* Mutant: without a look at the active keys.
EnqueueMutant(i) == queue' = <<Entry(i)>> \o queue /\ keys' = keys \cup {i}

\* _enqueue_revisit(prioritize=True).
Enqueue(i) ==
  IF i \in keys THEN UNCHANGED <<queue, keys>>
  ELSE queue' = <<Entry(i)>> \o queue /\ keys' = keys \cup {i}

-----------------------------------------------------------------------------
(* The main thread. *)

\* Mutant: in the order of the names.
ByCountMutant == [i \in Items |-> i]

\* In open loop the files sent least come first (_order_items_for_open_loop): each takes
\* the place after those before it.
Before(i, j) == counts[i] < counts[j] \/ (counts[i] = counts[j] /\ i < j)
Place(i) == 1 + Cardinality({j \in Items : Before(j, i)})
ByCount == [k \in Items |-> CHOOSE i \in Items : Place(i) = k]

BeginRound ==
  /\ main.pc = "round"
  /\ Refreshed(active')
  /\ main' = [main EXCEPT !.pc = "item", !.round = @ + 1,
                          !.todo = IF OpenLoop(active') THEN ByCount ELSE [i \in Items |-> i]]
  /\ UNCHANGED <<args, revisits, current, threads, stop, counts, files, fate>>

\* The query finds the file unchanged (1886-1912), or its transfer begins.
NextItem ==
  /\ main.pc = "item" /\ main.todo # <<>>
  /\ LET i == Head(main.todo) IN
     \/ /\ args.query
        /\ main' = [main EXCEPT !.pc = "between", !.item = i]
        /\ fate' = [fate EXCEPT ![i] = "skipped"]
     \/ /\ main' = [main EXCEPT !.pc = "start", !.item = i]
        /\ UNCHANGED fate
  /\ UNCHANGED <<args, active, revisits, current, threads, stop, counts, files>>

\* _start_revisit_worker: a thread that outlived its join runs on when the event is
\* cleared.  Without a free thread in the model there is no new one.
StartWorker ==
  /\ main.pc = "start"
  /\ main' = [main EXCEPT !.pc = "key"]
  /\ LET free == {w \in Workers : worker[w].pc = "off"} IN
     IF RevisitEnabled /\ thread = None /\ free # {}
     THEN LET w == CHOOSE w \in free : TRUE IN
          /\ thread' = w
          /\ worker' = [worker EXCEPT ![w].pc = "check"]
          /\ halt' = FALSE
     ELSE UNCHANGED threads
  /\ UNCHANGED <<args, active, revisits, current, stop, counts, files, fate>>

SetKey ==
  /\ main.pc = "key"
  /\ main' = [main EXCEPT !.pc = "digest"]
  /\ current' = main.item
  /\ UNCHANGED <<args, active, revisits, threads, stop, counts, files, fate>>

\* Mutant: any digest in the cache will do.
ValidMutant(i, stat) == ahead.cache[i].stat # None

\* _get_prefetched_checksum: the file as it is now against the cache.
Valid(i, stat) == ahead.cache[i].stat = stat
LookAhead ==
  /\ main.pc = "digest"
  /\ LET i == main.item
         now == version[i]
     IN
     /\ main' = [main EXCEPT !.checked = now,
                             !.pc = IF ~Valid(i, now) /\ ahead.item = i THEN "await" ELSE "send",
                             !.override = IF Valid(i, now) THEN ahead.cache[i].digest ELSE None]
     /\ ahead' = IF Valid(i, now) THEN ahead ELSE [ahead EXCEPT !.cache[i] = NotHashed]
  /\ UNCHANGED <<args, active, revisits, current, threads, stop, counts, version, fate>>

\* The worker has hashed the file meanwhile, or the 0.2 s are over.
Await ==
  /\ main.pc = "await"
  /\ \/ main' = [main EXCEPT !.pc = "send"]
     \/ /\ Valid(main.item, main.checked)
        /\ main' = [main EXCEPT !.pc = "send", !.override = ahead.cache[main.item].digest]
  /\ UNCHANGED <<args, active, revisits, current, threads, stop, counts, files, fate>>

\* The primary transfer; PermissionError is met before anything is sent.
SendPrimary ==
  /\ main.pc = "send"
  /\ \E r \in Results :
       /\ \/ Sends(TRUE, main.item, r, active')
          \/ r = "denied" /\ main.item \in args.denied /\ UNCHANGED active
       /\ main' = [main EXCEPT !.pc = "release", !.result = r]
       /\ IF r = "denied" THEN fate' = [fate EXCEPT ![main.item] = r] ELSE Ended(main.item, r)
  /\ UNCHANGED <<args, revisits, current, threads, stop, counts, files>>

\* The finally clause: the key, then _stop_revisit_worker, whose join gives up after a
\* second: long enough for a thread that does anything but send.
ReleaseKey ==
  /\ main.pc = "release"
  /\ current' = None
  /\ main' = [main EXCEPT !.pc = "halt", !.checked = None, !.override = None]
  /\ UNCHANGED <<args, active, revisits, threads, stop, counts, files, fate>>

HaltWorker ==
  /\ main.pc = "halt"
  /\ halt' = (halt \/ thread # None)
  /\ main' = [main EXCEPT !.pc = "join"]
  /\ UNCHANGED <<args, active, revisits, current, worker, thread, stop, counts, files, fate>>

Join ==
  /\ main.pc = "join"
  /\ thread # None => worker[thread].pc \in {"off", "dead", "send"}
  /\ thread' = None
  /\ main' = CASE main.result = "raised" -> [main EXCEPT !.pc = "done", !.exit = "raised"]
               [] main.result = "denied" -> [main EXCEPT !.pc = "item", !.todo = Tail(@),
                                                         !.result = None]
               [] OTHER -> [main EXCEPT !.pc = "account"]
  /\ UNCHANGED <<args, active, revisits, current, worker, halt, stop, counts, files, fate>>

\* What becomes of the file, and the send counts in the state file.
Account ==
  /\ main.pc = "account"
  /\ CASE Completed(main.result) -> UNCHANGED revisits
       [] ~Completed(main.result) /\ RevisitEnabled -> Enqueue(main.item) /\ UNCHANGED failed
       [] OTHER -> failed' = failed + 1 /\ UNCHANGED <<queue, keys>>
  /\ Refreshed(active')
  /\ counts' = IF OpenLoop(active') THEN [counts EXCEPT ![main.item] = @ + 1] ELSE counts
  /\ main' = [main EXCEPT !.pc = "between", !.result = None]
  /\ UNCHANGED <<args, current, threads, stop, files, fate>>

\* _run_revisit_attempts of the main thread: one attempt for each entry there is now,
\* if feedback is active now.
Attempts(next) ==
  LET n == Len(queue) IN
  /\ Refreshed(active')
  /\ main' = IF RepairsActive(active') /\ n > 0
             THEN [next EXCEPT !.pc = "attempts", !.left = n, !.gain = 0]
             ELSE next

Between ==
  /\ main.pc = "between"
  /\ LET next == [main EXCEPT !.pc = "item", !.todo = Tail(@), !.item = None] IN
     IF RevisitEnabled /\ ~stop THEN Attempts(next) ELSE main' = next /\ UNCHANGED active
  /\ UNCHANGED <<args, revisits, current, threads, stop, counts, files, fate>>

TakeEntry ==
  /\ main.pc = "attempts" /\ main.left > 0 /\ ~stop /\ queue # <<>>
  /\ main' = [main EXCEPT !.pc = "attempt", !.entry = Head(queue), !.left = @ - 1]
  /\ queue' = Tail(queue)
  /\ UNCHANGED <<args, active, keys, failed, current, threads, stop, counts, files, fate>>

Revisit ==
  /\ main.pc = "attempt"
  /\ \E r \in Results \ {"denied"} :
       /\ Sends(FALSE, main.entry.item, r, active')
       /\ Attempted(main.entry, r)
       /\ Ended(main.entry.item, r)
       /\ main' = IF r = "raised" THEN [main EXCEPT !.pc = "done", !.exit = "raised"]
                  ELSE [main EXCEPT !.pc = "attempts", !.entry = NoEntry,
                                    !.gain = IF main.draining /\ (main.entry.item \notin keys')
                                             THEN @ + 1 ELSE @]
  /\ UNCHANGED <<args, current, threads, stop, counts, files>>

\* Mutant: the drain goes on while there are entries.
GoOnMutant == TRUE
GoOn == main.gain > 0

AttemptsOver ==
  /\ main.pc = "attempts" /\ (main.left = 0 \/ stop \/ queue = <<>>)
  /\ main' = [main EXCEPT !.left = 0,
                          !.pc = IF ~main.draining THEN "item"
                                 ELSE IF GoOn THEN "drain" ELSE "finish"]
  /\ UNCHANGED <<args, active, revisits, current, threads, stop, counts, files, fate>>

\* Rounds go on while feedback is inactive (1998-2005).
EndRound ==
  /\ main.pc = "item" /\ main.todo = <<>>
  /\ IF stop
     THEN main' = [main EXCEPT !.pc = "finish"] /\ UNCHANGED active
     ELSE /\ Refreshed(active')
          /\ main' = [main EXCEPT
                !.pc = IF OpenLoop(active') /\ (args.rounds > 0 => main.round < args.rounds)
                       THEN "round" ELSE "drain"]
  /\ UNCHANGED <<args, revisits, current, threads, stop, counts, files, fate>>

\* The rest of the revisits, until a pass over the queue settles nothing (2007-2014).
Drain ==
  /\ main.pc = "drain"
  /\ LET next == [main EXCEPT !.pc = "finish", !.draining = TRUE] IN
     IF RevisitEnabled /\ ~stop THEN Attempts(next) ELSE main' = next /\ UNCHANGED active
  /\ UNCHANGED <<args, revisits, current, threads, stop, counts, files, fate>>

\* Mutant: the queue is only cleared.
LeftMutant == 0
Left == Len(queue)

\* What is still queued has failed; the exit code.
Finish ==
  /\ main.pc = "finish"
  /\ failed' = failed + Left
  /\ queue' = <<>> /\ keys' = {}
  /\ main' = [main EXCEPT !.pc = "done", !.exit = IF failed' > 0 THEN "1" ELSE "0"]
  /\ UNCHANGED <<args, active, current, threads, stop, counts, files, fate>>

MainStep ==
  \/ BeginRound \/ NextItem \/ StartWorker \/ SetKey \/ LookAhead \/ Await
  \/ SendPrimary \/ ReleaseKey \/ HaltWorker \/ Join \/ Account
  \/ Between \/ TakeEntry \/ Revisit \/ AttemptsOver
  \/ EndRound \/ Drain \/ Finish

-----------------------------------------------------------------------------
(* The revisit worker.  Its own sender gets the flag of the main one before each    *)
(* attempt, and hears or loses the uplink on its own after that.                    *)

Alive == main.pc # "done"

\* A turn of the thread's loop, up to the look at feedback.
WorkerCheck(w) ==
  /\ Alive /\ worker[w].pc = "check"
  /\ IF halt \/ stop
     THEN worker' = [worker EXCEPT ![w].pc = "off"] /\ UNCHANGED active
     ELSE /\ Refreshed(active')
          /\ worker' = [worker EXCEPT ![w].pc = IF RepairsActive(active') THEN "take" ELSE "check"]
  /\ UNCHANGED <<args, main, revisits, current, thread, halt, stop, counts, files, fate>>

\* The key of the primary transfer is read with the entry, under one lock.
WorkerTake(w) ==
  /\ Alive /\ worker[w].pc = "take"
  /\ IF stop \/ queue = <<>>
     THEN worker' = [worker EXCEPT ![w].pc = "check"] /\ UNCHANGED queue
     ELSE /\ queue' = Tail(queue)
          /\ worker' = [worker EXCEPT ![w] =
               [pc |-> IF Head(queue).item = current THEN "blocked" ELSE "send",
                entry |-> Head(queue)]]
  /\ UNCHANGED <<args, active, main, keys, failed, current, thread, halt, stop, counts, files,
                 fate>>

\* The entry of the primary transfer goes back, and the worker looks again at once.
WorkerReturn(w) ==
  /\ Alive /\ worker[w].pc = "blocked"
  /\ queue' = Append(queue, worker[w].entry)
  /\ worker' = [worker EXCEPT ![w] = [pc |-> "take", entry |-> NoEntry]]
  /\ UNCHANGED <<args, active, main, keys, failed, current, thread, halt, stop, counts, files,
                 fate>>

\* An exception ends the thread, and its entry goes with it.
WorkerRevisit(w) ==
  /\ Alive /\ worker[w].pc = "send"
  /\ \E r \in Results \ {"denied"} :
       /\ \E a \in BOOLEAN : Sends(FALSE, worker[w].entry.item, r, a)
       /\ Attempted(worker[w].entry, r)
       /\ Ended(worker[w].entry.item, r)
       /\ worker' = [worker EXCEPT ![w] =
            IF r = "raised" THEN [@ EXCEPT !.pc = "dead"] ELSE [pc |-> "check", entry |-> NoEntry]]
  /\ UNCHANGED <<args, active, main, current, thread, halt, stop, counts, files>>

WorkerStep(w) == WorkerCheck(w) \/ WorkerTake(w) \/ WorkerReturn(w) \/ WorkerRevisit(w)

-----------------------------------------------------------------------------
(* The checksum prefetch. *)

PrefetchTake ==
  /\ Alive /\ ahead.pc = "idle" /\ ahead.todo # <<>>
  /\ ahead' = [ahead EXCEPT !.pc = "stat", !.item = Head(ahead.todo), !.todo = Tail(@)]
  /\ UNCHANGED <<args, active, main, revisits, current, threads, stop, counts, version, fate>>

\* A file that may not be opened ends here (OSError).
Idle(a) == [a EXCEPT !.pc = "idle", !.item = None, !.stat = None]
PrefetchStat ==
  /\ Alive /\ ahead.pc = "stat"
  /\ \/ ahead' = [ahead EXCEPT !.pc = "hash", !.stat = version[ahead.item]]
     \/ ahead.item \in args.denied /\ ahead' = Idle(ahead)
  /\ UNCHANGED <<args, active, main, revisits, current, threads, stop, counts, version, fate>>

PrefetchHash ==
  /\ Alive /\ ahead.pc = "hash"
  /\ ahead' = Idle([ahead EXCEPT !.cache[ahead.item] =
                      [stat |-> ahead.stat, digest |-> version[ahead.item]]])
  /\ UNCHANGED <<args, active, main, revisits, current, threads, stop, counts, version, fate>>

PrefetchStep == PrefetchTake \/ PrefetchStat \/ PrefetchHash

-----------------------------------------------------------------------------
(* Signals, edits and the end of the process. *)

Signal ==
  /\ Alive /\ args.stops /\ ~stop
  /\ stop' = TRUE
  /\ UNCHANGED <<args, active, main, revisits, current, threads, counts, files, fate>>

Edit(i) ==
  /\ Alive /\ version[i] < args.edits
  /\ version' = [version EXCEPT ![i] = @ + 1]
  /\ UNCHANGED <<args, active, main, revisits, current, threads, stop, counts, ahead, fate>>

\* The process is killed and the command repeated: only the state file is left.
Crash ==
  /\ args.crashes > 0
  /\ args' = [args EXCEPT !.crashes = @ - 1]
  /\ active' = FALSE /\ main' = Fresh
  /\ queue' = <<>> /\ keys' = {} /\ failed' = 0
  /\ current' = None
  /\ worker' = [w \in Workers |-> [pc |-> "off", entry |-> NoEntry]]
  /\ thread' = None /\ halt' = FALSE /\ stop' = FALSE
  /\ ahead' = NothingAhead
  /\ fate' = [i \in Items |-> "new"]
  /\ UNCHANGED <<counts, version>>

Next ==
  \/ MainStep \/ PrefetchStep
  \/ \E w \in Workers : WorkerStep(w)
  \/ Signal \/ Crash
  \/ \E i \in Items : Edit(i)

\* The threads run, and a call of send_file returns (Returns in Transfer).
Spec == Init /\ [][Next]_vars
FairSpec == Spec /\ WF_vars(MainStep) /\ \A w \in Workers : WF_vars(WorkerStep(w))

-----------------------------------------------------------------------------
(* Properties. *)

Held == ({main.entry.item} \cup {worker[w].entry.item : w \in Workers}) \ {None}
Queued == {queue[k].item : k \in DOMAIN queue}

Entries == [item : Items \cup {None}, attempts : Nat]
Hashes == [stat : Nat \cup {None}, digest : Nat \cup {None}]
TypeOK ==
  /\ active \in BOOLEAN /\ halt \in BOOLEAN /\ stop \in BOOLEAN
  /\ main.pc \in {"round", "item", "start", "key", "digest", "await", "send", "release",
                  "halt", "join", "account", "between", "attempts", "attempt", "drain",
                  "finish", "done"}
  /\ main.entry \in Entries /\ main.exit \in Exits \cup {None}
  /\ args.rounds > 0 => main.round <= args.rounds
  /\ \A k \in DOMAIN queue : queue[k] \in Entries /\ queue[k].attempts < args.passes
  /\ keys \subseteq Items /\ current \in Items \cup {None} /\ failed \in Nat
  /\ worker \in [Workers -> [pc : {"off", "check", "take", "blocked", "send", "dead"},
                             entry : Entries]]
  /\ thread \in Workers \cup {None}
  /\ counts \in [Items -> Nat] /\ version \in [Items -> 0 .. args.edits]
  /\ ahead.cache \in [Items -> Hashes]
  /\ fate \in [Items -> {"new", "skipped", "denied", "incomplete", "delivered", "unheard",
                         "empty"}]

\* An incomplete transfer has one owner, the queue or one thread: no two attempts at it
\* run at the same time, none is in the queue twice, and a key without an owner, which
\* would keep a file from ever being queued again, is one whose thread died.
OneOwner ==
  Alive =>
    /\ Queued \cup Held = keys
    /\ Queued \cap Held = {}
    /\ Cardinality(Queued) = Len(queue)
    /\ \A w \in Workers : worker[w].entry # NoEntry =>
         /\ worker[w].entry.item # main.entry.item
         /\ \A v \in Workers \ {w} : worker[v].entry.item # worker[w].entry.item

\* What exit code 0 is worth: each file was skipped or refused, or its last transfer was
\* completed.  With feedback forced on "completed" is the receiver's word, but for a file
\* without chunks, for which nothing is waited for.  Nothing at all is said of a file
\* whose entry a worker thread took and has not given back when the process ends, be it
\* that the thread outlived its join or that an exception ended it.
SuccessIsEarned ==
  main.exit = "0" =>
    \A i \in Items \ Held :
      \/ fate[i] \in {"skipped", "denied", "delivered"}
      \/ fate[i] = "unheard" /\ args.feedback # "on"
      \/ fate[i] = "empty" /\ i \in args.empty

\* The same without the exception.
SuccessIsComplete == main.exit = "0" => \A i \in Items : fate[i] # "incomplete"

\* A checksum computed ahead is never that of older contents than the file had when sync
\* looked.  (It may be of newer ones: the wait for a hash in progress does not look again.)
PrefetchSound == main.override # None => main.override >= main.checked

\* Files are sent equally often in open loop, whenever the command was killed and
\* repeated; a file that was refused is behind, and one that a query found unchanged is
\* not sent.
CountsFair ==
  args.feedback = "off" /\ ~args.query =>
    \A i, j \in Items \ args.denied : counts[i] <= counts[j] + 1

\* With a limit on the rounds the command ends, whatever the transfers come to.
SyncEnds == <>(main.pc = "done")
=============================================================================
