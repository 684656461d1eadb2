--------------------------- MODULE RepairRequests ---------------------------
(***************************************************************************)
(* How a receiver with feedback asks for what is missing                   *)
(* (space_sync/receiver.py:677-997, 1608-1680): the receive thread with    *)
(* its ticks, the repair timer and the send worker, for one transfer, and  *)
(* a link that loses, delays and duplicates in both directions.            *)
(*                                                                         *)
(* The chunks received are a set here; Receiver says how they get into the *)
(* file, ChunkTracker how they are kept as ranges.  Time is the age of the *)
(* latest DATA and of the latest request, up to an age that is as good as  *)
(* never; a beacon that is due and a transfer that is stale are choices.   *)
(***************************************************************************)
EXTENDS Integers, Sequences, FiniteSets, FiniteSetsExt

CONSTANTS
  Total,       \* chunks of the file
  Budget,      \* max_repair_chunks_per_request, 0 for no limit
  HoleStart,   \* leading_hole_start_threshold_chunks
  HoleSpan,    \* leading_hole_min_span_chunks
  HoleBudget,  \* the budget of a leading hole: its multiplier and maximum applied
  MinSeen,     \* periodic_repair_min_seen_chunks
  Period,      \* periodic_repair_request_s
  Timeout,     \* repair_request_inflight_timeout_s
  Quiet,       \* forward_stream_quiet_s
  QueueMax     \* _send_queue.maxsize

ASSUME RequestsAssumption ==
  /\ {Total, HoleBudget, Period, Timeout, QueueMax} \subseteq Nat \ {0}
  /\ {Budget, HoleStart, HoleSpan, MinSeen, Quiet} \subseteq Nat

VARIABLES
  tr,        \* the transfer: _TransferStateData
  receive,   \* where the receive thread stands in a tick
  sendq,     \* _send_queue
  link,      \* the latest request on its way to the sender, or nothing
  air,       \* chunks on their way to the receiver
  last       \* history: the age of the latest periodic request, how much it asked for,
             \* and how many chunks there were

vars == <<tr, receive, sendq, link, air, last>>
outside == <<link, air>>

Chunks == 0 .. Total - 1
\* An age that every comparison takes for that of a request never made.
Never == Max({Period, Timeout})
Older(age, limit) == IF age < limit THEN age + 1 ELSE limit

Missing == Chunks \ tr.got
Beacon == [kind |-> "BEACON", missing |-> {}]
Request(S) == [kind |-> "INCOMPLETE", missing |-> S]
Frames == [kind : {"BEACON", "INCOMPLETE"}, missing : SUBSET Chunks]

NoRequest == [flight |-> FALSE, base |-> 0, asked |-> 0, request |-> Never]
NoLast == [age |-> Period, asked |-> 0, base |-> 0]
\* The receiver starts: with the METADATA of the transfer, or with what its journal kept,
\* which may be older than what came; of requests it keeps nothing.  Of the sender's pass
\* any part is on its way, or will be, and the rest is lost.
Init ==
  /\ tr \in [got : SUBSET Chunks, highest : -1 .. Total - 1, done : {FALSE},
             data : {Quiet}, ask : {NoRequest}]
  /\ tr.got # Chunks /\ \A c \in tr.got : c <= tr.highest
  /\ air \in SUBSET Chunks
  /\ receive = "recv" /\ sendq = <<>> /\ link = {}
  /\ last = NoLast

-----------------------------------------------------------------------------
(* What is asked for. *)

FirstOfMutant(S, n) == {c \in S : Cardinality({d \in S : d < c}) <= n}

\* limit_ranges_to_chunk_budget.
FirstOf(S, n) == {c \in S : Cardinality({d \in S : d < c}) < n}
\* The first of the missing ranges.
FirstRange(S) == {c \in S : \A d \in Min(S) .. c : d \in S}

\* _is_leading_hole_heavy.
HoleHeavy(S) ==
  /\ S # {}
  /\ Min(S) <= HoleStart
  /\ Cardinality(FirstRange(S)) >= HoleSpan
  /\ tr.highest + 1 > Min(S)

\* _limit_missing_ranges_for_transfer.
Limited(S) ==
  IF Budget = 0 THEN S
  ELSE IF HoleHeavy(S) THEN FirstOf(FirstRange(S), Max({Budget, HoleBudget}))
  ELSE FirstOf(S, Budget)

\* _limit_missing_ranges, for a transfer that is advertised.
LimitedPlain(S) == IF Budget = 0 THEN S ELSE FirstOf(S, Budget)

PutMutant(q, u) == Append(q, u)

\* _sendto_best_effort with the queue of the send worker.
Put(q, u) == IF Len(q) < QueueMax THEN Append(q, u) ELSE q

-----------------------------------------------------------------------------
(* When. *)

Progress(t) == Cardinality(t.got) - t.ask.base
Fulfilled(t) == t.ask.asked > 0 /\ Progress(t) >= t.ask.asked

ReleasedMutant(t) == t.ask.asked > 0 /\ Progress(t) > 0

\* Three quarters of the request have come, and a period has passed.
Released(t) ==
  /\ t.ask.asked > 0 /\ Progress(t) > 0
  /\ t.ask.request >= Period
  /\ 4 * Progress(t) >= 3 * t.ask.asked

TimedOutMutant(t) == FALSE

\* The request counts as lost.
TimedOut(t) == t.ask.request >= Timeout

\* _can_send_repair_request: the transfer after it, and whether it may.
CanSend(t) == t.ask.flight => Fulfilled(t) \/ Released(t) \/ TimedOut(t)
AfterCheck(t) ==
  IF ~(t.ask.flight /\ CanSend(t)) THEN t
  ELSE [t EXCEPT !.ask.flight = FALSE,
                 !.ask.request = IF Fulfilled(t) \/ Released(t) THEN Never ELSE @]

\* _send_repair_request: the transfer counts as asked for whether or not the frame got
\* into the queue.
Asked(t, S) ==
  [t EXCEPT !.ask = [flight |-> TRUE, base |-> Cardinality(t.got), asked |-> Cardinality(S),
                     request |-> 0]]

\* _maybe_send_periodic_repair_request for the transfer t with the queue q.
MaySend(t) ==
  /\ t.highest + 1 >= MinSeen
  /\ CanSend(t)
  /\ AfterCheck(t).ask.request >= Period
  /\ Missing # {}
Periodic(t, q) ==
  IF MaySend(t)
  THEN /\ tr' = Asked(AfterCheck(t), Limited(Missing))
       /\ sendq' = Put(q, Request(Limited(Missing)))
       /\ last' = [age |-> 0, asked |-> Cardinality(Limited(Missing)),
                   base |-> Cardinality(t.got)]
  ELSE /\ tr' = IF t.highest + 1 >= MinSeen THEN AfterCheck(t) ELSE t
       /\ sendq' = q
       /\ UNCHANGED last

\* _maybe_send_beacon, when one is due; one for which there is no room is tried again.
\* The interval is longer than a frame waits for the send worker.
BeaconOr(q) == IF Beacon \in {q[k] : k \in DOMAIN q} THEN {q} ELSE {q, Put(q, Beacon)}

-----------------------------------------------------------------------------
(* The receive thread. *)

\* DATA: _accept_data.  It leaves the link, or will come once more.
Data(c) ==
  /\ receive = "recv"
  /\ air' \in {air, air \ {c}}
  /\ IF tr.done THEN UNCHANGED <<tr, sendq>>
     ELSE /\ tr' = [tr EXCEPT !.got = @ \cup {c}, !.data = 0, !.highest = Max({@, c}),
                             !.done = (tr.got \cup {c} = Chunks)]
          /\ sendq' \in BeaconOr(sendq)
  /\ UNCHANGED <<receive, link, last>>

\* METADATA repeated: _maybe_advertise_receiver_state.
Advertise ==
  /\ receive = "recv" /\ ~tr.done
  /\ tr.got # {} /\ tr.data >= Quiet
  /\ sendq' = Put(sendq, Request(LimitedPlain(Missing)))
  /\ UNCHANGED <<outside, tr, receive, last>>

\* A socket that was silent: _tick_periodic_repairs, up to the release of the lock.
Tick ==
  /\ receive = "recv" /\ ~tr.done
  /\ receive' = "stale"
  /\ \E q \in BeaconOr(sendq) : Periodic(tr, q)
  /\ UNCHANGED outside

StaleCheckMutant ==
  /\ receive = "stale"
  /\ receive' = "recv"
  /\ \/ UNCHANGED tr
     \/ ~tr.done /\ tr' = [tr EXCEPT !.ask.asked = 0]
  /\ UNCHANGED <<outside, sendq, last>>

\* _maybe_finalize_stale_transfer: an incomplete transfer is kept, and may be asked for
\* anew.
StaleCheck ==
  /\ receive = "stale"
  /\ receive' = "recv"
  /\ \/ UNCHANGED tr
     \/ /\ ~tr.done
        /\ tr' = [tr EXCEPT !.ask.flight = FALSE, !.ask.asked = 0]
  /\ UNCHANGED <<outside, sendq, last>>

\* _run_repair_timer: not while the forward stream is active.
Timer ==
  /\ ~tr.done /\ tr.data >= Quiet
  /\ Periodic(tr, sendq)
  /\ UNCHANGED <<outside, receive>>

\* _run_send_worker: what it sends may be lost at once.  Beacons are heard elsewhere, see
\* Transfer.
SendWorker ==
  /\ sendq # <<>>
  /\ sendq' = Tail(sendq)
  /\ \/ UNCHANGED link
     \/ Head(sendq) # Beacon /\ link' = {Head(sendq)}
  /\ UNCHANGED <<tr, receive, air, last>>

-----------------------------------------------------------------------------
(* The sender and the clock. *)

\* A request is answered as far as the link lets it.
Answer(u) ==
  /\ link' \in {link, {}}
  /\ \E S \in SUBSET u.missing : air' = air \cup S
  /\ UNCHANGED <<tr, receive, sendq, last>>

Clock ==
  /\ ~tr.done
  /\ tr' = [tr EXCEPT !.data = Older(@, Quiet), !.ask.request = Older(@, Never)]
  /\ last' = [last EXCEPT !.age = Older(@, Period)]
  /\ UNCHANGED <<outside, receive, sendq>>

Next ==
  \/ \E c \in air : Data(c)
  \/ Advertise \/ Tick \/ StaleCheck \/ Timer \/ SendWorker
  \/ Clock
  \/ \E u \in link : Answer(u)

\* The threads and the clock go on, and the link does not drop everything: of the
\* requests made again and again one is sent and answered whole, and what was sent arrives.
Fairness ==
  /\ WF_vars(Clock) /\ WF_vars(StaleCheck) /\ WF_vars(SendWorker) /\ SF_vars(Timer)
  /\ SF_vars(SendWorker /\ link' # link)
  /\ SF_vars(\E u \in link : Answer(u) /\ air' = air \cup u.missing)
  /\ SF_vars(\E c \in air : c \in Missing /\ Data(c))
Spec == Init /\ [][Next]_vars
FairSpec == Spec /\ Fairness

-----------------------------------------------------------------------------
(* Properties. *)

TypeOK ==
  /\ tr \in [got : SUBSET Chunks, highest : -1 .. Total - 1, done : BOOLEAN,
             data : 0 .. Quiet,
             ask : [flight : BOOLEAN, base : Nat, asked : Nat, request : 0 .. Never]]
  /\ receive \in {"recv", "stale"}
  /\ \A k \in DOMAIN sendq : sendq[k] \in Frames
  /\ Len(sendq) <= QueueMax
  /\ link \subseteq {Request(S) : S \in SUBSET Chunks} /\ air \subseteq Chunks

\* A request in flight is the latest one of either thread, with the counts of the time it
\* was made, and it can be fulfilled: it asked for something, and for no more than was
\* missing then.
FlightSound ==
  tr.ask.flight =>
    /\ tr.ask.asked = last.asked /\ tr.ask.base = last.base
    /\ tr.ask.asked > 0 /\ tr.ask.base + tr.ask.asked <= Total
    /\ tr.ask.base <= Cardinality(tr.got)

\* Whatever is asked for is missing at that moment, begins with the first missing chunk,
\* so that the file grows from its start, and respects the budgets.
Requested(u) == u.kind = "INCOMPLETE" /\ u.missing # {}
Useful(u) ==
  /\ u.missing \subseteq Missing
  /\ Min(Missing) \in u.missing
  /\ Budget > 0 => Cardinality(u.missing) <= Max({Budget, HoleBudget})
RequestsUseful ==
  [][Len(sendq') > Len(sendq) /\ Requested(sendq'[Len(sendq')]) =>
       Useful(sendq'[Len(sendq')])]_vars

\* The two threads that make periodic requests do not flood the sender: within a period
\* one request follows another (that is not the same) only when all it asked for has come.
RequestsPaced ==
  [][last' # last /\ last'.age = 0 /\ last.age < Period =>
       Cardinality(tr.got) - last.base >= last.asked]_vars

\* A transfer of which enough was seen is completed, also one resumed from the journal:
\* no request that was lost, dropped by a full queue or answered in part keeps the
\* receiver from asking again.
Recovered == tr.highest + 1 >= MinSeen ~> tr.done
=============================================================================
