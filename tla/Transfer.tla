------------------------------ MODULE Transfer ------------------------------
(***************************************************************************)
(* A call of send_file (Sender), the link and the receiver of one file.    *)
(*                                                                         *)
(* The receiver is what Receiver promises about one transfer, seen from    *)
(* the other side of the link: it keeps the first copy of each chunk,      *)
(* answers COMPLETE only with the file in place, and may stay silent.  A   *)
(* frame of the wire arrives at any time after it was sent, any number of  *)
(* times and in any order, or never; so does a STATUS, or it is lost.      *)
(***************************************************************************)
EXTENDS Sender

CONSTANT
  MaxUplink  \* frames that fit into the buffer of rx_sock

ASSUME UplinkAssumption == MaxUplink \in Nat \ {0}

VARIABLE
  rcv  \* the receiver: knows the manifest; chunk -> the copy it has; file in place

allVars == <<vars, rcv>>

Lacking == {c \in Chunks : rcv.got[c] = "none"}
Nothing == [c \in Chunks |-> "none"]

\* A revisit finds what earlier calls have left at the receiver.
Init ==
  /\ SenderInit
  /\ \E open \in BOOLEAN, S \in SUBSET Chunks :
       /\ call.initial => ~open
       /\ ~open => S = {}
       /\ rcv = [open |-> open, placed |-> FALSE,
                 got |-> [c \in Chunks |-> IF c \in S THEN "good" ELSE "none"]]
  /\ uplink \in IF AutoFeedback THEN {{}, {Beacon}} ELSE {{}}

-----------------------------------------------------------------------------
(* The receiver. *)

\* A STATUS on its way: it is lost, on the link or in a full buffer, or it waits.
Sent(u) ==
  \/ UNCHANGED uplink
  \/ Cardinality(uplink) < MaxUplink /\ uplink' = uplink \cup {u}

\* METADATA: the file in place is answered for, anything else opens the transfer or,
\* when it is known, may be answered with what is missing.
ArriveManifest ==
  /\ Manifest \in wire
  /\ \/ /\ rcv.placed
        /\ Sent(Status("COMPLETE", {}))
        /\ UNCHANGED rcv
     \/ /\ ~rcv.placed /\ ~rcv.open
        /\ rcv' = [rcv EXCEPT !.open = TRUE]
        /\ UNCHANGED uplink
     \/ /\ ~rcv.placed /\ rcv.open
        /\ \E c \in Chunks : rcv.got[c] # "none"
        /\ Sent(Status("INCOMPLETE", Lacking))
        /\ UNCHANGED rcv
  /\ UNCHANGED <<call, known, main, fb, spent, Threads, source, stop, wire>>

ArriveData(f) ==
  /\ f \in wire /\ f.type = "DATA"
  /\ rcv.open /\ rcv.got[f.chunk] = "none"
  /\ rcv' = [rcv EXCEPT !.got[f.chunk] = IF f.good THEN "good" ELSE "bad"]
  /\ UNCHANGED vars

\* The worker of the receiver: hash, place or discard, report.
Finalize ==
  /\ rcv.open /\ Lacking = {}
  /\ LET whole == \A c \in Chunks : rcv.got[c] = "good" IN
     /\ rcv' = [open |-> FALSE, placed |-> whole, got |-> Nothing]
     /\ Sent(Status(IF whole THEN "COMPLETE" ELSE "HASH_MISMATCH", {}))
  /\ UNCHANGED <<call, known, main, fb, spent, Threads, source, stop, wire>>

\* The repair timer and the beacons of a receiver with feedback.
Ask ==
  /\ \/ rcv.open /\ Lacking # {} /\ Sent(Status("INCOMPLETE", Lacking))
     \/ rcv.open /\ Sent(Beacon)
  /\ UNCHANGED <<rcv, call, known, main, fb, spent, Threads, source, stop, wire>>

ReceiverStep ==
  ArriveManifest \/ Finalize \/ Ask \/ \E f \in wire : ArriveData(f)

Next ==
  \/ SenderStep /\ UNCHANGED rcv
  \/ ReceiverStep

Spec == Init /\ [][Next]_allVars

\* The threads run, the clock goes on while a call waits, frames do not come as fast as
\* they are drained, and a request that keeps coming does not fall into the window of
\* its predecessor for ever.
Served == \E u \in uplink : WaitFrame(u) /\ spent'.rounds > spent.rounds /\ UNCHANGED rcv
Fairness ==
  /\ WF_allVars(MainStep /\ UNCHANGED rcv)
  /\ WF_allVars(PumpStep /\ UNCHANGED rcv)
  /\ WF_allVars(WorkerStep /\ UNCHANGED rcv)
  /\ WF_allVars(WaitIdle /\ UNCHANGED rcv)
  /\ WF_allVars(DrainEnd /\ UNCHANGED rcv)
  /\ SF_allVars(Served)
  /\ WF_allVars(Finalize)
FairSpec == Spec /\ Fairness

-----------------------------------------------------------------------------
(* Properties. *)

\* The types of both ends.
TypeOK ==
  /\ SenderTypeOK
  /\ rcv \in [open : BOOLEAN, placed : BOOLEAN, got : [Chunks -> {"none", "good", "bad"}]]

\* A call that ends as completed with feedback active was told so by the receiver, and
\* the file is in place: whatever a pump, a drain or a late thread heard, and however
\* often the mode changed on the way.
ConfirmedIsDelivered ==
  main.result.kind = "feedback" /\ main.result.completed => rcv.placed

\* Without feedback "completed" promises less.  Of a file that was not cut, a call with
\* a first pass has by then sent every chunk, those that the loss simulation dropped
\* being among the repeated tail, or says that it has not completed.  A call without a
\* first pass has nothing to drop: it says "completed", and need not have sent a chunk.
OpenLoopSentAll ==
  main.result.kind = "open" =>
    /\ call.initial /\ source # "cut" =>
         \A c \in Chunks : \/ \E good \in BOOLEAN : Data(c, good) \in wire
                           \/ c \in main.dropped /\ ~main.result.completed
    /\ ~call.initial => main.result.completed

\* While feedback is active in the first pass the threads have been started, though the
\* pump may have ended at a COMPLETE or a HASH_MISMATCH: the calling thread drains no
\* request of its own there (516-564 is never reached).
ThreadsServeThePass == main.pc \in {"pass", "send"} /\ fb.active => rt.on

\* The limits on repairs: the wait serves no more requests than it may, and the budget
\* of a whole call is exceeded by no more than one poll.
BudgetKept ==
  /\ call.rounds > 0 => spent.rounds <= call.rounds
  /\ call.budget > 0 /\ PollRounds > 0 => spent.budget < call.budget + PollRounds

\* A call with a limit on its rounds returns, under any loss on the link and even if
\* the receiver says nothing.  Its fairness rules out a receiver whose requests all fall
\* into the window of their predecessor: each would reset the count of idle timeouts.
\* (An edited source can make the receiver start over again and again on frames that
\* keep arriving; that case is left out.)
Returns == <>(main.pc = "done" \/ source = "edited")

\* A pass that ended, in whatever way, leaves no thread that runs: the worker ends, and
\* so does the pump, unless it sits in a recvfrom which it entered while the calling
\* thread had switched the socket to blocking.  That one outlives the join and the call.
ThreadsEnd == (main.exit # "none") ~> (pump \in {"off", "blocked"} /\ worker.pc = "off")
=============================================================================
