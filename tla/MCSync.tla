------------------------------- MODULE MCSync -------------------------------
(* A few files; each run of the command opens some of the choices.         *)
EXTENDS Sync

Base == [feedback |-> "auto", files |-> 2, rounds |-> 1, passes |-> 2, query |-> FALSE,
         prefetch |-> FALSE, denied |-> {}, empty |-> {}, raises |-> FALSE, stops |-> FALSE,
         edits |-> 0, crashes |-> 0]

\* Two files in one round and one file in three, where the worker meets the entry of the
\* current transfer; forced feedback with all that can go wrong, and with an empty file;
\* the checksums; and open loop with crashes and signals.
TheRuns ==
  { Base,
    [Base EXCEPT !.files = 1, !.rounds = 3],
    [Base EXCEPT !.feedback = "on", !.query = TRUE, !.denied = {2}, !.raises = TRUE,
                 !.stops = TRUE],
    [Base EXCEPT !.feedback = "on", !.files = 3, !.passes = 1, !.empty = {3}],
    [Base EXCEPT !.feedback = "off", !.rounds = 2, !.prefetch = TRUE, !.edits = 2,
                 !.denied = {2}],
    [Base EXCEPT !.feedback = "off", !.rounds = 2, !.crashes = 2, !.files = 3,
                 !.stops = TRUE] }
=============================================================================
