----------------------------- MODULE MCTransfer -----------------------------
(* Calls of send_file on files of no, one and two chunks.                  *)
EXTENDS Transfer

\* What sync does first: a pass whose repairs have a budget.
Primary == [mode |-> "auto", initial |-> TRUE, total |-> 1, rounds |-> 2, budget |-> 1,
            timed |-> FALSE, drops |-> {}, edits |-> {}, stops |-> FALSE]
\* A revisit: repairs only.
Revisit == [Primary EXCEPT !.initial = FALSE, !.total = 2, !.rounds = 1, !.budget = 0]
\* ssync send --feedback: the worker serves repairs during the pass.
Forced == [Primary EXCEPT !.mode = "on", !.total = 2, !.rounds = 1, !.budget = 0]
\* ssync send --no-feedback, with the loss simulation.
OpenLoop == [Primary EXCEPT !.mode = "off", !.total = 2, !.drops = {0, 1},
                            !.edits = {"edited", "cut"}, !.stops = TRUE]

\* The file is edited, the deadline passes or a signal comes where one chunk is enough
\* to see what follows.
TheCalls ==
  { Primary, Revisit, Forced, OpenLoop,
    [Primary EXCEPT !.total = 0],
    [Revisit EXCEPT !.mode = "on", !.edits = {"edited"}],
    [Primary EXCEPT !.mode = "on", !.edits = {"edited"}],
    [Primary EXCEPT !.mode = "on", !.timed = TRUE, !.stops = TRUE] }
=============================================================================
