---------------------------- MODULE ChunkTracker ----------------------------
(***************************************************************************)
(* The ChunkTracker of one transfer (space_sync/ranges.py:99-208): chunks  *)
(* arrive in any order, also twice or outside the file, and the tracker is *)
(* rebuilt from the journal.  The properties compare it with the plain set *)
(* of chunks, and follow a repair request from the tracker over the STATUS *)
(* frame (frames.py:222-265) to the list the sender goes through.          *)
(***************************************************************************)
EXTENDS Ranges

CONSTANTS
  Totals,    \* numbers of chunks of the files considered
  Journals,  \* lists of ranges found in journals that this tracker did not write
  MaxRanges  \* MAX_RANGES_PER_FRAME

ASSUME TrackerAssumption ==
  /\ Totals \subseteq Nat
  /\ Journals \subseteq Seq(Int \X Int)
  /\ MaxRanges \in Nat

VARIABLES
  total,   \* total_chunks
  ranges,  \* _received_ranges
  count,   \* _received_count
  got      \* the chunks that arrived (of the model)

vars == <<total, ranges, count, got>>

Init ==
  /\ total \in Totals
  /\ ranges = <<>>
  /\ count = 0
  /\ got = {}

InFile(c) == 0 <= c /\ c < total
Covered(c) ==
  LET i == FindInsertAt(ranges, c) IN InRange(ranges, i, c) \/ InRange(ranges, i + 1, c)

\* add: FALSE for a chunk outside the file or already there, and nothing changes.
Add(c) ==
  /\ InFile(c)
  /\ ~Covered(c)
  /\ ranges' = Inserted(ranges, c)
  /\ count' = count + 1
  /\ got' = got \cup {c}
  /\ UNCHANGED total

\* from_received_ranges of the journal "saved".
Rebuild(saved) ==
  /\ ranges' = Normalized(total, saved)
  /\ count' = CountOf(ranges')
  /\ got' = Expand(saved) \cap (0 .. total - 1)
  /\ UNCHANGED total

Restart == Rebuild(ranges)
Load == ranges = <<>> /\ \E saved \in Journals : Rebuild(saved)

Next ==
  \/ \E c \in -1 .. total : Add(c)
  \/ Restart
  \/ Load

Spec == Init /\ [][Next]_vars

IsComplete == count = total
Missing == MissingBetween(ranges, 0, total)
MissingUpto(end) == MissingBetween(ranges, 0, Max({0, Min({end, total})}))

\* What the sender decodes of a list of ranges; encoding refuses a longer one.
Encodable(list) == Len(list) <= MaxRanges
OverTheWire(list) == MergeRanges(MergeRanges(list))

-----------------------------------------------------------------------------
(* Properties. *)

\* Every variable holds a value of the kind the code keeps in it.
TypeOK ==
  /\ total \in Totals
  /\ ranges \in Seq((0 .. total) \X (0 .. total))
  /\ count \in 0 .. total
  /\ got \subseteq 0 .. total - 1

\* In whatever order the chunks come, the list is the one canonical list of what
\* arrived (sorted, disjoint, no two ranges that touch), each chunk is counted once,
\* and a chunk is refused exactly when it is known.
RangesExact ==
  /\ ranges = RangesFromIndexes(got)
  /\ count = Cardinality(got)
  /\ \A c \in 0 .. total - 1 : Covered(c) <=> c \in got

\* What is reported missing, up to any position, is exactly what did not arrive;
\* the transfer counts as complete exactly when nothing is.
MissingExact ==
  /\ \A end \in -1 .. total + 1 :
       MissingUpto(end) = RangesFromIndexes({c \in 0 .. total - 1 : c < end} \ got)
  /\ IsComplete <=> Missing = <<>>

\* A repair request limited to a budget names the first missing chunks, as many as
\* the budget allows and at least one; it fits a frame when the budget does, and
\* the sender reads the same list and can limit it further.
RequestsFirstMissing ==
  \A budget \in 1 .. total + 1 :
    LET asked == LimitToBudget(Missing, budget)
        n == Min({budget, total - count})
    IN  /\ Expand(asked) \subseteq Expand(Missing)
        /\ Cardinality(Expand(asked)) = n /\ CountOf(asked) = n
        /\ \A c \in Expand(asked), d \in Expand(Missing) \ Expand(asked) : c < d
        /\ budget <= MaxRanges => Encodable(asked)
        /\ OverTheWire(asked) = asked
        /\ \A own \in 1 .. budget :
             LimitToBudget(asked, own) = LimitToBudget(Missing, own)
=============================================================================
