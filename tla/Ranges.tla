------------------------------- MODULE Ranges -------------------------------
(***************************************************************************)
(* The arithmetic on half-open chunk ranges of space_sync/ranges.py, shared *)
(* by the receiver (what it has, what it asks for), the STATUS frame and   *)
(* the sender (what it sends again).  A range is <<first, end>>, the end   *)
(* excluded; loops over a list are folds.                                  *)
(***************************************************************************)
EXTENDS Integers, Sequences, FiniteSets, SequencesExt, FiniteSetsExt

\* expand_ranges, as the set of its values.
Expand(ranges) == UNION {r[1] .. r[2] - 1 : r \in ToSet(ranges)}

\* sorted by start, which keeps the order of equals: as many ranges stand before one
\* as begin before it, or at its start and came first.
Before(ranges, j) == {i \in DOMAIN ranges : \/ ranges[i][1] < ranges[j][1]
                                            \/ ranges[i][1] = ranges[j][1] /\ i < j}
ByStart(ranges) ==
  [p \in DOMAIN ranges |->
     ranges[CHOOSE j \in DOMAIN ranges : Cardinality(Before(ranges, j)) = p - 1]]

\* merge_ranges: one round of its loop, and the loop.
Absorb(merged, r) ==
  IF merged # <<>> /\ r[1] <= Last(merged)[2]
  THEN Front(merged) \o << <<Last(merged)[1], Max({Last(merged)[2], r[2]})>> >>
  ELSE Append(merged, r)
MergeRanges(ranges) ==
  FoldLeft(Absorb, <<>>, ByStart(ranges))

\* ranges_from_indexes of a set: its values in ascending order, and the loop.
Below(indexes, v) == {w \in indexes : w < v}
Ascending(indexes) ==
  [p \in 1 .. Cardinality(indexes) |->
     CHOOSE v \in indexes : Cardinality(Below(indexes, v)) = p - 1]
Extend(ranges, v) ==
  IF ranges # <<>> /\ Last(ranges)[2] = v
  THEN Front(ranges) \o << <<Last(ranges)[1], v + 1>> >>
  ELSE Append(ranges, <<v, v + 1>>)
RangesFromIndexes(indexes) == FoldLeft(Extend, <<>>, Ascending(indexes))

\* limit_ranges_to_chunk_budget: "left" of the budget remains after "out".
Spend(limited, r) ==
  LET n == Min({limited.left, r[2] - r[1]})
  IN  IF n <= 0 THEN limited
      ELSE [left |-> limited.left - n, out |-> Append(limited.out, <<r[1], r[1] + n>>)]
\* Faulty variant: every range has the whole budget.
LimitEachRange(ranges, budget) ==
  [i \in DOMAIN ranges |-> <<ranges[i][1], Min({ranges[i][2], ranges[i][1] + budget})>>]
LimitToBudget(ranges, budget) ==
  FoldLeft(Spend, [left |-> budget, out |-> <<>>], ranges).out

\* _missing_ranges_between: everything before the cursor is received or in "out".
Skip(gap, r, end) ==
  IF r[2] <= gap.cursor \/ r[1] >= end \/ gap.cursor >= end THEN gap
  ELSE [cursor |-> Max({gap.cursor, Min({r[2], end})}),
        out |-> IF r[1] > gap.cursor
                THEN Append(gap.out, <<gap.cursor, Min({r[1], end})>>)
                ELSE gap.out]
\* Faulty variant: a gap ends where the next received range begins, beyond "end" too.
MissingUnclipped(received, start, end) ==
  LET gaps == FoldLeft(LAMBDA g, r : Skip(g, r, r[2]), [cursor |-> start, out |-> <<>>],
                       received)
  IN  IF gaps.cursor < end THEN Append(gaps.out, <<gaps.cursor, end>>) ELSE gaps.out
MissingBetween(received, start, end) ==
  LET gaps == FoldLeft(LAMBDA g, r : Skip(g, r, end), [cursor |-> start, out |-> <<>>],
                       received)
  IN  IF gaps.cursor < end THEN Append(gaps.out, <<gaps.cursor, end>>) ELSE gaps.out

\* _find_insert_at: how many ranges begin before chunk c, by bisection.
FindInsertAt(received, c) ==
  LET at == 0 .. Len(received)
      find[span \in at \X at] ==
        LET mid == (span[1] + span[2]) \div 2 IN
        IF span[1] >= span[2] THEN span[1]
        ELSE IF received[mid + 1][1] < c THEN find[<<mid + 1, span[2]>>]
        ELSE find[<<span[1], mid>>]
  IN  find[<<0, Len(received)>>]

\* Whether chunk c is in range i, when there is one.
InRange(received, i, c) ==
  i \in DOMAIN received /\ received[i][1] <= c /\ c < received[i][2]

\* Faulty variant: two ranges that the chunk joins are left apart.
InsertedUnjoined(received, c) ==
  LET i == FindInsertAt(received, c)
      after == i > 0 /\ received[i][2] = c
      first == IF after THEN received[i][1] ELSE c
  IN  SubSeq(received, 1, IF after THEN i - 1 ELSE i) \o << <<first, c + 1>> >>
        \o SubSeq(received, i + 1, Len(received))
\* The ranges with chunk c, which is in none of them: it may continue the range
\* before it, the range after it, or join the two.
Inserted(received, c) ==
  LET i == FindInsertAt(received, c)
      after == i > 0 /\ received[i][2] = c
      before == i < Len(received) /\ received[i + 1][1] = c + 1
      first == IF after THEN received[i][1] ELSE c
      end == IF before THEN received[i + 1][2] ELSE c + 1
  IN  SubSeq(received, 1, IF after THEN i - 1 ELSE i) \o << <<first, end>> >>
        \o SubSeq(received, IF before THEN i + 2 ELSE i + 1, Len(received))

\* Faulty variant: what lies outside the file is kept.
NotNormalized(total, received) == MergeRanges(received)
\* from_received_ranges: merged, and cut to the chunks of the file.
Cut(n, total) == Max({0, Min({n, total})})
Keep(kept, r, total) ==
  IF Cut(r[1], total) < Cut(r[2], total)
  THEN Append(kept, <<Cut(r[1], total), Cut(r[2], total)>>)
  ELSE kept
Normalized(total, received) ==
  FoldLeft(LAMBDA kept, r : Keep(kept, r, total), <<>>, MergeRanges(received))

CountOf(ranges) == FoldLeft(LAMBDA n, r : n + r[2] - r[1], 0, ranges)
=============================================================================
