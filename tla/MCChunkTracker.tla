--------------------------- MODULE MCChunkTracker ---------------------------
(* Files of up to eight chunks, the empty one included.                    *)
EXTENDS ChunkTracker

\* tests/test_ranges.py:40-43, and a list in no order with overlaps, an inner and a
\* touching range.
SomeJournals ==
  { << <<-2, 2>>, <<2, 4>>, <<6, 9>> >>,
    << <<5, 7>>, <<0, 3>>, <<1, 2>>, <<3, 4>> >> }
=============================================================================
