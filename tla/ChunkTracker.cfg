SPECIFICATION Spec
CONSTANTS
  Totals = {0, 1, 2, 5, 8}
  Journals <- SomeJournals
  MaxRanges = 3
INVARIANTS TypeOK RangesExact MissingExact RequestsFirstMissing
