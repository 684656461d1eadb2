SPECIFICATION FairSpec
CONSTANTS
  Runs <- TheRuns
  Workers = {w1, w2}
  None = None
INVARIANTS TypeOK OneOwner SuccessIsEarned PrefetchSound CountsFair
PROPERTY SyncEnds
CHECK_DEADLOCK FALSE
