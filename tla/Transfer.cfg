SPECIFICATION FairSpec
CONSTANTS
  Calls <- TheCalls
  Repeats = 1
  MaxIdle = 2
  QueueMax = 1
  Burst = 1
  PollRounds = 2
  PollChunks = 2
  TailSize = 1
  MaxUplink = 2
INVARIANTS TypeOK ConfirmedIsDelivered OpenLoopSentAll ThreadsServeThePass BudgetKept
PROPERTIES Returns ThreadsEnd
CHECK_DEADLOCK FALSE
