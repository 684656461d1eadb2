SPECIFICATION FairSpec
CONSTANTS
  Total = 3
  Budget = 1
  HoleStart = 0
  HoleSpan = 2
  HoleBudget = 2
  MinSeen = 1
  Period = 1
  Timeout = 2
  Quiet = 1
  QueueMax = 2
INVARIANTS TypeOK FlightSound
PROPERTIES RequestsUseful RequestsPaced Recovered
CHECK_DEADLOCK FALSE
