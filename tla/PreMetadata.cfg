SPECIFICATION Spec
CONSTANTS
  t1 = t1  t2 = t2  t3 = t3  t4 = t4
  Tid = {t1, t2, t3, t4}
  Chunk = {0, 1}
  Size <- LastIsShort
  Version <- TwoOfOne
  MaxBytes = 4
  MaxPerTransfer = 3
  MaxTransfers = 3
  TotalBound = 8
  NoTid = NoTid
INVARIANTS TypeOK MemoryBounded Accounted
PROPERTIES ReplayKeepsAll
