SPECIFICATION Spec
CONSTANTS
  t1 = t1  t2 = t2  s1 = s1  s2 = s2  n1 = n1  m1 = m1  m2 = m2
  Tid = {t1, t2}
  Sig = {s1}
  Name = {n1}
  Addr = {a1}
  Mtime = {m1, m2}
  Obj = {o1, o2}
  Inode = {i1, i2, i3}
  NumChunks <- JustTwo
  FileName <- OneName
  SourceMtime <- SameMtime
  Sessions <- Resent
  Feedback = TRUE
  KeepPart = TRUE
  PowerLoss = FALSE
  MaxRestarts = 2
  NoTid = NoTid  NoSig = NoSig  NoObj = NoObj  NoInode = NoInode
  Hole = Hole  Now = Now  Free = Free
SYMMETRY Symmetric
INVARIANTS IndexExact ThreadsAlive JournalSound NoFalseMismatch FinalWhole
PROPERTY RestartExact
CHECK_DEADLOCK FALSE
