SPECIFICATION Spec
CONSTANTS
  a = a
  b = b
  c = c
  d = d
  m1 = m1
  m2 = m2
  c1 = c1
  i1 = i1
  p1 = p1
  p2 = p2
  Threads = {a, b, c, d}
  Main = c
  Mutexes = {m1, m2}
  Conds = {c1}
  Irqs = {}
  None = None
  RR = {b, c}
  Detached = {}
  InitPrio <- Falling
  Inhibit = 9
  Pds = {}
  PollArray <- NoArrays
  PdKind <- NoPds
  PdObj <- NoPds
  PdMutex <- NoPds
  May <- MutexMay
  LockRank <- Nested
  NewPrios = {}
  MaxSleep = 1
  MaxCleanup = 0
INVARIANT OwnerInherits
CHECK_DEADLOCK FALSE
