SPECIFICATION FairSpec
CONSTANTS
  a = a
  b = b
  c = c
  d = d
  m1 = m1
  m2 = m2
  c1 = c1
  i1 = i1
  p1 = p1
  p2 = p2
  Threads = {a, b, c, d}
  Main = c
  Mutexes = {m1}
  Conds = {}
  Irqs = {}
  None = None
  RR = {}
  Detached = {}
  InitPrio <- Spread
  Inhibit = 9
  Pds = {}
  PollArray <- NoArrays
  PdKind <- NoPds
  PdObj <- NoPds
  PdMutex <- NoPds
  May <- LiveMay
  LockRank <- Nested
  NewPrios = {}
  MaxSleep = 1
  MaxCleanup = 0

PROPERTY InversionBounded
CHECK_DEADLOCK FALSE
