SPECIFICATION Spec
CONSTANTS
  a = a
  b = b
  c = c
  d = d
  m1 = m1
  m2 = m2
  c1 = c1
  i1 = i1
  p1 = p1
  p2 = p2
  Threads = {a, b, c}
  Main = c
  Mutexes = {m1}
  Conds = {c1}
  Irqs = {}
  None = None
  RR = {}
  Detached = {b}
  InitPrio <- Falling
  Inhibit = 9
  Pds = {p1, p2}
  PollArray <- JoinArrays
  PdKind <- JoinKinds
  PdObj <- JoinObjs
  PdMutex <- NoPds
  May <- ThreadMay
  LockRank <- Nested
  NewPrios = {1, 9}
  MaxSleep = 1
  MaxCleanup = 1
INVARIANT NoSleepWhenCanceled
CHECK_DEADLOCK FALSE
