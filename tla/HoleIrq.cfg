SPECIFICATION Spec
CONSTANTS
  a = a
  b = b
  c = c
  d = d
  m1 = m1
  m2 = m2
  c1 = c1
  i1 = i1
  p1 = p1
  p2 = p2
  Threads = {a, b, c}
  Main = c
  Mutexes = {m1}
  Conds = {c1}
  Irqs = {i1}
  None = None
  RR = {}
  Detached = {}
  InitPrio <- PollPrio
  Inhibit = 9
  Pds = {p1, p2}
  PollArray <- PollArrays
  PdKind <- PollKinds
  PdObj <- PollObjs
  PdMutex <- PollMutexes
  May <- PollMay
  LockRank <- Nested
  NewPrios = {}
  MaxSleep = 1
  MaxCleanup = 0
INVARIANT IrqOffWhenDead
CHECK_DEADLOCK FALSE
