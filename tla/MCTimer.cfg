SPECIFICATION FairSpec
CONSTANTS
  a = a
  b = b
  r = r
  Threads = {a, b, r}
  None = None
  RR = {r}
  Prio <- TimerPrio
  MHZ = 1
  MaxUsec = 2
  SliceUsec = 1
  Usecs = {1, 3}
  Masks <- TimerMasks
  May <- TimerMay
INVARIANT TimerTypeOK ListMatchesStates ClockRuns FlagsServed NoStaleProxy
PROPERTY ImplementsDeadlines  SleepersWake
CHECK_DEADLOCK FALSE
