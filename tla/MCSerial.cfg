SPECIFICATION Spec
CONSTANTS
  IndexRange = 3
  A2hSize = 2
  H2aSize = 3
  BufSize = 3
  SerialScenarios <- MCScenarios
  Codings <- SerialCodings
INVARIANT SerialTypeOK  RxAccounted WakeupsKept
PROPERTY RingsAreFifos
CHECK_DEADLOCK FALSE
