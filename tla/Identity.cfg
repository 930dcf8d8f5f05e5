SPECIFICATION Spec
CONSTANTS
  Procs = {p1, p2, p3}
  Linking = {p1, p2}
  MaxCrashes = 1
  Old = Old
  None = None
INVARIANT WinnerIsReturned
INVARIANT NeverHalfWritten
INVARIANT NoTempLeft
PROPERTY IdentityIsPermanent
\* A call that has failed is not made again.
CHECK_DEADLOCK FALSE
