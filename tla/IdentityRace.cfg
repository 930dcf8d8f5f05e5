SPECIFICATION Spec
CONSTANTS
  Procs = {p1, p2, p3}
  Linking = {p1}
  MaxCrashes = 1
  Old = Old
  None = None
INVARIANT ReturnsPersisted
CHECK_DEADLOCK FALSE
