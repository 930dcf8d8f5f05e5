SPECIFICATION FairSpec
CONSTANTS
  Sessions = {s1, s2}
  Messages = {m1}
  Foreign = {f1}
  None = None
  MaxText = 1
  MaxInFlight = 1
  MaxFaults = 2
INVARIANT OneObserver
INVARIANT TextWrittenOnce
INVARIANT StopNamesOwnRun
PROPERTY ObservedViewCatchesUp
PROPERTY LeavingEnds
\* The terminal may be left, and the server be idle, for good.
CHECK_DEADLOCK FALSE
