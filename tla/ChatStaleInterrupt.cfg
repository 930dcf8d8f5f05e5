SPECIFICATION Spec
CONSTANTS
  Sessions = {s1}
  MaxTurns = 2
  MaxPresses = 1
  MaxInFlight = 1
  SlowSend = FALSE
  Malformed = FALSE
INVARIANT InterruptStopsItsTurn
\* The program ends at /quit, at Ctrl-C or on an exception.
CHECK_DEADLOCK FALSE
