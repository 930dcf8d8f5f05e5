SPECIFICATION FairSpec
CONSTANTS
  Sessions = {s1, s2}
  MaxTurns = 2
  MaxPresses = 1
  MaxInFlight = 1
  SlowSend = TRUE
  Malformed = TRUE
INVARIANT ReplyIsOwn
INVARIANT SessionsOpenOnce
INVARIANT NoCollectorLeft
PROPERTY ImplementsContract
PROPERTY WaitingTurnIsInterruptible
PROPERTY WaitersAreReleased
\* The program ends at /quit, at Ctrl-C or on an exception.
CHECK_DEADLOCK FALSE
