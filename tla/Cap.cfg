SPECIFICATION FairSpec
CONSTANTS
  MaxConns = 3
  MaxLosses = 3
INVARIANT LinkIsOwned
INVARIANT QuietAfterDisconnect
PROPERTY DisconnectReturns
PROPERTY LinkRestored
\* Nothing is left to do once the client has disconnected.
CHECK_DEADLOCK FALSE
