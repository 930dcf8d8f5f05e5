SPECIFICATION FairProxySpec
CONSTANTS
  Requests = {r1, r2}
  MaxConns = 4
INVARIANT NothingOrphaned
INVARIANT RetryUsesAnother
INVARIANT NothingDialsAfterClose
PROPERTY DeadConnectionLeaves
PROPERTY StopReturns
\* The proxy may be idle or stopped for good.
CHECK_DEADLOCK FALSE
