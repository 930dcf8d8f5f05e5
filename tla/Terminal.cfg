SPECIFICATION FairSpec
CONSTANTS
  MaxKeys = 3
  MaxResizes = 1
INVARIANT InputInOrder
PROPERTY BridgeEnds
\* Nothing is left to do once the bridge has ended.
CHECK_DEADLOCK FALSE
