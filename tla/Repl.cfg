SPECIFICATION ReplSpec
CONSTANTS
  Me = me
  Clients = {me, other}
  Rows = {1}
  Stored = 1
  MaxNew = 1
  MaxCommands = 3
\* The loop may be left for good, and the bound on commands be reached.
CHECK_DEADLOCK FALSE
 
INVARIANT RemovedStaysRemoved
PROPERTY ChosenTitleStands
