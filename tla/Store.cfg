SPECIFICATION Spec
CONSTANTS
  Procs = {p1, p2}
  Accounts = {a1, a2, b1}
  NameOf <- MCNameOf
  MaxCommands = 3
  MaxCrashes = 1
  None = None
  a1 = a1
  a2 = a2
  b1 = b1
  homelab = homelab
  office = office
SYMMETRY Symmetry
INVARIANT JoinedIsKept
INVARIANT LogoutForgets
INVARIANT SavedAtomically
\* Nothing obliges anybody to run another command.
CHECK_DEADLOCK FALSE
