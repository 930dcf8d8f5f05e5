SPECIFICATION FairLifeSpec
CONSTANTS
  Passwords = {p1, p2}
  NoPassword = NoPassword
  MaxOpen = 3
INVARIANT NothingHeldAfter
INVARIANT StoredIsPaired
PROPERTY AccountGetsIn
