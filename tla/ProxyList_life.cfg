SPECIFICATION ListFairSpec
CONSTANTS
  Ports = {p1, p2}
  None = None
  Admins = {q1, q2}
  MaxProxies = 2
  MaxRestarts = 1
INVARIANTS ListTypeOK OwnEntryDeleted
PROPERTY ClosedLeaves
CHECK_DEADLOCK FALSE
