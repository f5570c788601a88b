SPECIFICATION MCSpec
CONSTANTS
  u1 = u1
  u2 = u2
  u3 = u3
  c1 = c1
  c2 = c2
  x1 = x1
  s1 = s1
  s2 = s2
  Users = {u1, u2, u3}
  Nobody = Nobody
  Categories = {c1, c2}
  NoCategory = NoCategory
  Names = {c1, c2, x1}
  Sessions = {s1, s2}
  MaxAssignments = 3
  MaxRuns = 2
SYMMETRY MCSymmetry
INVARIANTS AssignTypeOK OwnerIsPrimary WorkFollowsTicket TypeIsMainCategory
PROPERTY TimersAreKept
CHECK_DEADLOCK FALSE
