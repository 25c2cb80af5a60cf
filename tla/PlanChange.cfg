\* A change from a long plan to a short one.
CONSTANTS
  t1 = t1
  p1 = p1
  p2 = p2
  s1 = s1
  s2 = s2
  r1 = r1
  None = None
  Tenants <- MCTenants
  Plans <- MCPlans
  Subs <- MCSubs
  Requests <- MCRequests
  MaxCharges = 2
  Quota <- MCQuota
  Window <- MCMixed
  Period <- MCMixed
  FreeLimit = 1
  MaxTime = 3
  MaxRows = 3
SPECIFICATION GatedSpec
SYMMETRY Symmetry
CHECK_DEADLOCK FALSE
INVARIANTS
  PeriodHasBegun
