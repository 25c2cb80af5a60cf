\* Two plans of one length: two subscriptions, two charges, three days.
CONSTANTS
  t1 = t1
  p1 = p1
  p2 = p2
  s1 = s1
  s2 = s2
  r1 = r1
  None = None
  Tenants <- MCTenants
  Plans <- MCPlans
  Subs <- MCSubs
  Requests <- MCRequests
  MaxCharges = 2
  Quota <- MCQuota
  Window <- MCMonths
  Period <- MCMonths
  FreeLimit = 1
  MaxTime = 2
  MaxRows = 6
SPECIFICATION GatedSpec
SYMMETRY Symmetry
CHECK_DEADLOCK FALSE
INVARIANTS
  PeriodIsBounded
