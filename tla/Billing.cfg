\* Two tenants, two subscribes in progress, every order and repetition of events.
CONSTANTS
  t1 = t1
  t2 = t2
  p1 = p1
  p2 = p2
  s1 = s1
  s2 = s2
  s3 = s3
  r1 = r1
  r2 = r2
  None = None
  Tenants <- MCTenants
  Plans <- MCPlans
  Subs <- MCSubs
  Requests <- MCRequests
  MaxCharges = 1
SPECIFICATION Spec
SYMMETRY Symmetry
CHECK_DEADLOCK FALSE
INVARIANTS
  ActiveTenantHasPaid
  RowIsTheTenants
  PlanIsBilled
