\* Three uploads in progress; one period is shorter than the window, one longer.
CONSTANTS
  r1 = r1
  r2 = r2
  r3 = r3
  Requests <- MCThreeRequests
  FreeLimit = 1
  Quota = 2
  Window = 2
  Periods = {1, 3}
  MaxTime = 3
  MaxRows = 5
SPECIFICATION Spec
SYMMETRY Symmetry
CHECK_DEADLOCK FALSE
INVARIANTS
  FreeTierOvershoot
  PaidPeriodBounded
