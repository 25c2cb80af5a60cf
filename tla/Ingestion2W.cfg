\* Two workers that can be given the same message one after the other. The
\* model stops when both candidates are used up.
CONSTANTS
  c1 = c1
  c2 = c2
  w1 = w1
  w2 = w2
  NoJob = NoJob
  Candidates <- MCCandidates
  Workers <- MCWorkers
  MaxReceiveCount = 2
  BatchSize = 2
  MaxFaults = 2
SPECIFICATION Spec
SYMMETRY Symmetry
CHECK_DEADLOCK FALSE
INVARIANTS
  TypeOK
  UploadIsBacked
  ProcessedIsSearchable
  DlqIsPaidFor
  LostVerdictIsPaidFor
  DisputedVerdictIsPaidFor
PROPERTY
  ImplementsLifecycle
  FeedsRankings
