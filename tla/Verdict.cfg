\* One upload, nothing goes wrong around the worker, fair scheduling.
CONSTANTS
  c1 = c1
  c2 = c2
  w1 = w1
  w2 = w2
  NoJob = NoJob
  Candidates <- MCOneCandidate
  Workers <- MCOneWorker
  MaxReceiveCount = 2
  BatchSize = 1
  MaxFaults = 0
SPECIFICATION FairSpec
CHECK_DEADLOCK FALSE
PROPERTY
  AcceptedReachesVerdict
