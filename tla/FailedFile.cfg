\* One upload, one answer of the LLM that does not fit the schema.
CONSTANTS
  c1 = c1
  c2 = c2
  w1 = w1
  w2 = w2
  NoJob = NoJob
  Candidates <- MCOneCandidate
  Workers <- MCOneWorker
  MaxReceiveCount = 2
  BatchSize = 1
  MaxFaults = 1
SPECIFICATION Spec
CHECK_DEADLOCK FALSE
INVARIANT
  FailedMeansBadFile
