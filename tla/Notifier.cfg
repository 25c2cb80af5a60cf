\* One worker that takes a message at a time, fewer faults than deliveries, and one failed
\* invocation. The model stops when both candidates are used up.
CONSTANTS
  c1 = c1
  c2 = c2
  w1 = w1
  NoJob = NoJob
  Candidates <- MCCandidates
  Workers <- MCWorkers
  MaxReceiveCount = 2
  BatchSize = 1
  MaxFaults = 1
  BatchRecords = 2
  MaxRetries = 1
SPECIFICATION NotifierFairSpec
CHECK_DEADLOCK FALSE
INVARIANTS
  NotifiedIsSearchable
  RepeatedNoticeIsPaidFor
  DeletedIsSettled
PROPERTIES
  NoRecordIsSkipped
  LegibleResumeSettles
  EveryMessageEnds
  AcceptedIsNotified
