\* Up to three calls and two threads: answers come in any order, a failure may be noticed
\* late, and a call still waiting by then is cancelled.
CONSTANTS
  c1 = c1
  c2 = c2
  stray = stray
  j1 = j1
  Candidates <- MCAndStray
  Own <- MCOwn
  Jobs <- MCJobs
  Scores <- MCScores
  Counts <- MCCounts
  vector_top_k = 3
  ranking_top_n = 2
  ranking_concurrency = 2
SPECIFICATION FairSpec
CHECK_DEADLOCK FALSE
INVARIANTS
  JobIsIndexed
  TenantIsolation
  KnownAreEvaluated
  ShortlistIsBest
  FailsForAReason
PROPERTY
  RankingEnds
  ImplementsService
