\* Two candidates and two concurrent migrators, which migrate down twice at most.
CONSTANTS
  c1 = c1
  c2 = c2
  m1 = m1
  m2 = m2
  Candidates <- MCCandidates
  Migrators <- MCMigrators
  MaxDowngrades = 2
SPECIFICATION Spec
SYMMETRY Symmetry
INVARIANTS
  TypeOK
  ProcessedIsParsed
  RowsHaveOwners
  WorkerFindsHead
PROPERTY
  TenantsKeepCandidates
