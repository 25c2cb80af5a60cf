----------------------- MODULE SchemaMigrationsProofs -----------------------
(***************************************************************************)
(* Proofs about SchemaMigrations, for any number of candidates, concurrent *)
(* migrators and downgrades.                                               *)
(***************************************************************************)
EXTENDS SchemaMigrations, TLAPS

\* Without a downgrade, who has read the head, has migrated or serves does so at the
\* head.
ServingInv ==
  /\ \A m \in Migrators :
       downgrades = 0 /\ (seen[m] = Head \/ phase[m] \in {"migrated", "serving"})
         => version = Head
  /\ WorkerFindsHead

\* Before the status column there are no placeholders.
ParsedInv == version < Statuses => rows = named

\* Before the tenancy revision nobody owns a candidate.
OwnedInv == version < Tenancy => owned = {}

Inv == /\ TypeOK /\ ProcessedIsParsed /\ ParsedInv
       /\ RowsHaveOwners /\ OwnedInv /\ ServingInv

\* A release stores, processes and loses nothing of what the schema promises.
LEMMA ApplicationStep ==
  ASSUME Inv, NEW c \in Candidates, StoreParsed(c) \/ StorePending(c) \/ Process(c)
  PROVE  Inv'
<1> USE DEF Inv, TypeOK, ProcessedIsParsed, ParsedInv, RowsHaveOwners, OwnedInv, ServingInv,
            WorkerFindsHead, migrator, Initial, Tenancy, Statuses, Head
<1>1. CASE StoreParsed(c)
  BY <1>1 DEF StoreParsed
<1>2. CASE StorePending(c)
  BY <1>2 DEF StorePending
<1>3. CASE Process(c)
  BY <1>3 DEF Process
<1>4. QED
  BY <1>1, <1>2, <1>3

\* An upgrade gives a status only to rows that are parsed, and keeps only rows that
\* have a tenant.
LEMMA UpgradeStep ==
  ASSUME Inv, NEW m \in Migrators, Upgrade(m)
  PROVE  Inv'
<1> USE DEF Inv, Upgrade, Committed, Upgraded, Defaulted, Tenancy, Statuses, Head
<1>1. TypeOK'
  BY DEF TypeOK, Phases
<1>2. ProcessedIsParsed'
  \* The rows an upgrade makes `processed` were stored without a status column.
  <2>1. CASE version < Tenancy
    BY <2>1 DEF TypeOK, ProcessedIsParsed
  <2>2. CASE version >= Statuses
    BY <2>2 DEF TypeOK, ProcessedIsParsed
  <2>3. CASE version = Tenancy
    BY <2>3 DEF TypeOK, ProcessedIsParsed, ParsedInv
  <2>4. QED
    BY <2>1, <2>2, <2>3 DEF TypeOK
<1>3. ParsedInv'
  BY DEF TypeOK, ParsedInv
<1>4. RowsHaveOwners'
  <2>1. CASE version < Tenancy
    BY <2>1 DEF RowsHaveOwners
  <2>2. CASE version >= Tenancy
    BY <2>2 DEF TypeOK, RowsHaveOwners
  <2>3. QED
    BY <2>1, <2>2 DEF TypeOK
<1>5. OwnedInv'
  BY DEF TypeOK, OwnedInv
<1>6. ServingInv'
  BY DEF TypeOK, ServingInv, WorkerFindsHead
<1>7. QED
  BY <1>1, <1>2, <1>3, <1>4, <1>5, <1>6

\* A downgrade that drops the status column finds no placeholder.
LEMMA DowngradeStep ==
  ASSUME Inv, NEW m \in Migrators, Downgrade(m)
  PROVE  Inv'
<1> USE MigrationsAssumption
        DEF Inv, Downgrade, Committed, Downgraded, RowsKept, OwnersKept, NotNullHolds,
            Initial, Tenancy, Statuses, Head
<1>1. TypeOK'
  BY DEF TypeOK, Phases
<1>2. ProcessedIsParsed'
  BY DEF TypeOK, ProcessedIsParsed
<1>3. ParsedInv'
  BY DEF TypeOK, ParsedInv
<1>4. RowsHaveOwners'
  BY DEF TypeOK, RowsHaveOwners
<1>5. OwnedInv'
  BY DEF TypeOK, OwnedInv
<1>6. ServingInv'
  BY DEF TypeOK, ServingInv, WorkerFindsHead
<1>7. QED
  BY <1>1, <1>2, <1>3, <1>4, <1>5, <1>6

\* Every step preserves the invariant.
LEMMA InvStep ==
  ASSUME Inv, [Next]_vars
  PROVE  Inv'
<1> USE DEF Inv, TypeOK, ProcessedIsParsed, ParsedInv, RowsHaveOwners, OwnedInv, ServingInv,
            WorkerFindsHead, data, migrator, Phases, Tenancy, Statuses, Head
<1>1. ASSUME NEW m \in Migrators, NEW g \in 0..Head, Begin(m, g) PROVE Inv'
  BY <1>1 DEF Begin
<1>2. ASSUME NEW m \in Migrators, UpToDate(m) \/ Fail(m) \/ Serve(m) \/ Stop(m)
      PROVE  Inv'
  BY <1>2 DEF UpToDate, Fail, Serve, Stop
<1>3. CASE StartWorker
  BY <1>3 DEF StartWorker
<1>4. CASE UNCHANGED vars
  BY <1>4 DEF vars
<1>5. QED
  BY <1>1, <1>2, <1>3, <1>4, ApplicationStep, UpgradeStep, DowngradeStep DEF Next

\* The invariant holds of every behaviour.
LEMMA Invariance == Spec => []Inv
<1>1. Init => Inv
  <2> SUFFICES ASSUME Init PROVE Inv
    OBVIOUS
  <2>1. TypeOK
    <3>1. worker \in BOOLEAN
      BY Zenon DEF Init
    <3>2. QED
      BY <3>1, MigrationsAssumption DEF Init, TypeOK, Phases, Head
  <2>2. ProcessedIsParsed /\ ParsedInv /\ RowsHaveOwners /\ OwnedInv
    BY DEF Init, ProcessedIsParsed, ParsedInv, RowsHaveOwners, OwnedInv
  <2>3. ServingInv
    BY DEF Init, ServingInv, WorkerFindsHead
  <2>4. QED
    BY <2>1, <2>2, <2>3 DEF Inv
<1>2. Inv /\ [Next]_vars => Inv'
  BY InvStep
<1>3. QED
  BY <1>1, <1>2, PTL DEF Spec

\* The type invariant: in particular, rows have a status just when the schema does.
THEOREM TypeCorrectness == Spec => []TypeOK
BY Invariance, PTL DEF Inv

\* No sequence of migrations shows a placeholder as processed.
THEOREM ProcessedAreParsed == Spec => []ProcessedIsParsed
BY Invariance, PTL DEF Inv

\* No sequence of migrations leaves a candidate without its tenant.
THEOREM TenantsOwnRows == Spec => []RowsHaveOwners
BY Invariance, PTL DEF Inv

\* A worker started after the api has become healthy finds the head schema.
THEOREM WorkersFindHead == Spec => []WorkerFindsHead
<1>1. Inv => WorkerFindsHead
  BY DEF Inv, ServingInv
<1>2. QED
  BY <1>1, Invariance, PTL

\* No step of any process, however stale the version a migrator has read, takes a
\* candidate or its result from a tenant, but for a downgrade below the tenancy revision.
THEOREM TenantsCandidatesAreKept == Spec => TenantsKeepCandidates
<1>1. ASSUME Inv, [Next]_vars, version' >= Tenancy
      PROVE  owned \subseteq owned' /\ owned \cap named \subseteq named'
  <2> USE DEF data, migrator
  <2>1. ASSUME NEW m \in Migrators, Upgrade(m)
        PROVE  owned \subseteq owned' /\ owned \cap named \subseteq named'
    \* From below tenancy there is nothing to lose.
    <3>1. CASE version < Tenancy
      BY <1>1, <3>1 DEF Inv, OwnedInv
    <3>2. CASE version >= Tenancy
      BY <1>1, <2>1, <3>2 DEF Upgrade, Upgraded, Inv, TypeOK, Tenancy
    <3>3. QED
      BY <1>1, <3>1, <3>2 DEF Inv, TypeOK, Tenancy, Head
  <2>2. ASSUME NEW m \in Migrators, Downgrade(m)
        PROVE  owned \subseteq owned' /\ owned \cap named \subseteq named'
    BY <1>1, <2>2 DEF Downgrade, Downgraded, Committed, RowsKept, OwnersKept, Inv, TypeOK,
                      Initial, Tenancy, Head
  <2>3. ASSUME NEW c \in Candidates, StoreParsed(c) \/ StorePending(c) \/ Process(c)
        PROVE  owned \subseteq owned' /\ owned \cap named \subseteq named'
    BY <2>3 DEF StoreParsed, StorePending, Process
  <2>4. ASSUME NEW m \in Migrators,
               (\E g \in 0..Head : Begin(m, g)) \/ UpToDate(m) \/ Fail(m) \/ Serve(m) \/ Stop(m)
        PROVE  UNCHANGED data
    BY <2>4 DEF Begin, UpToDate, Fail, Serve, Stop
  <2>5. ASSUME StartWorker \/ UNCHANGED vars PROVE UNCHANGED data
    BY <2>5 DEF StartWorker, vars
  <2>6. QED
    BY <1>1, <2>1, <2>2, <2>3, <2>4, <2>5 DEF Next
<1>2. QED
  BY <1>1, Invariance, PTL DEF Spec, TenantsKeepCandidates
=============================================================================
