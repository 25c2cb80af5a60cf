-------------------------- MODULE SchemaMigrations --------------------------
(***************************************************************************)
(* The Alembic migrations (alembic/env.py, alembic/versions/) and what     *)
(* they do to the candidates stored meanwhile.  An api container runs      *)
(* `alembic upgrade head` and then serves; the worker starts when an api   *)
(* answers its health check (docker-compose.yml); an operator may migrate  *)
(* down, and the releases of the schemas before go on storing candidates.  *)
(*                                                                         *)
(* env.py runs all revisions of a call in one transaction and PostgreSQL's *)
(* DDL is transactional, so a call commits as a whole, or not at all.      *)
(* Alembic reads the version at its beginning.  When another call commits  *)
(* in between, the revisions of this one create what exists or drop what   *)
(* does not, and it fails.                                                 *)
(***************************************************************************)
EXTENDS Naturals

CONSTANTS Candidates,     \* the candidates that may be stored
          Migrators,      \* processes that run alembic
          MaxDowngrades   \* bound on downgrades

ASSUME MigrationsAssumption == MaxDowngrades \in Nat

\* The schema after each revision's upgrade(), in the order of their down_revision; 0
\* is the empty database.  No upgrade() can be repeated: each creates a table or a column.
Initial  == 1   \* cb36370cdbb9: candidates, jobs, match_results
Tenancy  == 2   \* 11d5ffa87cbb: tenants, api_keys, candidates.tenant_id
Statuses == 3   \* 6bf8f532381d: candidates.status, full_name nullable
Billing  == 4   \* e0566164803f: plans, subscriptions
Head     == 5   \* f1a2b3c4d5e6: tenants.email and others, plans.duration_months

VARIABLES
  version,    \* alembic_version
  rows,       \* candidates that are stored
  named,      \* those with a full_name, that is, parsed ones
  owned,      \* those with a tenant_id
  status,     \* candidates.status; "none" without a row or without the column
  phase,      \* phase[m]: what migrator m is doing
  seen,       \* seen[m]: the version it has read
  goal,       \* goal[m]: the version it migrates to
  worker,     \* whether app/worker.py has been started
  downgrades

data     == <<rows, named, owned, status>>
migrator == <<phase, seen, goal>>
vars     == <<version, data, migrator, worker, downgrades>>

Phases == {"idle", "migrating", "migrated", "failed", "serving"}

TypeOK ==
  /\ version \in 0..Head
  /\ rows \subseteq Candidates /\ named \subseteq rows /\ owned \subseteq rows
  /\ status \in [Candidates -> {"none", "pending", "processing", "processed", "failed"}]
  /\ \A c \in Candidates : status[c] # "none" <=> c \in rows /\ version >= Statuses
  /\ phase \in [Migrators -> Phases]
  /\ seen \in [Migrators -> 0..Head] /\ goal \in [Migrators -> 0..Head]
  /\ worker \in BOOLEAN
  /\ downgrades \in 0..MaxDowngrades

\* A database of this release or of one before, without candidates.
Init ==
  /\ version \in 0..Head
  /\ rows = {} /\ named = {} /\ owned = {}
  /\ status = [c \in Candidates |-> "none"]
  /\ phase = [m \in Migrators |-> "idle"]
  /\ seen = [m \in Migrators |-> 0] /\ goal = [m \in Migrators |-> 0]
  /\ worker = FALSE
  /\ downgrades = 0

(***************************************************************************)
(* The application.                                                        *)
(***************************************************************************)

\* A release before the status column stores a candidate it has parsed; full_name is
\* NOT NULL.
StoreParsed(c) ==
  /\ version \in {Initial, Tenancy} /\ c \notin rows
  /\ rows' = rows \cup {c} /\ named' = named \cup {c}
  /\ owned' = IF version >= Tenancy THEN owned \cup {c} ELSE owned
  /\ UNCHANGED <<version, status, migrator, worker, downgrades>>

\* enqueue_resume_upload stores a placeholder.
StorePending(c) ==
  /\ version >= Statuses /\ c \notin rows
  /\ rows' = rows \cup {c} /\ owned' = owned \cup {c}
  /\ status' = [status EXCEPT ![c] = "pending"]
  /\ UNCHANGED <<version, named, migrator, worker, downgrades>>

\* process_pending_candidate, once more on redelivery.
Process(c) ==
  /\ version >= Statuses /\ c \in rows
  /\ \/ status' = [status EXCEPT ![c] = "processing"] /\ UNCHANGED named
     \/ /\ status[c] = "processing"
        /\ \/ status' = [status EXCEPT ![c] = "failed"] /\ UNCHANGED named
           \/ status' = [status EXCEPT ![c] = "processed"] /\ named' = named \cup {c}
  /\ UNCHANGED <<version, rows, owned, migrator, worker, downgrades>>

(***************************************************************************)
(* A call of alembic.                                                      *)
(***************************************************************************)
Begin(m, g) ==
  /\ phase[m] = "idle"
  /\ g = Head \/ g < version
  /\ phase' = [phase EXCEPT ![m] = "migrating"]
  /\ seen' = [seen EXCEPT ![m] = version]
  /\ goal' = [goal EXCEPT ![m] = g]
  /\ UNCHANGED <<version, data, worker, downgrades>>

Committed(m) ==
  /\ version' = goal[m]
  /\ phase' = [phase EXCEPT ![m] = "migrated"]
  /\ UNCHANGED <<seen, goal, worker>>

\* The server default of candidates.status.
Defaulted == [c \in Candidates |-> IF c \in rows THEN "processed" ELSE "none"]

\* A status column that has no server default.
UpgradedNoDefault(from) ==
  IF from < Tenancy
  THEN rows' = {} /\ named' = {} /\ owned' = {} /\ status' = [c \in Candidates |-> "none"]
  ELSE UNCHANGED data

\* From below the tenancy revision every candidate is truncated, from below the
\* status column what is there becomes `processed`, the server default.
Upgraded(from) ==
  IF from < Tenancy
  THEN rows' = {} /\ named' = {} /\ owned' = {} /\ status' = [c \in Candidates |-> "none"]
  ELSE /\ status' = IF from < Statuses THEN Defaulted ELSE status
       /\ UNCHANGED <<rows, named, owned>>

\* Revisions that create what does not exist yet.
UpgradeIfMissing(m) ==
  /\ phase[m] = "migrating" /\ goal[m] = Head
  /\ Upgraded(seen[m])
  /\ Committed(m)
  /\ UNCHANGED downgrades

\* A tenancy revision that gives the rows of before to nobody.
UpgradeInPlace(m) ==
  /\ phase[m] = "migrating" /\ goal[m] = Head
  /\ seen[m] = version
  /\ status' = IF version < Statuses THEN Defaulted ELSE status
  /\ Committed(m)
  /\ UNCHANGED <<rows, named, owned, downgrades>>

Upgrade(m) ==
  /\ phase[m] = "migrating" /\ goal[m] = Head
  /\ seen[m] = version /\ version < Head
  /\ Upgraded(version)
  /\ Committed(m)
  /\ UNCHANGED downgrades

\* The version read was the head: there is nothing to do, whatever it is by now.
UpToDate(m) ==
  /\ phase[m] = "migrating" /\ goal[m] = Head /\ seen[m] = Head
  /\ phase' = [phase EXCEPT ![m] = "migrated"]
  /\ UNCHANGED <<version, data, seen, goal, worker, downgrades>>

\* The candidates table is dropped with the initial revision, tenant_id with tenancy.
RowsKept(to)   == IF to < Initial THEN {} ELSE rows
OwnersKept(to) == IF to < Tenancy THEN {} ELSE owned

\* Each revision takes back what it added; the placeholders of uploads, which have no
\* full_name, keep the status column from being dropped.
Downgraded(to) ==
  /\ rows' = RowsKept(to) /\ named' = named \cap RowsKept(to)
  /\ owned' = OwnersKept(to)
  /\ status' = IF to < Statuses THEN [c \in Candidates |-> "none"] ELSE status

NotNullHolds(to) == to < Statuses /\ version >= Statuses => rows = named

\* A downgrade that leaves full_name nullable.
DowngradeNullable(m) ==
  /\ phase[m] = "migrating" /\ goal[m] < seen[m]
  /\ seen[m] = version
  /\ downgrades < MaxDowngrades /\ downgrades' = downgrades + 1
  /\ Downgraded(goal[m])
  /\ Committed(m)

Downgrade(m) ==
  /\ phase[m] = "migrating" /\ goal[m] < seen[m]
  /\ seen[m] = version /\ NotNullHolds(goal[m])
  /\ downgrades < MaxDowngrades /\ downgrades' = downgrades + 1
  /\ Downgraded(goal[m])
  /\ Committed(m)

\* A statement fails, the connection is lost or the process ends: rolled back.
Fail(m) ==
  /\ phase[m] = "migrating"
  /\ phase' = [phase EXCEPT ![m] = "failed"]
  /\ UNCHANGED <<version, data, seen, goal, worker, downgrades>>

(***************************************************************************)
(* The containers.                                                         *)
(***************************************************************************)

\* `alembic upgrade head; uvicorn ...`
ServeAnyway(m) ==
  /\ phase[m] \in {"migrated", "failed"} /\ goal[m] = Head
  /\ phase' = [phase EXCEPT ![m] = "serving"]
  /\ UNCHANGED <<version, data, seen, goal, worker, downgrades>>

\* `alembic upgrade head && uvicorn ...`
Serve(m) ==
  /\ phase[m] = "migrated" /\ goal[m] = Head
  /\ phase' = [phase EXCEPT ![m] = "serving"]
  /\ UNCHANGED <<version, data, seen, goal, worker, downgrades>>

Stop(m) ==
  /\ phase[m] \in {"migrated", "failed", "serving"}
  /\ phase' = [phase EXCEPT ![m] = "idle"]
  /\ UNCHANGED <<version, data, seen, goal, worker, downgrades>>

\* depends_on api, condition service_healthy.
StartWorker ==
  /\ ~worker /\ \E m \in Migrators : phase[m] = "serving"
  /\ worker' = TRUE
  /\ UNCHANGED <<version, data, migrator, downgrades>>

Next ==
  \/ \E c \in Candidates : StoreParsed(c) \/ StorePending(c) \/ Process(c)
  \/ \E m \in Migrators :
       \/ \E g \in 0..Head : Begin(m, g)
       \/ Upgrade(m) \/ UpToDate(m) \/ Downgrade(m) \/ Fail(m) \/ Serve(m) \/ Stop(m)
  \/ StartWorker

Spec == Init /\ [][Next]_vars

(***************************************************************************)
(* Properties.                                                             *)
(***************************************************************************)

\* Whatever is migrated down and up again while uploads are under way, a candidate
\* shown as `processed`, the server default of the column, has been parsed: a
\* placeholder never becomes a result.
ProcessedIsParsed == \A c \in Candidates : status[c] = "processed" => c \in named

\* With tenants in the schema every candidate has one, also those stored before, or
\* after a downgrade has dropped the column: none can be shown to the wrong tenant.
RowsHaveOwners == version >= Tenancy => rows = owned

\* Under a schema with tenants a tenant's candidate and its parsed result stay, also
\* through a downgrade that leaves the tenants, and when two containers start at once and
\* the slower one has read a version from before the tenancy revision.  Only a downgrade
\* below that revision takes candidates from their tenants; the next upgrade truncates
\* them, as it does the "pre-launch data" 11d5ffa87cbb's docstring means.
TenantsKeepCandidates ==
  [][version' >= Tenancy => owned \subseteq owned' /\ owned \cap named \subseteq named']_vars

\* docker-compose.yml:67-68: when the worker starts, the migrations "are guaranteed to
\* have already applied".  Stated of deployments that migrate up only.
WorkerFindsHead == worker /\ downgrades = 0 => version = Head
=============================================================================
