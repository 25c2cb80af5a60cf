# Formal model of the resume-screening service

TLA+ specifications of the service in this repository, TLC configurations that
check them on small instances, and TLAPS proofs of their main properties for
every instance. Paths are relative to `src/`.

Contents: [1 The system](#1-the-system) · [2 What is hard](#2-what-is-hard) ·
[3 Modules](#3-the-modules) · [4 Runs](#4-the-runs) · [5 Fairness](#5-fairness) ·
[6 Proofs](#6-the-proofs) · [7 Where code and text disagree](#7-where-the-code-and-its-text-disagree) ·
[8 Abstractions](#8-abstractions) · [9 Not modelled](#9-not-modelled) · [10 Plan](#10-plan)

## 1. The system

A FastAPI process (`app/main.py`, one uvicorn process) and a worker process
(`app/worker.py`) share a PostgreSQL database. Sync handlers run in FastAPI's
thread pool; `async def` ones (`enforce_quota`, `require_api_key`, the webhook) run
on the event loop and never await between their statements, so there is one of them
at a time.

| Component | Source | State | Operations |
|---|---|---|---|
| Upload API, producer | `routers/candidates.py`, `services/candidate_service.py`, `services/ingestion.py` | `candidates` row, S3 object, SQS message | upload, JSON create (list, get) |
| Queue, dead-letter queue | `infra/terraform/sqs.tf` | visible and in-flight messages, receive counts | send, receive, delete, visibility timeout, redrive, retention |
| Worker | `worker.py`, `process_pending_candidate` | the batch, the message in hand | poll, parse, index, mark, delete, each `except` branch, crash |
| Vector store | `services/embeddings.py` | vectors of candidates and jobs per tenant namespace | upsert, query |
| Parser, LLM | `services/resume_parser.py`, `llm/` | none | an answer, or one of several failures |
| Quota gate | `billing_guard.py`, `services/billing_service.py` | rows counted, subscription row | check, count |
| Billing | `routers/billing.py`, `services/billing_service.py` | `subscriptions` row, Razorpay's subscriptions | subscribe, webhook |
| Ranking | `routers/screening.py`, `services/ranking.py`, `services/matching.py` | `match_results`, a thread pool of LLM calls | rank |
| Jobs | `routers/jobs.py`, `services/job_service.py` | `jobs` row, its vector | create (list, get) |
| Tenants, tokens | `routers/auth.py`, `services/tenant_registration_service.py`, `jwt_auth.py` | `tenants` row | register, log in, Google sign-in |
| API keys | `auth.py`, `routers/admin.py` | `api_keys` row | create, revoke, use |
| Notifier | `infra/terraform/dynamodb.tf`, `lambda.tf`, `lambda/notifier/handler.py` | the DynamoDB status table and its stream, the batch in progress | read a batch, tell the recruiter, fail and be invoked again |
| Migrations | `alembic/env.py`, `alembic/versions/`, `docker-compose.yml` | `alembic_version`, the columns of `candidates` | upgrade, downgrade, fail, serve, start the worker |

How they interact:

- **Upload.** The gate counts the tenant's rows; the handler commits a `pending`
  row, puts the file to S3, sends a message and answers 202. The worker receives up
  to five messages at a time, commits `processing`, parses, upserts the vector,
  commits `processed` with the `pinecone_id`, writes `ai-processed` to DynamoDB and
  deletes the message. Clients poll `status`; the table's stream invokes the
  notifier, which tells the recruiter.
- **Rank.** A ranking asks Pinecone for the vectors nearest to the job, resolves
  them against PostgreSQL one by one, has a thread pool ask the LLM about each,
  sorts, slices and commits one `match_results` row per ranked candidate, while
  uploads and job creations go on.
- **Bill.** A subscribe creates a subscription at Razorpay, then reads and commits
  the tenant's row; webhooks find the row by the subscription id and overwrite its
  status. The gate reads that status.
- **Deploy.** Every api container migrates the database and then serves; the worker
  starts when an api is healthy.
- **Authenticate.** Every tenant route resolves a token or a key to a tenant id and
  scopes its queries by it.

What makes each correct is the list of properties in section 4.

## 2. What is hard

`PROJECT.json` lists the hazards one by one, each at its line. In short:

- **Effects in several stores without a transaction.** PostgreSQL, S3, SQS,
  Pinecone, DynamoDB and Razorpay are written one after the other; what a failure
  or a crash between two of them leaves behind is decided by their order.
- **At-least-once delivery.** SQS redelivers what was not deleted, also when the work
  was done or is being done; Razorpay repeats and reorders webhooks.
- **Check then act.** The gate's count and the insert, a sign-up's lookup and its
  insert, a subscribe's read and its write, a ranking's query and its SELECTs are
  separate, and others commit in between.
- **Bounded retries.** `maxReceiveCount` deliveries, then the dead-letter queue,
  which nothing reads. **Unbounded ones.** A failed batch of the stream is invoked
  again, and holds up those behind it.
- **State that outlives its owner.** `current_period_end` of a replaced subscription,
  a verdict under a second attempt, the version a slow migrator has read.
- **A thread pool** that starts in order, notices failures in order and cancels.
- **Boundaries.** `top_k` and `top_n` of 0 and below, windows of 30-day months,
  an email claim that is the empty string, a password longer than bcrypt takes.

## 3. The modules

Every action is named after the function or step it models; `PROJECT.json` maps each
definition to its lines. One action is one effect others can observe.

### `ResumeQueue`, `ResumeIngestion`

`ResumeQueue` is SQS as the code uses it: `queue[c]` is where the message of
candidate `c` is, `receives[c]` its receive count; a delivery carries the count as
its receipt handle, so that a stale handle can be told from the current one.
`ResumeIngestion` extends it with the handlers and the workers. `request[c]` is the
label of the HTTP handler, `pc[w]`, `job[w]` and `batch[w]` those of worker `w`.

| Actions | Code |
|---|---|
| `Upload`, `PutFile`, `SendMessage`, `Answer`, `RequestFails` | `enqueue_resume_upload`, `upload_resume_and_enqueue`, the router's error path |
| `Create`, `UpsertCreated`, `CommitCreated` | `create_candidate`, `_index_candidate` |
| `Poll`, `Start`, `Skip` | `receive_message`; `get_object`, `get_by_id` and the commit of `processing`, or a failure among them |
| `Parse`, `RejectContent`, `ParserUnavailable` | the three ways out of `parse_resume_pdf` |
| `Upsert`, `CommitIndexed`, `MarkStatus`, `DeleteMessage` | the rest of `_process_message` and the delete |
| `Abandon`, `Crash`, `Restart` | the `except` branches that leave the message; the process ends; it is started again |
| `VisibilityTimeout`, `Retention` | SQS on its own |

`faults` counts what went wrong around the workers. It is a history variable and the
bound of the runs.

### `CandidateLifecycle`, `LifecycleRefinement`

`FeedsRankings` states the other side of the pipeline: `parsedRow` and `index` change
only as the environment of `Screening` says, which is that module's `Store`, `Parse`
and `Index` under `Rankings == INSTANCE Screening`. A candidate's fields, once there,
stay, although its status goes back and forth.

`CandidateLifecycle` is what a client is promised of `status`: only an attempt to
process a candidate moves it, an attempt ends in one verdict or gives up, and
`processed` means searchable. `LifecycleRefinement` shows that `ResumeIngestion`
implements it, by the mapping `attempt[w] == IF pc[w] \in Attempting THEN
job[w].cand ELSE NoJob`, `searchable <- index`.

### `StatusNotifier`

`ResumeIngestion` with what comes after it. `Ingest` is a step of the pipeline, and
appends a record to `stream` when it is a `MarkStatus`: every update changes
`updated_at`, so a repeated one is a record too. `Invoke` takes a batch, `Notify` is
one turn of the handler's loop, `Return` the checkpoint, `InvocationFails` a failure
anywhere in the batch. `CreateMapping` is the moment from which the stream is read:
`starting_position` is LATEST.

### `QuotaGate`

One tenant: `rows` are the `created_at` of its candidates, `admitted` the uploads
past the gate. `Check` is `enforce_quota`, `Insert` the commit of the row it lets in,
`CreateJson` the path without a gate; `Activate`, `Charge` and `Cancel` are what
`SubscriptionBilling` does in detail; `Tick` is a day. PostgreSQL's `now()` is the
start of the transaction, which the gate's SELECT opens, so a row is dated by its
check. `uploads`, `billed` and `billedFrom` are history.

### `SubscriptionBilling`

`remote` is Razorpay (external), `sent` the events it delivers, each any number of
times and in any order; `row`, `request` and `hook` are the table, the subscribes in
progress and the webhook in progress. `Written` is SQLAlchemy's unit of work: an
UPDATE names the columns whose value differs from the one read and leaves the others
as they are stored. That is how rows come to mix two writers' columns, and what the
properties are about.

### `GatedBilling`

`SubscriptionBilling` with a clock and the gate in front of its row: `Admits` computes
`current_period_start` from the `current_period_end` that webhooks have really written,
of whichever subscription, and counts rows by the day (`created`). `Renew` is a charge
with its date. The check and the insert are one step here, as `QuotaGate` has what
happens between them.

### `Screening`, `RankingService`

One tenant's rankings. `Store`, `Parse`, `Index` are what ingestion does to rows and
vectors meanwhile (any order, so that eventual consistency of the index and rows that
are never committed are included); `FlushJob` to `AbandonJob` are `create_job`;
`Ask`, `Query`, `Resolve` the retrieval; `Submit`, `Start`, `Answer`, `CallFails`,
`NoticeFailure`, `Raise` are `ThreadPoolExecutor.map` inside its `with`; `Rank` is
the stable sort and the slice; `Record`, `RejectUnnamed`, `Commit`, `Respond`, `Fail`
what follows. `Candidates \ Own` are other tenants' candidates whose vectors are, by
a misconfiguration `ranking.py:74-76` speaks of, in this namespace.

`RankingService` is what a client is promised: the tenant's candidates are judged, the
answer is the best of them, as many as were wanted, and it is saved at once. Its five
steps have no query, pool, sort or session. `RankingRefinement` maps to it: everything
before the sort is `asked`, the recording of rows is `judged`, and `Judged` gives each
evaluated candidate the score of its call.

### `TenantAuth`

`request` is a sign-up or login between its steps: `Look` (the SELECT, and the password
hashed or checked), `Insert` (the commit, with the UNIQUE columns in `Clashes`), `Sign`
(the token, or 503). A `long` password is one of more than 72 bytes, `RefusesLong` whether
the installed bcrypt raises a ValueError for it (5.x) or cuts it off (4.x);
`pyproject.toml` admits both, and no handler catches the error.
`AccountRegistry` is what it amounts to: `Open` gives an identity (an email with a
password, or a Google account) its account, `SignIn` signs a token for it. The mapping
takes `accounts` from the rows and `issued` from the tokens.
`create_tenant`, `create_api_key` and `revoke_api_key` are the admin's; `ReadKey` and
`TouchKey` are `require_api_key`. `tokens` and `before` are history.

### `SchemaMigrations`

`version` is `alembic_version`, 0 to 5 for the five revisions; `rows`, `named`, `owned`
and `status` are what the columns of `candidates` hold. A call of alembic begins by
reading the version (`Begin`) and commits all its revisions at once (`Upgrade`,
`Downgrade`) or none (`Fail`), since `env.py` runs them in one transaction; it fails
when another has committed in between. `StoreParsed`, `StorePending` and `Process` are
the application at the schema there is, `Serve`, `Stop` and `StartWorker` the containers.

### Others

`MC*.tla` give the constants their values for TLC. `*Proofs.tla` hold the proofs.
Beside some definitions stands a variant with a comment such as "A redrive that is
not configured": a plausible bug, with which TLC refutes the property named for it in
`PROJECT.json`.

## 4. The runs

Eight runs pass; four end in the counterexamples of section 7.

| Run | Instance | States | What it shows |
|---|---|---|---|
| `ingestion_two_workers` | 2 candidates, 2 workers, batches of 2, 2 deliveries, 2 faults | 627 099 | Overlapping deliveries and stale receipts. `UploadIsBacked`: a message always finds its file and row. `ProcessedIsSearchable`: what clients are told is durable, and a vector without a row is explained by a failure or a step not yet taken. `DlqIsPaidFor`: a readable file is dead-lettered only after as many faults as deliveries. `LostVerdictIsPaidFor`: an upload is left without a verdict only by faults, or because pypdf cannot read it. `DisputedVerdictIsPaidFor`: two workers disagree about one only after two faults. `ImplementsLifecycle`: the pipeline implements `CandidateLifecycle`. `FeedsRankings`: and is the environment `Screening` assumes. |
| `notifier` | 2 candidates, 1 worker, one message at a time, 2 deliveries, 1 fault, 1 failed invocation | 263 970 | `NotifiedIsSearchable`: a recruiter is told only of candidates that can be found. `RepeatedNoticeIsPaidFor`: once, and once more for a failure. `NoRecordIsSkipped`. `DeletedIsSettled`: a deleted message leaves a final verdict. Under fairness, `EveryMessageEnds`, `LegibleResumeSettles`, and `AcceptedIsNotified` from end to end. |
| `quota` | 3 concurrent uploads, limits 1 and 2, window 2, periods of 1 and 3 | 3 546 883 | `FreeTierOvershoot`, `PaidPeriodBounded`: overrun by less than the number of concurrent uploads. |
| `billing` | 2 tenants, 2 plans, 3 subscriptions, 2 subscribes, 1 charge | 1 255 455 | `ActiveTenantHasPaid`, `RowIsTheTenants`, and `PlanIsBilled` for tenants without racing subscribes. |
| `gated_billing` | 1 tenant, 2 plans of one length, 2 subscriptions, 2 charges, 3 days | 1 078 495 | `PeriodIsBounded`: late, repeated, reordered and lost webhooks do not let the period of the latest charge exceed the quota. |
| `screening` | 2 candidates and a stray one, 1 job, 2 threads, `top_k`, `top_n` in -1..1 | 405 036 | `TenantIsolation`, `KnownAreEvaluated`, `ShortlistIsBest`, `FailsForAReason`, `JobIsIndexed`; `ImplementsService`: a ranking implements `RankingService`; and every ranking ends. |
| `tenant_auth` | 2 tenants, 1 email, 2 Google accounts (one with that email, one without), 2 requests, 1 key, a bcrypt that refuses long passwords | 345 980 | `IdentitiesAreUnique`, `OneCredential`, `RevocationIsFinal`; `PasswordErrorsHaveCauses`: a registration or login gets a 500 only for a refused password, a lost race or a fault; `ImplementsRegistry`: tenants and tokens implement `AccountRegistry`. |
| `migrations` | 2 candidates, 2 migrators, 2 downgrades, from every schema | 668 053 | `ProcessedIsParsed`: a placeholder never becomes a result. `RowsHaveOwners`: no candidate is without a tenant in a schema that has them. `TenantsKeepCandidates`: only a downgrade below tenancy takes one from its tenant, and not a container that has read an old version. `WorkerFindsHead`. |

**Why the bounds are enough.** They let each interesting case happen: a batch with
one message waiting behind another (`ingestion_two_workers`); as many faults as deliveries (`ingestion_two_workers`)
and one fewer (`notifier`); two workers with one message; a batch of the stream that
fails after its first record; a container that migrates what another has migrated since;
three uploads past the gate with one place left; a period shorter than the window, and
one longer; two
subscribes and a webhook that all read before any of them writes; a charge whose webhook
comes after that of the next; a query result with a tenant's own, a stray and an unnamed
candidate; three calls on two threads, which answer in any order, and of which one may wait behind a failure noticed late; two sign-ups that both look first,
for one email, with a password or with Google (sign-ups for different emails share nothing). The
safety properties are moreover proved for every size (section 6), so the instances
matter for liveness, for the refuted claims, and as a test of the models.

The other constants that only bound a run: `MaxFaults`, `MaxRetries`, `MaxDowngrades`,
`MaxTime`, `MaxRows`, `MaxCharges`, the sets `Subs`, `Tenants` and `Keys` of ids that can be given out.
Every run but `migrations` stops when its candidates, ids or time are used up, hence
`CHECK_DEADLOCK FALSE`. Symmetry is declared in runs without liveness properties.

## 5. Fairness

- **Workers** (`WF` of `Progress(w)`): `run` is a loop without a condition, and each
  call in it returns or raises. Of the LLM call this is an assumption: the Ollama client
  is built without a timeout. A failure is a fault, never fair.
- **`Restart`** is an assumption: `docker-compose.yml` declares no restart policy, so
  somebody starts a worker that died. Without it no message would ever end.
- **`VisibilityTimeout`** of a delivery nobody holds: SQS does this after 120 seconds.
  One that runs out under a busy worker is a fault, and not fair.
- **`Lambda`** (`WF`): the mapping polls the stream for as long as it exists, and the
  handler's loop goes on. A failed invocation is not fair, and there are finitely many
  (`MaxRetries`): that a batch which fails for ever is never told of is what the absence
  of a retry limit means, and not refuted here.
- **API handlers**, `Retention`, Razorpay, sign-ups and the admin have no fairness.
- **`Screening`** (`WF` of `Progress`): the handler goes on and the LLM answers or
  fails; that it answers at all is the same assumption as for workers. Failing is not
  fair.

## 6. The proofs

Everything in `*Proofs.tla` is checked by TLAPS to the last leaf, for every value of
the constants that satisfies the `ASSUME` of its module (finite sets where something is
counted, positive limits, NULL differs from every value). The assumptions bound no
size.

**`ResumeIngestionProofs`.** `IInv` adds to the types what each label knows:
`UploadInv` (how far the upload has got), `WorkerInv` (past `idle`, the worker has a
delivery of a committed row), `IndexInv` (what it has made durable: at `commit` the
vector, at `mark` the row), `ReceiveInv` (every receive but the one in progress is
paid for by a fault). None of the properties is inductive without it: that a
processed candidate is searchable, for example, rests on the label between the upsert
and the commit. `DeletedIsSettled` is proved from `OneWorker`, the hypothesis that
there is one worker process, with `SettledInv`; with two it is false, and
`LostVerdictsArePaidFor` and `DisputedVerdictsArePaidFor` say by how much: `OverlapInv`
has that a worker holding a delivery that is not the candidate's current one has cost a
fault already (its visibility timeout ran out), so that the failure is the second.
`LossCosts` has the price of each way a message ends; that of a dead-lettered one is
`ReceiveInv`'s, and 0 for a file pypdf cannot read, which needs no fault to be lost.

The module also proves the refinement: initial states map to initial states and every
step to a step or a stutter of `CandidateLifecycle`, from `IInv`. `IngestionFeedsRankings`
does the same for the environment of `Screening`; it needs that a linked candidate has
its row (`LinkedStep`), so that no second attempt begins by writing one.

**`StatusNotifierProofs`.** `NotifierImplementsIngestion` carries everything proved of the
pipeline over to the composition. `StreamInv` ties a record to the delivery that wrote it:
no two records have one, so that counting records is counting deliveries, and each of
these but one has cost a fault. `ToldInv` counts the notices of a record, those of the
batch in progress before and after the cursor apart; `ReadInv` has that what the cursor
has passed was told of, from which `NoRecordsAreSkipped` follows.

**`QuotaGateProofs`.** The invariant is `uploads + Cardinality(admitted) <= FreeLimit
- 1 + Peers`: what is past the gate counts as if it were inserted. A check happens
only below the limit, and raises the sum by one. For the paid period the same sum is
taken over the rows since the charge, and `EarlierDate` says that every one of them
is in the window: `billedFrom` is the charge, or the first day the window covers if that
is later, so nothing is assumed of windows and periods.

**`SubscriptionBillingProofs`.** `Inv`: whatever a request, the webhook or a row
names belongs to its tenant. `RowChanges` reduces every step to three cases (no
change, a subscribe's write, a webhook's write), so that each property is proved for
the writes and not for the actions. `PlanIsBilled` needs `FreshInv` (no two requests
have one subscription) and `ReadInv` (a request of an unraced tenant has read the
plan that is still stored).

**`GatedBillingProofs`.** `GatedImplementsBilling` carries `SubscriptionBillingProofs` over:
the gate and the clock are a stutter of the billing. `LagInv` has what a late webhook can
have left: `DayInv`, no charge and no row is dated ahead; `ChargeInv`, an announced end is of a charge
that took place; `PlanInv`, a row's plan is that of a subscription of its tenant. From these, `WindowReachesBack`: if windows cover periods, the
window of an active tenant begins no later than its latest charge, whichever charge and
plan the row holds. `PeriodIsBounded` is not inductive: when a charge begins a period,
the rows of that day are in it already. `BoundInv` therefore also bounds the rows of today
(`Within`, for `Today` as for `Span(c)`): both are in the window, so the gate has counted
them, and a new day or a new charge starts from one of the two. `WindowsHaveBegun` says
what the counterexample `plan_change` needs.

**`ScreeningProofs`.** `Stages` says which sequences exist at which label.
`PlaceIsAPermutation` is the heart of `ShortlistIsBest`: counting those ahead of a
candidate is injective from 1..n to 1..n, hence onto, so the sort the model defines
by places is total and CHOOSE always finds a candidate. `QueryFindsAll` is the same
argument for a query that asks for as many as there are, and `KnownInv` follows those
candidates from the matches to the evaluations. `ScreeningImplementsService` puts these
together: `ResolvedInv` (what is resolved is a part of the matches, in which nobody occurs
twice, and a name that was read is still there) makes the judged candidates a bijection
with the calls (`JudgedOnce`), `ListInv` has the length and the names, `BestInv` the order
and `SavedInv` the rows; `CommitSaves` gives the list that the abstract `Save` asks for.

**`TenantAuthProofs`.** `Inv` has, per request, that the tenants it saw when it looked
are still there and did not match, and that at `sign` it holds a tenant with its
identity; `TenantsGrow` reduces every step to "no row changes" or "one new row that
clashes with none", from which uniqueness and the stability of tokens follow. `ErrorOK` has
why a request ended in a 500: `PasswordErrors` reads it for passwords, and `GoogleErrors`
says exactly when the counterexample `google_email_taken` occurs.
`AuthImplementsRegistry` rests on the same three cases: an insert opens an account
(`GrowthOpens`, by the UNIQUE columns), a token is a sign-in (`SigningSignsIn`, since at
`sign` the tenant has the request's identity), and nothing else moves the registry.

**`SchemaMigrationsProofs`.** One inductive invariant has the types and that `status`
exists just with its column; `ProcessedAreParsed` needs that a row without the column is
a parsed one, which a downgrade keeps because `full_name` becomes NOT NULL again.
`WorkersFindHead` needs that without a downgrade nothing that began at the head leaves it,
`TenantsCandidatesAreKept` that nobody owns a candidate in a schema before tenancy
(`OwnedInv`), so that an upgrade from there has no tenant's candidate to truncate.

**Only model-checked:** the liveness properties (`LegibleResumeSettles`,
`EveryMessageEnds`, `AcceptedIsNotified`, `RankingEnds`), since they rest on fairness.
Every safety property that a passing run checks is proved.

## 7. Where the code and its text disagree

Each is a run that ends in a counterexample.

| Run | What happens | What is said |
|---|---|---|
| `failed_but_good_file` | `except ValueError` also catches an LLM answer that does not fit the schema: one such answer and a good file is `failed` for ever. | `candidate_service.py:69`: "Permanent failure - the file itself is bad." |
| `no_verdict` | A dead-lettered upload stays `processing`: nothing reads the dead-letter queue. | `README.md:92`: the client "watches `status` to know when it's done" |
| `plan_change` | A plan change keeps the old subscription's `current_period_end`; a shorter plan's window, taken off it, has not begun, and the quota of an active tenant limits nothing until a charge of the new subscription is processed. | `README.md:253`: "counted over the current billing period" |
| `google_email_taken` | A Google account whose email has a tenant with a password is not found by its `google_sub`, and its insert breaks the UNIQUE email: a 500, for the sign-up and for the login. | `README.md:212`: "sign-up *or* login, whichever applies" |

The proofs say how far three of them go. `no_verdict`: an upload whose message has ended
has no verdict only if the file was unreadable, or after the faults `LossCosts` counts
(`LostVerdictsArePaidFor`). `plan_change`: only if a plan of the tenant has periods longer
than the window of one of its plans (`WindowsHaveBegun`). `google_email_taken`: only after a
lost race, or when a tenant without the account has its email (`GoogleErrors`).

One more needs no run of its own. `README.md:386` says of PostgreSQL and Pinecone that "the
two never drift out of sync", but a create whose commit fails leaves its vector
(`candidate_service.py:115`). `ProcessedIsSearchable` names these vectors exactly: one
without a row is that of a create or an attempt between its upsert and its commit, or of
one that failed there.

Met while modelling, described by the models, and not claimed otherwise by anything
precise enough to refute: a redelivery takes a verdict back to `processing` for the
time of an attempt (`candidate_service.py:63`); a PDF pypdf cannot read is retried
until it is dead-lettered (`:74`); with two workers, one may delete the message the
other is about to fail on; two racing subscribes can leave one's plan with the
other's subscription (`billing_service.py:52`), a plan change leaves the subscription it
replaces active at Razorpay, whose events then find no row (`:92`), and an event that
comes after the cancellation it precedes makes the tenant active again (`:95`). The
window is 30 days a month, so that of a longer period the first days' uploads are not
counted, and in a shorter one it reaches into the period before (`:133`): this is why
`PaidPeriodBounded` counts from the day the window begins. With bcrypt 5, a password of
more than 72 bytes is a 500 and not a validation error
(`tenant_registration_service.py:26`). A downgrade below the status column is refused by
PostgreSQL while there are placeholders, and one below tenancy is followed by a truncation
on the next upgrade, also of candidates that had tenants before.

## 8. Abstractions

- **Data** is abstracted to what properties tell apart: a file is `good`, `blank` or
  `corrupt` by what the parser does with it; a token by whom it belongs to, a password
  also by whether bcrypt takes it; a date by its day; a similarity by the order of the matches.
- **Calls.** A call that took effect but whose reply was lost is the step, then
  `Abandon`. `get_object` is one step with the commit of `processing` after it;
  nothing else depends on the moment between them.
- **Exceptions.** pydantic's `ValidationError` and LangChain's
  `OutputParserException` are ValueErrors; pypdf's `PdfReadError` is not.
- **SQS.** Duplicated sends, and a delivery after the delete, are left out. An early
  redelivery is covered by the visibility timeout running out.
- **Razorpay.** `halted` is treated like `cancelled`, as the code does. At most one
  webhook is in progress, since it is an `async def` on one process.
- **Stream.** A record's expiry after a day is left out, and so are shards: one batch is
  in progress, as with one shard.
- **Migrations.** Columns no property tells apart are left out, also those that a
  downgrade of the last revision loses (credentials, `duration_months`).
- **Quota.** One plan with a quota; for an unlimited one the gate does not count. The
  admin's usage view repeats the gate's branching and changes nothing; it is left out.
- **Ranking.** One at a time: two of them share no row. `None` and 0 are one value of
  `top_k` and `top_n`, as they are for `or`. `match_results` are those of the current
  ranking.
- **Auth.** A token's expiry and `require_tenant`'s choice between token and key
  change no state.

## 9. Not modelled

The creation of the Pinecone index by the first calls of `embeddings.py`; settings, metrics, health and exception classes; `create_plan`, an insert
nothing races with, the read-only lists and the usage view; basic auth of the admin; Docker, CI and
IAM, which have no behaviour of their own. `PROJECT.json` gives the reason for each.

## 10. Plan

The order was: the ingestion pipeline with its queue and life cycle, as the core; the
quota gate; billing; ranking; tenants and keys; then the notifier at the end of the
pipeline, the pipeline as the environment of rankings, the gate over the real
subscription row, the registry behind sign-ups, the migrations, and the service behind
rankings. All of these are modelled, checked and proved about. What is left, in order:

1. How far a period's uploads exceed the quota when the window does not cover it
   (`PeriodIsBounded` without `WindowsCoverPeriods`): the quota and the ungated days.
2. The first calls of the Pinecone index: threads and processes that find none and all
   create it.
