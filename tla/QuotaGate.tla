----------------------------- MODULE QuotaGate -----------------------------
(***************************************************************************)
(* The quota gate of POST /candidates/upload for one tenant:               *)
(* billing_guard.enforce_quota counts the tenant's candidate rows, and the *)
(* handler inserts its row later, in another commit.  In between, other    *)
(* uploads of the tenant pass the gate, JSON creates insert rows without   *)
(* passing it, webhooks change the subscription and time goes on.          *)
(*                                                                         *)
(* PostgreSQL's now() is the start of the transaction, which the gate's    *)
(* own SELECT opens: a row is created_at the moment its upload was         *)
(* checked, however late it is inserted.  Time is counted in days.         *)
(***************************************************************************)
EXTENDS Integers, Sequences, FiniteSets

CONSTANTS Requests,     \* upload requests that can be in progress at once
          FreeLimit,    \* settings.free_tier_resume_limit
          Quota,        \* Plan.monthly_resume_quota
          Window,       \* 30 * Plan.duration_months
          Periods,      \* days from a charge to the end Razorpay announces for it: a
                        \* calendar month has 28 to 31
          MaxTime,      \* bound on the clock
          MaxRows       \* bound on the rows of the tenant

ASSUME QuotaAssumption ==
  /\ IsFiniteSet(Requests)
  /\ FreeLimit \in Nat \ {0} /\ Quota \in Nat
  /\ Window \in Nat \ {0} /\ Periods \subseteq Nat \ {0}
  /\ MaxTime \in Nat /\ MaxRows \in Nat

NotCharged == -1        \* Subscription.current_period_end is NULL

VARIABLES
  now,
  active,       \* Subscription.status = "active"
  periodEnd,    \* Subscription.current_period_end, or NotCharged
  rows,         \* created_at of the tenant's candidate rows, oldest insert first
  admitted,     \* the requests past the gate
  checkedAt,    \* checkedAt[r]: when r was checked
  \* History:
  everActive,   \* the tenant has had an active subscription
  billedFrom,   \* when the window first covers the current billing period, or NotCharged
  uploads,      \* rows inserted by uploads
  billed        \* those created in the part of the billing period the window covers

subVars     == <<active, periodEnd, everActive, billedFrom>>
requestVars == <<admitted, checkedAt>>
vars == <<now, subVars, rows, requestVars, uploads, billed>>

TypeOK ==
  /\ now \in 0..MaxTime
  /\ active \in BOOLEAN /\ everActive \in BOOLEAN
  /\ periodEnd  \in Nat \cup {NotCharged}
  /\ billedFrom \in Nat \cup {NotCharged}
  /\ rows \in Seq(0..MaxTime) /\ Len(rows) <= MaxRows
  /\ admitted \subseteq Requests
  /\ checkedAt \in [Requests -> 0..MaxTime]
  /\ uploads \in Nat /\ billed \in Nat

Init ==
  /\ now = 0
  /\ active = FALSE /\ everActive = FALSE
  /\ periodEnd = NotCharged /\ billedFrom = NotCharged
  /\ rows = <<>>
  /\ admitted = {}
  /\ checkedAt = [r \in Requests |-> 0]
  /\ uploads = 0 /\ billed = 0

(***************************************************************************)
(* billing_service's counting.                                             *)
(***************************************************************************)
count_all_time_candidates == Len(rows)

count_candidates_this_period(start) == Cardinality({i \in DOMAIN rows : rows[i] >= start})

current_period_start ==
  IF periodEnd # NotCharged THEN periodEnd - Window ELSE now - Window

used == count_candidates_this_period(current_period_start)

\* A gate with > for >=.
AdmitsOneMore == IF active THEN used <= Quota ELSE count_all_time_candidates <= FreeLimit

\* enforce_quota raises no 402.
Admits == IF active THEN used < Quota ELSE count_all_time_candidates < FreeLimit

(***************************************************************************)
(* Requests.                                                               *)
(***************************************************************************)

\* An upload endpoint that depends on require_tenant only.
CheckUngated(r) ==
  /\ r \notin admitted
  /\ admitted' = admitted \cup {r}
  /\ checkedAt' = [checkedAt EXCEPT ![r] = now]
  /\ UNCHANGED <<now, subVars, rows, uploads, billed>>

\* The gate lets r in.
Check(r) ==
  /\ r \notin admitted
  /\ Admits
  /\ admitted' = admitted \cup {r}
  /\ checkedAt' = [checkedAt EXCEPT ![r] = now]
  /\ UNCHANGED <<now, subVars, rows, uploads, billed>>

\* enqueue_resume_upload commits the row.
Insert(r) ==
  /\ r \in admitted /\ Len(rows) < MaxRows
  /\ admitted' = admitted \ {r}
  /\ rows' = Append(rows, checkedAt[r])
  /\ uploads' = uploads + 1
  /\ billed' = IF billedFrom # NotCharged /\ checkedAt[r] >= billedFrom
               THEN billed + 1 ELSE billed
  /\ UNCHANGED <<now, subVars, checkedAt>>

\* The file is no PDF (400), or the insert fails.
Reject(r) ==
  /\ r \in admitted
  /\ admitted' = admitted \ {r}
  /\ UNCHANGED <<now, subVars, rows, checkedAt, uploads, billed>>

\* POST /candidates/ depends on require_tenant, not on enforce_quota.
CreateJson ==
  /\ Len(rows) < MaxRows
  /\ rows' = Append(rows, now)
  /\ UNCHANGED <<now, subVars, requestVars, uploads, billed>>

(***************************************************************************)
(* The subscription and the clock.                                         *)
(***************************************************************************)
Activate ==
  /\ ~active
  /\ active' = TRUE /\ everActive' = TRUE
  /\ UNCHANGED <<now, periodEnd, billedFrom, rows, requestVars, uploads, billed>>

Larger(a, b) == IF a >= b THEN a ELSE b

\* subscription.charged: a billing period begins and its end is known.
Charge ==
  /\ active' = TRUE /\ everActive' = TRUE
  /\ \E period \in Periods :
       /\ periodEnd' = now + period
       /\ billedFrom' = Larger(now, now + period - Window)
  /\ billed' = 0
  /\ UNCHANGED <<now, rows, requestVars, uploads>>

Cancel ==
  /\ active
  /\ active' = FALSE
  /\ UNCHANGED <<now, periodEnd, everActive, billedFrom, rows, requestVars, uploads, billed>>

Tick ==
  /\ now < MaxTime
  /\ now' = now + 1
  /\ UNCHANGED <<subVars, rows, requestVars, uploads, billed>>

Next ==
  \/ \E r \in Requests : Check(r) \/ Insert(r) \/ Reject(r)
  \/ CreateJson
  \/ Activate \/ Charge \/ Cancel \/ Tick

Spec == Init /\ [][Next]_vars

-----------------------------------------------------------------------------
(***************************************************************************)
(* Properties.                                                             *)
(***************************************************************************)
Peers == Cardinality(Requests)

\* The check and the insert are two transactions, so the free tier may be
\* overrun, but only by the uploads that were past the gate together: never by
\* more than one less than the requests in progress at once, however JSON
\* creates, rejected files and earlier uploads interleave (billing_guard.py:36).
FreeTierOvershoot == ~everActive => uploads <= FreeLimit + Peers - 1

\* The same for a billing period: from a charge to the next, uploads stay within
\* the quota (or the free tier's, for a tenant who cancels) and the requests in
\* progress.  In a period that is longer than the window, this is so from the day the
\* window begins: uploads of the days before it are neither counted nor limited.
PaidPeriodBounded ==
  billedFrom # NotCharged => billed <= Larger(Quota, FreeLimit) + Peers - 1
=============================================================================
