---------------------------- MODULE GatedBilling ----------------------------
(***************************************************************************)
(* SubscriptionBilling with the quota gate in front of it and a clock:     *)
(* enforce_quota counts a tenant's rows over a window it computes from the *)
(* subscriptions row, and that row lags behind Razorpay and outlives the   *)
(* subscription it was written for.  A webhook may come late, twice, out   *)
(* of order or never; a plan change may change the window.                 *)
(*                                                                         *)
(* Uploads that overlap in the gate are QuotaGate's subject: here the      *)
(* check and the insert are one step.  Time is counted in days.            *)
(***************************************************************************)
EXTENDS SubscriptionBilling, Integers, Sequences

CONSTANTS Quota,     \* Quota[p]: Plan.monthly_resume_quota
          Window,    \* Window[p]: 30 * Plan.duration_months
          Period,    \* Period[p]: days that Razorpay bills at once
          FreeLimit, \* settings.free_tier_resume_limit
          MaxTime,   \* bound on the clock
          MaxRows    \* bound on the rows of a tenant

Days    == 0..MaxTime
Charges == Subs \X (1..MaxCharges)

ASSUME GateAssumption ==
  /\ Quota \in [Plans -> Nat] /\ FreeLimit \in Nat
  /\ Window \in [Plans -> Nat \ {0}] /\ Period \in [Plans -> Nat \ {0}]
  /\ MaxTime \in Nat /\ MaxRows \in Nat

VARIABLES
  now,
  chargedOn,  \* chargedOn[<<s, n>>]: the day of the n-th charge of s
  created     \* created[t]: created_at of the candidate rows of t, oldest first

gateVars == <<now, chargedOn, created>>

GatedInit ==
  /\ Init
  /\ now = 0
  /\ chargedOn = [c \in Charges |-> 0]
  /\ created = [t \in Tenants |-> <<>>]

LastCharge(s) == <<s, remote[s].charges>>

PeriodEnd(c) == chargedOn[c] + Period[remote[c[1]].plan]

(***************************************************************************)
(* The gate.                                                               *)
(***************************************************************************)
count_candidates_this_period(t, start) ==
  Cardinality({i \in DOMAIN created[t] : created[t][i] >= start})

count_all_time_candidates(t) == Len(created[t])

\* The end of the period counted from, as if it were the start.
PeriodStartAtEnd(t) ==
  IF row[t].end # None THEN PeriodEnd(row[t].end) ELSE now - Window[row[t].plan]

current_period_start(t) ==
  (IF row[t].end # None THEN PeriodEnd(row[t].end) ELSE now) - Window[row[t].plan]

Active(t) == row[t] # None /\ row[t].status = "active"

Admits(t) ==
  IF Active(t)
  THEN count_candidates_this_period(t, current_period_start(t)) < Quota[row[t].plan]
  ELSE count_all_time_candidates(t) < FreeLimit

Upload(t) ==
  /\ Admits(t) /\ Len(created[t]) < MaxRows
  /\ created' = [created EXCEPT ![t] = Append(@, now)]
  /\ UNCHANGED <<vars, now, chargedOn>>

(***************************************************************************)
(* Razorpay charges when a period begins; everything else is timeless.     *)
(***************************************************************************)
Renew(s) ==
  /\ Charge(s) /\ remote[s].charges < MaxCharges
  /\ remote[s].charges > 0 => now >= PeriodEnd(LastCharge(s))
  /\ chargedOn' = [chargedOn EXCEPT ![<<s, remote[s].charges + 1>>] = now]
  /\ UNCHANGED <<now, created>>

Tick ==
  /\ now < MaxTime
  /\ now' = now + 1
  /\ UNCHANGED <<vars, chargedOn, created>>

GatedNext ==
  \/ \E s \in Subs : Renew(s)
  \/ UNCHANGED gateVars /\ \E s \in Subs : Authenticate(s) \/ Activate(s) \/ Cancel(s)
  \/ UNCHANGED gateVars /\ \E r \in Requests : SubscribeStep(r)
  \/ UNCHANGED gateVars /\ WebhookStep
  \/ \E t \in Tenants : Upload(t)
  \/ Tick

GatedSpec == GatedInit /\ [][GatedNext]_<<vars, gateVars>>

-----------------------------------------------------------------------------
(***************************************************************************)
(* Properties.                                                             *)
(***************************************************************************)
SubsOf(t) == {s \in Subs : remote[s] # None /\ remote[s].tenant = t}

\* No subscription of t is billed for longer than the window of another one's plan.
WindowsCoverPeriods(t) ==
  \A s, q \in SubsOf(t) : Period[remote[s].plan] <= Window[remote[q].plan]

ChargesOf(t) == {c \in Charges : c[1] \in SubsOf(t) /\ c[2] <= remote[c[1]].charges}

UploadsIn(t, c) == {i \in DOMAIN created[t] : created[t][i] \in chargedOn[c]..(PeriodEnd(c) - 1)}

Limits(t) == {FreeLimit} \cup {Quota[remote[s].plan] : s \in SubsOf(t)}

\* Counting rows needs no webhook to be right (billing_guard.py:30-32, "no drift
\* risk if a webhook is ever missed"): while charged events are late, repeated, out
\* of order or lost, and plans change to others of the same length, what a tenant
\* uploads in the period of its latest charge stays within its largest quota.
PeriodIsBounded ==
  \A t \in Tenants : WindowsCoverPeriods(t) =>
    \A c \in ChargesOf(t) :
      (\A b \in ChargesOf(t) : chargedOn[b] <= chargedOn[c]) =>
        \E limit \in Limits(t) : Cardinality(UploadsIn(t, c)) <= limit

\* README.md:252-255: the quota of an active subscription is "counted over the
\* current billing period".  The window the gate counts over has begun.
PeriodHasBegun == \A t \in Tenants : Active(t) => current_period_start(t) <= now
=============================================================================
