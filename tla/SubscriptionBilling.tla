------------------------ MODULE SubscriptionBilling ------------------------
(***************************************************************************)
(* Subscriptions: POST /billing/subscribe, POST /billing/webhook and the   *)
(* Razorpay account behind them.                                           *)
(*                                                                         *)
(* A subscribe creates a subscription at Razorpay, reads the tenant's row  *)
(* and commits, in that order; a webhook reads the row of the subscription *)
(* it names and commits.  Between a read and its commit the other kind of  *)
(* handler may commit: subscribe runs in FastAPI's thread pool, the        *)
(* webhook on the event loop, which handles one at a time.                 *)
(*                                                                         *)
(* SQLAlchemy writes the columns whose value differs from the one read,    *)
(* WHERE id = ..., and no others; nothing locks or versions the row.       *)
(* Razorpay delivers an event at least once and in no particular order.    *)
(***************************************************************************)
EXTENDS Naturals, FiniteSets

CONSTANTS Tenants, Plans,
          Subs,         \* ids Razorpay can give out; a bound
          Requests,     \* subscribe requests that can be in progress at once
          MaxCharges,   \* bound on the charged events
          None          \* no subscription, no row, no request, no webhook, no date

Types    == {"authenticated", "activated", "charged", "cancelled"}   \* halted = cancelled
Statuses == {"created", "active", "cancelled"}

\* current_end of the n-th charge of s is the pair <<s, n>>.
Ends   == (Subs \X Nat) \cup {None}
Events == [sub : Subs, type : Types, end : Ends]

Remote  == [tenant : Tenants, plan : Plans, state : Statuses \cup {"authenticated"}, charges : Nat]
Row     == [plan : Plans, status : Statuses, sub : Subs, end : Ends]
Request == [sub : Subs, pc : {"created", "loaded"}, seen : Row \cup {None}]
Hook    == [event : Events, tenant : Tenants, seen : Row]

ASSUME BillingAssumption ==
  /\ MaxCharges \in Nat
  /\ None \notin Subs \X Nat
  /\ None \notin Remote \cup Row \cup Request \cup Hook

VARIABLES
  remote,   \* remote[s]: subscription s at Razorpay
  sent,     \* the events Razorpay delivers, each any number of times from now on
  row,      \* row[t]: the subscriptions row of tenant t
  request,  \* request[r]: where subscribe request r is, for what, and what it read
  hook,     \* the webhook call between its read and its commit
  raced     \* history: tenants with two subscribes between their read and commit

vars == <<remote, sent, row, request, hook, raced>>

TypeOK ==
  /\ remote \in [Subs -> Remote \cup {None}]
  /\ sent \subseteq Events
  /\ row \in [Tenants -> Row \cup {None}]
  /\ request \in [Requests -> Request \cup {None}]
  /\ hook \in Hook \cup {None}
  /\ raced \subseteq Tenants

Init ==
  /\ remote = [s \in Subs |-> None]
  /\ sent = {}
  /\ row = [t \in Tenants |-> None]
  /\ request = [r \in Requests |-> None]
  /\ hook = None
  /\ raced = {}

(***************************************************************************)
(* Razorpay.                                                               *)
(***************************************************************************)
InState(s, states) == remote[s] # None /\ remote[s].state \in states

Send(s, type, end) == sent' = sent \cup {[sub |-> s, type |-> type, end |-> end]}

\* The customer authorises the mandate: an event the service does not track.
Authenticate(s) ==
  /\ InState(s, {"created"})
  /\ remote' = [remote EXCEPT ![s].state = "authenticated"]
  /\ Send(s, "authenticated", None)
  /\ UNCHANGED <<row, request, hook, raced>>

Activate(s) ==
  /\ InState(s, {"authenticated"})
  /\ remote' = [remote EXCEPT ![s].state = "active"]
  /\ Send(s, "activated", None)
  /\ UNCHANGED <<row, request, hook, raced>>

Charge(s) ==
  /\ InState(s, {"active"})
  /\ Cardinality({e \in sent : e.type = "charged"}) < MaxCharges
  /\ remote' = [remote EXCEPT ![s].charges = @ + 1]
  /\ \E end \in {<<s, remote[s].charges + 1>>, None} : Send(s, "charged", end)
  /\ UNCHANGED <<row, request, hook, raced>>

Cancel(s) ==
  /\ InState(s, {"created", "authenticated", "active"})
  /\ remote' = [remote EXCEPT ![s].state = "cancelled"]
  /\ Send(s, "cancelled", None)
  /\ UNCHANGED <<row, request, hook, raced>>

(***************************************************************************)
(* POST /billing/subscribe.                                                *)
(***************************************************************************)
CreateRemote(r, t, p, s) ==
  /\ request[r] = None /\ remote[s] = None
  /\ remote'  = [remote EXCEPT ![s] =
                   [tenant |-> t, plan |-> p, state |-> "created", charges |-> 0]]
  /\ request' = [request EXCEPT ![r] = [sub |-> s, pc |-> "created", seen |-> None]]
  /\ UNCHANGED <<sent, row, hook, raced>>

At(r, pc) == request[r] # None /\ request[r].pc = pc

Reading(r, t) == At(r, "loaded") /\ remote[request[r].sub].tenant = t

LoadRow(r) ==
  /\ At(r, "created")
  /\ LET t == remote[request[r].sub].tenant IN
     /\ request' = [request EXCEPT ![r].pc = "loaded", ![r].seen = row[t]]
     /\ raced' = IF \E q \in Requests : Reading(q, t) THEN raced \cup {t} ELSE raced
  /\ UNCHANGED <<remote, sent, row, hook>>

\* What an UPDATE leaves of the stored value of a column.
Written(stored, seen, new) == IF new = seen THEN stored ELSE new

\* A plan change that forgets the plan.
SubscribedRowOldPlan(stored, seen, s) ==
  IF seen = None
  THEN [plan |-> remote[s].plan, status |-> "created", sub |-> s, end |-> None]
  ELSE [stored EXCEPT !.status = Written(@, seen.status, "created"),
                      !.sub    = Written(@, seen.sub, s)]

SubscribedRow(stored, seen, s) ==
  IF seen = None
  THEN [plan |-> remote[s].plan, status |-> "created", sub |-> s, end |-> None]
  ELSE [stored EXCEPT !.plan   = Written(@, seen.plan, remote[s].plan),
                      !.status = Written(@, seen.status, "created"),
                      !.sub    = Written(@, seen.sub, s)]

\* A second INSERT for the tenant breaks subscriptions.tenant_id's unique
\* constraint: the request ends in a 500.
Commit(r) ==
  /\ At(r, "loaded")
  /\ request' = [request EXCEPT ![r] = None]
  /\ LET s == request[r].sub  t == remote[s].tenant  seen == request[r].seen IN
     row' = IF seen = None /\ row[t] # None THEN row
            ELSE [row EXCEPT ![t] = SubscribedRow(@, seen, s)]
  /\ UNCHANGED <<remote, sent, hook, raced>>

\* The reply of Razorpay, the database or the process is lost.
SubscribeFails(r) ==
  /\ request[r] # None
  /\ request' = [request EXCEPT ![r] = None]
  /\ UNCHANGED <<remote, sent, row, hook, raced>>

(***************************************************************************)
(* POST /billing/webhook.                                                  *)
(***************************************************************************)
\* Every event but a cancellation counts as a payment.
StatusEventsAll == [type \in Types |-> IF type = "cancelled" THEN "cancelled" ELSE "active"]

_STATUS_EVENTS == [type \in {"activated", "charged", "cancelled"} |->
                     IF type = "cancelled" THEN "cancelled" ELSE "active"]

\* A query that forgets razorpay_subscription_id.
HasAnySubscription(t, s) == row[t] # None

HasSubscription(t, s) == row[t] # None /\ row[t].sub = s

HookIgnored(e) ==
  /\ hook = None
  /\ \/ e.type \notin DOMAIN _STATUS_EVENTS
     \/ \A t \in Tenants : ~HasSubscription(t, e.sub)
  /\ UNCHANGED vars

HookReads(e) ==
  /\ hook = None
  /\ e.type \in DOMAIN _STATUS_EVENTS
  /\ \E t \in Tenants :
       /\ HasSubscription(t, e.sub)
       /\ hook' = [event |-> e, tenant |-> t, seen |-> row[t]]
  /\ UNCHANGED <<remote, sent, row, request, raced>>

EventRow(stored, seen, e) ==
  [stored EXCEPT
     !.status = Written(@, seen.status, _STATUS_EVENTS[e.type]),
     !.end    = IF e.type = "charged" /\ e.end # None THEN Written(@, seen.end, e.end) ELSE @]

HookCommits ==
  /\ hook # None
  /\ row' = [row EXCEPT ![hook.tenant] = EventRow(@, hook.seen, hook.event)]
  /\ hook' = None
  /\ UNCHANGED <<remote, sent, request, raced>>

\* The commit fails or the process dies: Razorpay will deliver the event again.
HookFails ==
  /\ hook # None
  /\ hook' = None
  /\ UNCHANGED <<remote, sent, row, request, raced>>

RazorpayStep(s)  == Authenticate(s) \/ Activate(s) \/ Charge(s) \/ Cancel(s)
SubscribeStep(r) ==
  \/ \E t \in Tenants, p \in Plans, s \in Subs : CreateRemote(r, t, p, s)
  \/ LoadRow(r) \/ Commit(r) \/ SubscribeFails(r)
WebhookStep ==
  \/ \E e \in sent : HookIgnored(e) \/ HookReads(e)
  \/ HookCommits \/ HookFails

Next ==
  \/ \E s \in Subs : RazorpayStep(s)
  \/ \E r \in Requests : SubscribeStep(r)
  \/ WebhookStep

Spec == Init /\ [][Next]_vars

-----------------------------------------------------------------------------
(***************************************************************************)
(* Properties.                                                             *)
(***************************************************************************)
Paid(s) == \E e \in sent : e.sub = s /\ e.type \in {"activated", "charged"}

HasRow(t) == row[t] # None

\* The gate trusts status = "active" (billing_guard.py:36).  However subscribes
\* and webhooks overlap, repeat or come out of order, a tenant is active only
\* after one of its own subscriptions was paid for.
ActiveTenantHasPaid ==
  \A t \in Tenants : HasRow(t) /\ row[t].status = "active" =>
    \E s \in Subs : remote[s] # None /\ remote[s].tenant = t /\ Paid(s)

\* A row never names the subscription of another tenant, nor the end of a
\* period that Razorpay has not announced for one of the tenant's own.
RowIsTheTenants ==
  \A t \in Tenants : HasRow(t) =>
    /\ remote[row[t].sub] # None /\ remote[row[t].sub].tenant = t
    /\ row[t].end # None =>
         /\ remote[row[t].end[1]].tenant = t
         /\ [sub |-> row[t].end[1], type |-> "charged", end |-> row[t].end] \in sent

\* The quota a tenant gets is the one it pays for: unless two of its subscribes
\* overlapped between their read and their commit, the row's plan is the plan of
\* the Razorpay subscription it names ("One current subscription per tenant ... a
\* plan change updates this row", models/db.py:130).
PlanIsBilled ==
  \A t \in Tenants \ raced : HasRow(t) => remote[row[t].sub].plan = row[t].plan
=============================================================================
