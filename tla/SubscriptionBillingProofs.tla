--------------------- MODULE SubscriptionBillingProofs ---------------------
(***************************************************************************)
(* Proofs about SubscriptionBilling, for any tenants, plans, subscriptions *)
(* and requests: types, who owns what a row holds, active means paid, and, *)
(* where subscribes do not race, the plan of a row is the plan it bills.   *)
(***************************************************************************)
EXTENDS SubscriptionBilling, TLAPS

(***************************************************************************)
(* The first invariant: what a handler in progress points to exists.       *)
(***************************************************************************)
RequestInv ==
  \A r \in Requests : request[r] # None =>
    /\ remote[request[r].sub] # None
    /\ request[r].seen # None => row[remote[request[r].sub].tenant] # None

HookInv ==
  hook # None =>
    /\ hook.event \in sent /\ hook.event.type \in DOMAIN _STATUS_EVENTS
    /\ row[hook.tenant] # None
    /\ remote[hook.event.sub] # None /\ remote[hook.event.sub].tenant = hook.tenant

\* A row names a subscription that Razorpay knows as this tenant's.
NamedInv ==
  \A t \in Tenants : row[t] # None =>
    remote[row[t].sub] # None /\ remote[row[t].sub].tenant = t

Inv == TypeOK /\ RequestInv /\ HookInv /\ NamedInv

\* The statuses the tracked events map onto.
LEMMA StatusEvents ==
  /\ DOMAIN _STATUS_EVENTS = {"activated", "charged", "cancelled"}
  /\ _STATUS_EVENTS["activated"] = "active"
  /\ _STATUS_EVENTS["charged"] = "active"
  /\ _STATUS_EVENTS["cancelled"] = "cancelled"
PROOF
  BY DEF _STATUS_EVENTS

\* Requests, the webhook and rows name subscriptions of their own tenant.
LEMMA Invariant == Spec => []Inv
PROOF
<1>1. Init => Inv
  BY DEF Init, Inv, TypeOK, RequestInv, HookInv, NamedInv
<1>2. Inv /\ [Next]_vars => Inv'
  <2> SUFFICES ASSUME Inv, [Next]_vars PROVE Inv'
    OBVIOUS
  <2> USE BillingAssumption DEF Inv, TypeOK, RequestInv, HookInv, NamedInv, InState, Send
  <2>1. ASSUME NEW s \in Subs, Authenticate(s) PROVE Inv'
    BY <2>1 DEF Authenticate, Events, Types, Ends, Remote, Hook
  <2>2. ASSUME NEW s \in Subs, Activate(s) PROVE Inv'
    BY <2>2 DEF Activate, Events, Types, Ends, Remote, Statuses, Request, Hook, Row
  <2>3. ASSUME NEW s \in Subs, Charge(s) PROVE Inv'
    BY <2>3 DEF Charge, Events, Types, Ends, Remote, Statuses, Request, Hook, Row
  <2>4. ASSUME NEW s \in Subs, Cancel(s) PROVE Inv'
    BY <2>4 DEF Cancel, Events, Types, Ends, Remote, Statuses, Request, Hook, Row
  <2>5. ASSUME NEW r \in Requests, NEW t \in Tenants, NEW p \in Plans, NEW s \in Subs,
               CreateRemote(r, t, p, s)
        PROVE  Inv'
    BY <2>5 DEF CreateRemote, Request, Remote, Statuses, Hook, Row, Events
  <2>6. ASSUME NEW r \in Requests, LoadRow(r) PROVE Inv'
    <3>1. request[r] \in Request /\ remote[request[r].sub] \in Remote
      BY <2>6 DEF LoadRow, At, Request
    <3>2. row[remote[request[r].sub].tenant] \in Row \cup {None}
      BY <3>1 DEF Remote
    <3>3. /\ UNCHANGED <<remote, sent, row, hook>>
          /\ request' = [request EXCEPT ![r].pc = "loaded",
                                        ![r].seen = row[remote[request[r].sub].tenant]]
          /\ raced' \in {raced, raced \cup {remote[request[r].sub].tenant}}
      BY <2>6 DEF LoadRow
    <3>4. remote[request[r].sub].tenant \in Tenants
      BY <3>1 DEF Remote
    <3>5. TypeOK'
      <4>1. [request[r] EXCEPT !.pc = "loaded", !.seen = row[remote[request[r].sub].tenant]]
              \in Request
        BY <3>1, <3>2 DEF Request
      <4>2. request' \in [Requests -> Request \cup {None}]
        BY <3>3, <4>1
      <4>3. raced' \subseteq Tenants
        BY <3>3, <3>4
      <4> QED
        BY <3>3, <4>2, <4>3
    <3>6. RequestInv'
      BY <3>1, <3>3 DEF Request
    <3>7. HookInv' /\ NamedInv'
      BY <3>3
    <3> QED
      BY <3>5, <3>6, <3>7
  <2>7. ASSUME NEW r \in Requests, Commit(r) PROVE Inv'
    <3> DEFINE s == request[r].sub
               t == remote[s].tenant
               new == SubscribedRow(row[t], request[r].seen, s)
    <3>1. request[r] \in Request /\ s \in Subs /\ remote[s] \in Remote /\ t \in Tenants
      BY <2>7 DEF Commit, At, Request, Remote
    <3>2. /\ new \in Row
          /\ new.sub \in {s} \cup (IF row[t] # None THEN {row[t].sub} ELSE {})
      <4>1. CASE request[r].seen = None
        BY <3>1, <4>1 DEF SubscribedRow, Row, Remote, Statuses, Ends
      <4>2. CASE request[r].seen # None
        <5>1. row[t] \in Row
          BY <3>1, <4>2
        <5> QED
          BY <3>1, <4>2, <5>1 DEF SubscribedRow, Written, Row, Remote, Statuses, Ends
      <4> QED
        BY <4>1, <4>2
    <3>3. /\ row' = row \/ row' = [row EXCEPT ![t] = new]
          /\ request' = [request EXCEPT ![r] = None]
          /\ UNCHANGED <<remote, sent, hook, raced>>
      BY <2>7 DEF Commit
    <3>4. new # None
      BY <3>2
    <3> HIDE DEF new, s, t
    <3>5. TypeOK'
      BY <3>1, <3>2, <3>3
    <3>6. RequestInv'
      BY <3>1, <3>3, <3>4 DEF Request, Remote
    <3>7. HookInv'
      BY <3>1, <3>3, <3>4 DEF Hook
    <3>8. NamedInv'
      BY <3>1, <3>2, <3>3, <3>4 DEF t
    <3> QED
      BY <3>5, <3>6, <3>7, <3>8
  <2>8. ASSUME NEW r \in Requests, SubscribeFails(r) PROVE Inv'
    BY <2>8 DEF SubscribeFails
  <2>9. ASSUME NEW e \in sent, HookIgnored(e) PROVE Inv'
    BY <2>9 DEF HookIgnored, vars
  <2>10. ASSUME NEW e \in sent, HookReads(e) PROVE Inv'
    BY <2>10 DEF HookReads, HasSubscription, Hook
  <2>11. CASE HookCommits
    <3> DEFINE t == hook.tenant
               new == EventRow(row[t], hook.seen, hook.event)
    <3>1. hook \in Hook /\ t \in Tenants /\ row[t] \in Row /\ hook.event \in Events
      BY <2>11 DEF HookCommits, Hook
    <3>2. _STATUS_EVENTS[hook.event.type] \in Statuses
      BY <2>11, StatusEvents DEF HookCommits, Statuses
    <3>3. new \in Row /\ new.sub = row[t].sub
      BY <3>1, <3>2 DEF EventRow, Written, Row, Ends, Events
    <3>4. row' = [row EXCEPT ![t] = new] /\ hook' = None
          /\ UNCHANGED <<remote, sent, request, raced>>
      BY <2>11 DEF HookCommits
    <3>5. new # None
      BY <3>3
    <3> HIDE DEF new, t
    <3> QED
      BY <3>1, <3>3, <3>4, <3>5
  <2>12. CASE HookFails
    BY <2>12 DEF HookFails
  <2>13. CASE UNCHANGED vars
    BY <2>13 DEF vars
  <2> QED
    BY <2>1, <2>2, <2>3, <2>4, <2>5, <2>6, <2>7, <2>8, <2>9, <2>10, <2>11, <2>12, <2>13
    DEF Next, RazorpayStep, SubscribeStep, WebhookStep
<1> QED
  BY <1>1, <1>2, PTL DEF Spec

\* Every variable of SubscriptionBilling keeps its type.
THEOREM TypeCorrectness == Spec => []TypeOK
PROOF
  BY Invariant, PTL DEF Inv

(***************************************************************************)
(* What a step leaves of the subscriptions at Razorpay and of its events:  *)
(* a subscription keeps its tenant and plan, an event stays to deliver.    *)
(***************************************************************************)
Kept ==
  /\ sent \subseteq sent'
  /\ \A s \in Subs : remote[s] # None =>
       /\ remote'[s] # None
       /\ remote'[s].tenant = remote[s].tenant
       /\ remote'[s].plan = remote[s].plan

\* Every step keeps the events and what a subscription is for.
LEMMA StepKeeps == TypeOK /\ [Next]_vars => Kept
PROOF
<1> SUFFICES ASSUME TypeOK, [Next]_vars PROVE Kept
  OBVIOUS
<1> USE BillingAssumption DEF TypeOK, Kept, InState, Send, Remote, Statuses
<1>1. ASSUME NEW s \in Subs, RazorpayStep(s) PROVE Kept
  <2>1. CASE Authenticate(s)
    BY <2>1 DEF Authenticate
  <2>2. CASE Activate(s)
    BY <2>2 DEF Activate
  <2>3. CASE Charge(s)
    BY <2>3 DEF Charge
  <2>4. CASE Cancel(s)
    BY <2>4 DEF Cancel
  <2> QED
    BY <1>1, <2>1, <2>2, <2>3, <2>4 DEF RazorpayStep
<1>2. ASSUME NEW r \in Requests, NEW t \in Tenants, NEW p \in Plans, NEW s \in Subs,
             CreateRemote(r, t, p, s)
      PROVE  Kept
  BY <1>2 DEF CreateRemote
<1>3. ASSUME NEW r \in Requests, LoadRow(r) \/ Commit(r) \/ SubscribeFails(r) PROVE Kept
  BY <1>3 DEF LoadRow, Commit, SubscribeFails
<1>4. CASE WebhookStep \/ UNCHANGED vars
  BY <1>4 DEF WebhookStep, HookIgnored, HookReads, HookCommits, HookFails, vars
<1> QED
  BY <1>1, <1>2, <1>3, <1>4 DEF Next, SubscribeStep

(***************************************************************************)
(* How a step changes a row: not at all, by a subscribe that writes        *)
(* "created" or leaves the status, or by a webhook.                        *)
(***************************************************************************)
Subscribed(t) ==
  \E r \in Requests :
    /\ request[r] # None /\ t = remote[request[r].sub].tenant
    /\ request[r].seen = None => row[t] = None
    /\ row'[t] = SubscribedRow(row[t], request[r].seen, request[r].sub)

Notified(t) ==
  /\ hook # None /\ hook.tenant = t
  /\ row'[t] = EventRow(row[t], hook.seen, hook.event)

\* Every change of a row is one of a subscribe or of a webhook.
LEMMA RowChanges ==
  TypeOK /\ [Next]_vars => \A t \in Tenants : row'[t] = row[t] \/ Subscribed(t) \/ Notified(t)
PROOF
<1> SUFFICES ASSUME TypeOK, [Next]_vars, NEW t \in Tenants
             PROVE  row'[t] = row[t] \/ Subscribed(t) \/ Notified(t)
  OBVIOUS
<1>1. ASSUME NEW s \in Subs, RazorpayStep(s) PROVE row' = row
  BY <1>1 DEF RazorpayStep, Authenticate, Activate, Charge, Cancel
<1>2. ASSUME NEW r \in Requests, NEW u \in Tenants, NEW p \in Plans, NEW s \in Subs,
             CreateRemote(r, u, p, s)
      PROVE  row' = row
  BY <1>2 DEF CreateRemote
<1>3. ASSUME NEW r \in Requests, LoadRow(r) \/ SubscribeFails(r) PROVE row' = row
  BY <1>3 DEF LoadRow, SubscribeFails
<1>4. ASSUME NEW r \in Requests, Commit(r) PROVE row'[t] = row[t] \/ Subscribed(t)
  BY <1>4 DEF Commit, At, Subscribed, TypeOK
<1>5. CASE HookCommits
  BY <1>5 DEF HookCommits, Notified, TypeOK
<1>6. ASSUME NEW e \in sent, HookIgnored(e) \/ HookReads(e) PROVE row' = row
  BY <1>6 DEF HookIgnored, HookReads, vars
<1>7. CASE HookFails \/ UNCHANGED vars
  BY <1>7 DEF HookFails, vars
<1> QED
  BY <1>1, <1>2, <1>3, <1>4, <1>5, <1>6, <1>7 DEF Next, SubscribeStep, WebhookStep

\* A subscribe's write over a row keeps the end of its period, and keeps its
\* status or makes it "created".
LEMMA SubscribedKeeps ==
  ASSUME NEW stored \in Row, NEW seen \in Row, NEW s \in Subs, remote[s] \in Remote
  PROVE  /\ SubscribedRow(stored, seen, s) # None
         /\ SubscribedRow(stored, seen, s).status \in {stored.status, "created"}
         /\ SubscribedRow(stored, seen, s).end = stored.end
PROOF
<1>1. seen # None
  BY BillingAssumption
<1>2. SubscribedRow(stored, seen, s) =
        [plan |-> Written(stored.plan, seen.plan, remote[s].plan),
         status |-> Written(stored.status, seen.status, "created"),
         sub |-> Written(stored.sub, seen.sub, s), end |-> stored.end]
  BY <1>1 DEF SubscribedRow, Row
<1>3. /\ Written(stored.plan, seen.plan, remote[s].plan) \in Plans
      /\ Written(stored.status, seen.status, "created") \in Statuses \cap {stored.status, "created"}
      /\ Written(stored.sub, seen.sub, s) \in Subs /\ stored.end \in Ends
  BY DEF Written, Row, Remote, Statuses
<1>4. SubscribedRow(stored, seen, s) \in Row
  BY <1>2, <1>3 DEF Row
<1> QED
  BY <1>2, <1>3, <1>4, BillingAssumption

\* The three columns of the row after a subscribe and after a webhook.
LEMMA WrittenRows ==
  ASSUME Inv, NEW t \in Tenants
  PROVE  /\ Subscribed(t) =>
              /\ row'[t] # None
              /\ row'[t].status = "active" => row[t] # None /\ row[t].status = "active"
              /\ row'[t].end # None => row[t] # None /\ row'[t].end = row[t].end
         /\ Notified(t) =>
              /\ row'[t] # None /\ row[t] # None
              /\ row'[t].status = "active" =>
                   row[t].status = "active" \/ hook.event.type \in {"activated", "charged"}
              /\ \/ row'[t].end = row[t].end
                 \/ (hook.event.type = "charged" /\ row'[t].end = hook.event.end)
PROOF
<1> USE BillingAssumption
<1>1. ASSUME NEW r \in Requests, request[r] # None, t = remote[request[r].sub].tenant,
             request[r].seen = None => row[t] = None,
             row'[t] = SubscribedRow(row[t], request[r].seen, request[r].sub)
      PROVE  /\ row'[t] # None
             /\ row'[t].status = "active" => row[t] # None /\ row[t].status = "active"
             /\ row'[t].end # None => row[t] # None /\ row'[t].end = row[t].end
  <2>1. /\ request[r] \in Request /\ request[r].sub \in Subs
        /\ remote[request[r].sub] \in Remote
    BY <1>1 DEF Inv, TypeOK, RequestInv, Request
  <2>2. CASE request[r].seen = None
    <3>1. row'[t] \in Row /\ row'[t].status = "created" /\ row'[t].end = None
      BY <1>1, <2>1, <2>2 DEF SubscribedRow, Row, Remote, Statuses, Ends
    <3> QED
      BY <3>1
  <2>3. CASE request[r].seen # None
    <3>1. row[t] \in Row
      BY <1>1, <2>3 DEF Inv, TypeOK, RequestInv
    <3>2. request[r].seen \in Row
      BY <2>1, <2>3 DEF Request
    <3> QED
      BY <1>1, <2>1, <3>1, <3>2, SubscribedKeeps
  <2> QED
    BY <2>2, <2>3
<1>2. ASSUME Notified(t)
      PROVE  /\ row'[t] # None /\ row[t] # None
             /\ row'[t].status = "active" =>
                  row[t].status = "active" \/ hook.event.type \in {"activated", "charged"}
             /\ \/ row'[t].end = row[t].end
                \/ (hook.event.type = "charged" /\ row'[t].end = hook.event.end)
  <2>1. /\ hook \in Hook /\ row[t] \in Row /\ hook.event \in Events
        /\ hook.event.type \in {"activated", "charged", "cancelled"}
    BY <1>2, StatusEvents DEF Inv, TypeOK, HookInv, Notified, Hook
  <2>2. _STATUS_EVENTS[hook.event.type] \in Statuses
    BY <2>1, StatusEvents DEF Statuses
  <2>3. /\ row'[t] \in Row
        /\ row'[t].status \in {row[t].status, _STATUS_EVENTS[hook.event.type]}
        /\ \/ row'[t].end = row[t].end
           \/ (hook.event.type = "charged" /\ row'[t].end = hook.event.end)
    BY <1>2, <2>1, <2>2 DEF Notified, EventRow, Written, Row, Events
  <2> QED
    BY <2>1, <2>3, StatusEvents
<1> QED
  BY <1>1, <1>2 DEF Subscribed

(***************************************************************************)
(* Active means paid.                                                      *)
(***************************************************************************)
PaidFor(t) == \E s \in Subs : remote[s] # None /\ remote[s].tenant = t /\ Paid(s)

\* A tenant is active only after one of its own subscriptions was paid for, in
\* whatever order and however often events arrive.
THEOREM ActiveMeansPaid == Spec => []ActiveTenantHasPaid
PROOF
<1>1. Init => ActiveTenantHasPaid
  BY DEF Init, ActiveTenantHasPaid, HasRow
<1>2. Inv /\ ActiveTenantHasPaid /\ [Next]_vars => ActiveTenantHasPaid'
  <2> SUFFICES ASSUME Inv, ActiveTenantHasPaid, [Next]_vars,
                      NEW t \in Tenants, row'[t] # None, row'[t].status = "active"
               PROVE  PaidFor(t)'
    BY DEF ActiveTenantHasPaid, HasRow, PaidFor
  <2>1. Kept
    BY StepKeeps DEF Inv
  <2>2. PaidFor(t) => PaidFor(t)'
    BY <2>1 DEF PaidFor, Paid, Kept
  <2>3. row[t] # None /\ row[t].status = "active" => PaidFor(t)
    BY DEF ActiveTenantHasPaid, HasRow, PaidFor
  <2>4. Notified(t) /\ hook.event.type \in {"activated", "charged"} => PaidFor(t)
    BY DEF Notified, Inv, HookInv, TypeOK, Events, PaidFor, Paid
  <2> QED
    BY <2>2, <2>3, <2>4, RowChanges, WrittenRows DEF Inv
<1> QED
  BY <1>1, <1>2, Invariant, PTL DEF Spec

(***************************************************************************)
(* The dates of a row.                                                     *)
(***************************************************************************)
Announced(t, end) ==
  /\ remote[end[1]] # None /\ remote[end[1]].tenant = t
  /\ [sub |-> end[1], type |-> "charged", end |-> end] \in sent

SentInv == \A e \in sent : e.end # None => e.end[1] = e.sub

EndInv == \A t \in Tenants : row[t] # None /\ row[t].end # None => Announced(t, row[t].end)

\* A row holds the subscription of its own tenant and a date that Razorpay
\* announced for a subscription of that tenant.
THEOREM RowsAreTheTenants == Spec => []RowIsTheTenants
PROOF
<1>1. Init => SentInv /\ EndInv
  BY DEF Init, SentInv, EndInv
<1>2. Inv /\ SentInv /\ [Next]_vars => SentInv'
  <2> SUFFICES ASSUME Inv, SentInv, [Next]_vars PROVE SentInv'
    OBVIOUS
  <2> USE DEF SentInv
  <2>1. ASSUME NEW s \in Subs, RazorpayStep(s) PROVE SentInv'
    BY <2>1 DEF RazorpayStep, Authenticate, Activate, Charge, Cancel, Send
  <2>2. ASSUME NEW r \in Requests, SubscribeStep(r) PROVE sent' = sent
    BY <2>2 DEF SubscribeStep, CreateRemote, LoadRow, Commit, SubscribeFails
  <2>3. CASE WebhookStep \/ UNCHANGED vars
    BY <2>3 DEF WebhookStep, HookIgnored, HookReads, HookCommits, HookFails, vars
  <2> QED
    BY <2>1, <2>2, <2>3 DEF Next
<1>3. Inv /\ SentInv /\ EndInv /\ [Next]_vars => EndInv'
  <2> SUFFICES ASSUME Inv, SentInv, EndInv, [Next]_vars,
                      NEW t \in Tenants, row'[t] # None, row'[t].end # None
               PROVE  Announced(t, row[t].end)'
    BY DEF EndInv
  <2>1. Kept
    BY StepKeeps DEF Inv
  <2>2. ASSUME row[t] # None, row'[t].end = row[t].end PROVE Announced(t, row[t].end)'
    <3>1. row[t] \in Row /\ row[t].end \in Subs \X Nat /\ row[t].end[1] \in Subs
      BY <2>2 DEF Inv, TypeOK, Row, Ends
    <3>2. Announced(t, row[t].end)
      BY <2>2 DEF EndInv
    <3> QED
      BY <2>1, <2>2, <3>1, <3>2 DEF Announced, Kept
  <2>3. ASSUME Notified(t), hook.event.type = "charged", row'[t].end = hook.event.end
        PROVE  Announced(t, row[t].end)'
    <3>1. /\ hook.event \in sent /\ hook.event \in Events /\ hook.event.sub \in Subs
          /\ remote[hook.event.sub] # None /\ remote[hook.event.sub].tenant = t
      BY <2>3 DEF Notified, Inv, HookInv, TypeOK, Events
    <3>2. hook.event.end[1] = hook.event.sub
      BY <2>3, <3>1 DEF SentInv
    <3>3. hook.event = [sub |-> hook.event.sub, type |-> "charged", end |-> hook.event.end]
      BY <2>3, <3>1 DEF Events
    <3> QED
      BY <2>1, <2>3, <3>1, <3>2, <3>3 DEF Announced, Kept
  <2> QED
    BY <2>2, <2>3, RowChanges, WrittenRows DEF Inv
<1>4. Inv /\ EndInv => RowIsTheTenants
  BY DEF Inv, NamedInv, EndInv, Announced, RowIsTheTenants, HasRow
<1> QED
  BY <1>1, <1>2, <1>3, <1>4, Invariant, PTL DEF Spec

(***************************************************************************)
(* Plans.  A request's subscription is new: no other request and no row    *)
(* has it.  Where no two requests of a tenant are past their read, the     *)
(* plan that one has read is the plan of the row when it commits.          *)
(***************************************************************************)
FreshInv ==
  /\ \A r, q \in Requests :
       request[r] # None /\ request[q] # None /\ r # q => request[r].sub # request[q].sub
  /\ \A r \in Requests : request[r] # None =>
       /\ \A t \in Tenants : row[t] # None => row[t].sub # request[r].sub
       /\ request[r].seen # None => request[r].seen.sub # request[r].sub

ReadInv ==
  \A t \in Tenants \ raced :
    /\ \A r, q \in Requests : Reading(r, t) /\ Reading(q, t) => r = q
    /\ \A r \in Requests : Reading(r, t) /\ request[r].seen # None =>
         row[t] # None /\ row[t].plan = request[r].seen.plan

\* No two requests, and no request and row, have one subscription.
LEMMA SubsAreFresh == Spec => []FreshInv
PROOF
<1>1. Init => FreshInv
  BY DEF Init, FreshInv
<1>2. Inv /\ FreshInv /\ [Next]_vars => FreshInv'
  <2> SUFFICES ASSUME Inv, FreshInv, [Next]_vars PROVE FreshInv'
    OBVIOUS
  <2> USE BillingAssumption DEF FreshInv
  <2>t. TypeOK /\ NamedInv /\ RequestInv
    BY DEF Inv
  <2>1. ASSUME row' = row, request' = request PROVE FreshInv'
    BY <2>1
  <2>2. ASSUME NEW r \in Requests, NEW t \in Tenants, NEW p \in Plans, NEW s \in Subs,
               CreateRemote(r, t, p, s)
        PROVE  FreshInv'
    <3>1. /\ remote[s] = None /\ row' = row
          /\ request' = [request EXCEPT ![r] = [sub |-> s, pc |-> "created", seen |-> None]]
      BY <2>2 DEF CreateRemote
    <3>2. \A u \in Tenants : row[u] # None => row[u].sub # s
      BY <2>t, <3>1 DEF NamedInv
    <3>3. \A q \in Requests : request[q] # None => request[q].sub # s
      BY <2>t, <3>1 DEF RequestInv
    <3> QED
      BY <2>t, <3>1, <3>2, <3>3 DEF TypeOK
  <2>3. ASSUME NEW r \in Requests, LoadRow(r) PROVE FreshInv'
    <3>1. request[r] \in Request /\ remote[request[r].sub].tenant \in Tenants
      BY <2>3, <2>t DEF LoadRow, At, TypeOK, RequestInv, Request, Remote
    <3> QED
      BY <2>3, <2>t, <3>1 DEF LoadRow, At, TypeOK, Request
  <2>4. ASSUME NEW r \in Requests, Commit(r) PROVE FreshInv'
    <3> DEFINE s == request[r].sub
               t == remote[s].tenant
               new == SubscribedRow(row[t], request[r].seen, s)
    <3>1. /\ request[r] \in Request /\ request[r] # None /\ s \in Subs
          /\ remote[s] \in Remote /\ t \in Tenants
      BY <2>4, <2>t DEF Commit, At, Request, Remote, TypeOK, RequestInv
    <3>2. new.sub = s
      <4>1. CASE request[r].seen = None
        BY <4>1 DEF SubscribedRow
      <4>2. CASE request[r].seen # None
        <5>1. row[t] \in Row /\ request[r].seen.sub # s
          BY <2>t, <3>1, <4>2 DEF TypeOK, RequestInv
        <5> QED
          BY <4>2, <5>1 DEF SubscribedRow, Written, Row
      <4> QED
        BY <4>1, <4>2
    <3>3. /\ row' = row \/ row' = [row EXCEPT ![t] = new]
          /\ request' = [request EXCEPT ![r] = None]
      BY <2>4 DEF Commit
    <3>4. \A q \in Requests : q # r /\ request[q] # None => request[q].sub # s
      BY <3>1
    <3> HIDE DEF new, s, t
    <3> QED
      BY <2>t, <3>1, <3>2, <3>3, <3>4 DEF TypeOK
  <2>5. ASSUME NEW r \in Requests, SubscribeFails(r) PROVE FreshInv'
    BY <2>5, <2>t DEF SubscribeFails, TypeOK
  <2>6. CASE HookCommits
    <3>1. \A t \in Tenants : row'[t] # None => row[t] # None /\ row'[t].sub = row[t].sub
      BY <2>6, <2>t DEF HookCommits, EventRow, TypeOK, Row, Hook, Inv, HookInv
    <3> QED
      BY <2>6, <3>1 DEF HookCommits
  <2>7. ASSUME NEW s \in Subs, RazorpayStep(s) PROVE row' = row /\ request' = request
    BY <2>7 DEF RazorpayStep, Authenticate, Activate, Charge, Cancel
  <2>8. ASSUME NEW e \in sent, HookIgnored(e) \/ HookReads(e) PROVE row' = row /\ request' = request
    BY <2>8 DEF HookIgnored, HookReads, vars
  <2>9. CASE HookFails \/ UNCHANGED vars
    BY <2>1, <2>9 DEF HookFails, vars
  <2> QED
    BY <2>1, <2>2, <2>3, <2>4, <2>5, <2>6, <2>7, <2>8, <2>9 DEF Next, SubscribeStep, WebhookStep
<1> QED
  BY <1>1, <1>2, Invariant, PTL DEF Spec

\* Unless two subscribes of a tenant overlapped between read and commit, its
\* row's plan is the one its Razorpay subscription bills, whatever webhooks and
\* failures come in between and however many tenants subscribe at once.
THEOREM UnracedPlanIsBilled == Spec => []PlanIsBilled
PROOF
<1>1. Init => ReadInv /\ PlanIsBilled
  BY DEF Init, ReadInv, Reading, At, PlanIsBilled, HasRow
<1>2. Inv /\ FreshInv /\ ReadInv /\ PlanIsBilled /\ [Next]_vars => ReadInv' /\ PlanIsBilled'
  <2> SUFFICES ASSUME Inv, FreshInv, ReadInv, PlanIsBilled, [Next]_vars
               PROVE  ReadInv' /\ PlanIsBilled'
    OBVIOUS
  <2> USE BillingAssumption
  <2>t. TypeOK /\ Kept /\ NamedInv /\ RequestInv
    BY StepKeeps DEF Inv
  \* What a request reads for does not change while the request goes on.
  <2>k. \A r \in Requests : request[r] # None =>
          /\ request[r] \in Request /\ remote[request[r].sub] # None
          /\ remote[request[r].sub].tenant \in Tenants
          /\ remote'[request[r].sub].tenant = remote[request[r].sub].tenant
    BY <2>t DEF TypeOK, RequestInv, Kept, Request, Remote
  <2>p. \A t \in Tenants : row[t] # None =>
          remote'[row[t].sub].plan = remote[row[t].sub].plan
    BY <2>t DEF TypeOK, NamedInv, Kept, Row
  <2>1. ASSUME row' = row, request' = request, raced' = raced PROVE ReadInv' /\ PlanIsBilled'
    BY <2>1, <2>k, <2>p DEF ReadInv, Reading, At, PlanIsBilled, HasRow
  <2>2. ASSUME NEW r \in Requests, NEW t \in Tenants, NEW p \in Plans, NEW s \in Subs,
               CreateRemote(r, t, p, s)
        PROVE  ReadInv' /\ PlanIsBilled'
    <3>1. /\ row' = row /\ raced' = raced
          /\ request' = [request EXCEPT ![r] = [sub |-> s, pc |-> "created", seen |-> None]]
      BY <2>2 DEF CreateRemote
    <3>2. \A q \in Requests, u \in Tenants :
            Reading(q, u)' => q # r /\ Reading(q, u) /\ request'[q] = request[q]
      BY <3>1, <2>t, <2>k DEF Reading, At, TypeOK
    <3>3. ReadInv'
      BY <3>1, <3>2 DEF ReadInv
    <3>4. PlanIsBilled'
      BY <3>1, <2>p DEF PlanIsBilled, HasRow
    <3> QED
      BY <3>3, <3>4
  <2>3. ASSUME NEW r \in Requests, LoadRow(r) PROVE ReadInv' /\ PlanIsBilled'
    <3> DEFINE t == remote[request[r].sub].tenant
    <3>1. /\ At(r, "created") /\ row' = row /\ remote' = remote
          /\ request' = [request EXCEPT ![r].pc = "loaded", ![r].seen = row[t]]
          /\ raced' = IF \E q \in Requests : Reading(q, t) THEN raced \cup {t} ELSE raced
      BY <2>3 DEF LoadRow
    <3>2. \A q \in Requests, u \in Tenants : q # r /\ Reading(q, u)' =>
            Reading(q, u) /\ request'[q] = request[q]
      BY <3>1, <2>t DEF Reading, At, TypeOK
    <3>3. \A u \in Tenants : Reading(r, u)' => u = t /\ request'[r].seen = row[t]
      BY <3>1, <2>k, <2>t DEF Reading, At, TypeOK, Request
    <3>4. ReadInv'
      <4> SUFFICES ASSUME NEW u \in Tenants, u \notin raced'
                   PROVE  /\ \A q, w \in Requests : Reading(q, u)' /\ Reading(w, u)' => q = w
                          /\ \A q \in Requests : Reading(q, u)' /\ request'[q].seen # None =>
                               row[u] # None /\ row[u].plan = request'[q].seen.plan
        BY <3>1 DEF ReadInv
      <4>1. u \notin raced /\ (u = t => \A q \in Requests : ~Reading(q, u))
        BY <3>1
      <4> QED
        BY <3>2, <3>3, <4>1 DEF ReadInv
    <3>5. PlanIsBilled'
      BY <3>1 DEF PlanIsBilled, HasRow
    <3> QED
      BY <3>4, <3>5
  <2>4. ASSUME NEW r \in Requests, Commit(r) PROVE ReadInv' /\ PlanIsBilled'
    <3> DEFINE s == request[r].sub
               t == remote[s].tenant
               new == SubscribedRow(row[t], request[r].seen, s)
    <3>1. /\ request[r] \in Request /\ s \in Subs /\ t \in Tenants /\ Reading(r, t)
      BY <2>4, <2>k DEF Commit, At, Request, Reading
    <3>2. /\ row' = row \/ row' = [row EXCEPT ![t] = new]
          /\ request' = [request EXCEPT ![r] = None]
          /\ remote' = remote /\ raced' = raced
      BY <2>4 DEF Commit
    <3>3. t \notin raced => new.plan = remote[s].plan /\ new.sub = s
      <4>1. CASE request[r].seen = None
        BY <4>1 DEF SubscribedRow
      <4>2. CASE request[r].seen # None /\ t \notin raced
        <5>1. row[t] \in Row /\ row[t].plan = request[r].seen.plan /\ request[r].seen.sub # s
          BY <2>t, <3>1, <4>2 DEF ReadInv, FreshInv, TypeOK
        <5> QED
          BY <4>2, <5>1 DEF SubscribedRow, Written, Row
      <4> QED
        BY <4>1, <4>2
    <3>4. \A q \in Requests, u \in Tenants :
            Reading(q, u)' => q # r /\ Reading(q, u) /\ request'[q] = request[q]
      BY <3>2, <2>t DEF Reading, At, TypeOK
    <3> HIDE DEF new, s, t
    <3>5. ReadInv'
      BY <2>t, <3>1, <3>2, <3>4 DEF ReadInv, TypeOK
    <3>6. PlanIsBilled'
      BY <2>t, <3>1, <3>2, <3>3 DEF PlanIsBilled, HasRow, TypeOK
    <3> QED
      BY <3>5, <3>6
  <2>5. ASSUME NEW r \in Requests, SubscribeFails(r) PROVE ReadInv' /\ PlanIsBilled'
    <3>1. /\ row' = row /\ raced' = raced /\ remote' = remote
          /\ request' = [request EXCEPT ![r] = None]
      BY <2>5 DEF SubscribeFails
    <3>2. \A q \in Requests, u \in Tenants :
            Reading(q, u)' => Reading(q, u) /\ request'[q] = request[q]
      BY <3>1, <2>t DEF Reading, At, TypeOK
    <3> QED
      BY <3>1, <3>2 DEF ReadInv, PlanIsBilled, HasRow
  <2>6. CASE HookCommits
    <3>1. /\ UNCHANGED <<remote, request, raced>>
          /\ \A t \in Tenants :
               /\ row[t] # None => row'[t] # None
               /\ row'[t] # None => /\ row[t] # None
                                    /\ row'[t].sub = row[t].sub /\ row'[t].plan = row[t].plan
      <4>1. UNCHANGED <<remote, request, raced>>
        BY <2>6 DEF HookCommits
      <4>2. \A t \in Tenants : row'[t] = row[t] \/ Notified(t)
        BY <2>6, <2>t DEF HookCommits, Notified, TypeOK
      <4>3. ASSUME NEW t \in Tenants, Notified(t)
            PROVE  /\ row[t] # None /\ row'[t] # None
                   /\ row'[t].sub = row[t].sub /\ row'[t].plan = row[t].plan
        <5>1. row[t] # None /\ row'[t] # None /\ row[t] \in Row
          BY <2>t, <4>3, WrittenRows DEF TypeOK
        <5> QED
          BY <4>3, <5>1 DEF Notified, EventRow, Row
      <4> QED
        BY <4>1, <4>2, <4>3
    <3>2. ReadInv'
      BY <3>1 DEF ReadInv, Reading, At
    <3>3. PlanIsBilled'
      BY <3>1 DEF PlanIsBilled, HasRow
    <3> QED
      BY <3>2, <3>3
  <2>7. ASSUME NEW s \in Subs, RazorpayStep(s)
        PROVE  row' = row /\ request' = request /\ raced' = raced
    BY <2>7 DEF RazorpayStep, Authenticate, Activate, Charge, Cancel
  <2>8. ASSUME NEW e \in sent, HookIgnored(e) \/ HookReads(e)
        PROVE  row' = row /\ request' = request /\ raced' = raced
    BY <2>8 DEF HookIgnored, HookReads, vars
  <2>9. CASE HookFails \/ UNCHANGED vars
    BY <2>1, <2>9 DEF HookFails, vars
  <2> QED
    BY <2>1, <2>2, <2>3, <2>4, <2>5, <2>6, <2>7, <2>8, <2>9 DEF Next, SubscribeStep, WebhookStep
<1> QED
  BY <1>1, <1>2, Invariant, SubsAreFresh, PTL DEF Spec
=============================================================================
