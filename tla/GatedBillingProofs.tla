------------------------- MODULE GatedBillingProofs -------------------------
(***************************************************************************)
(* Proofs about GatedBilling, for any tenants, plans, lengths, quotas and  *)
(* numbers of charges: the period of the latest charge does not exceed the *)
(* quota, however far the subscriptions row lags behind Razorpay.          *)
(*                                                                         *)
(* Two facts make the bound inductive.  The window of an active tenant     *)
(* starts no later than the latest charge, since the date it is taken from *)
(* is that of some charge of the tenant (WindowReachesBack); and the rows  *)
(* of the day are within a limit too, because the next charge may begin    *)
(* its period on a day that has uploads already (BoundInv).                *)
(***************************************************************************)
EXTENDS GatedBilling, SubscriptionBillingProofs, FiniteSetTheorems

(***************************************************************************)
(* The composition and its parts.                                          *)
(***************************************************************************)

\* The clock and the gate disturb nothing of the subscriptions.
THEOREM GatedImplementsBilling == GatedSpec => Spec
PROOF
<1>1. GatedInit => Init
  BY DEF GatedInit
<1>2. [GatedNext]_<<vars, gateVars>> => [Next]_vars
  BY DEF GatedNext, Renew, Upload, Tick, Next, RazorpayStep, gateVars
<1> QED
  BY <1>1, <1>2, PTL DEF GatedSpec, Spec

(***************************************************************************)
(* Days, and what a row can hold.                                          *)
(***************************************************************************)
DayInv ==
  /\ now \in Nat
  /\ chargedOn \in [Charges -> Nat]
  /\ \A c \in Charges : chargedOn[c] <= now
  /\ created \in [Tenants -> Seq(Nat)]
  /\ \A t \in Tenants : \A i \in DOMAIN created[t] : created[t][i] <= now

\* An announced end is that of a charge.
ChargeInv ==
  /\ \A s \in Subs : remote[s] # None => remote[s].charges <= MaxCharges
  /\ \A e \in sent : e.end # None =>
       /\ e.end \in Charges
       /\ remote[e.end[1]] # None /\ e.end[2] <= remote[e.end[1]].charges

\* A row's plan is that of a subscription of its tenant, not always of the one it names.
PlanInv ==
  \A t \in Tenants : row[t] # None => \E s \in SubsOf(t) : remote[s].plan = row[t].plan

\* Without a charge, no subscription counts one more, and a new one has none.
LEMMA Uncharged ==
  ASSUME TypeOK,
         \/ UNCHANGED vars
         \/ \E s \in Subs : Authenticate(s) \/ Activate(s) \/ Cancel(s)
         \/ \E r \in Requests : SubscribeStep(r)
         \/ WebhookStep
  PROVE  /\ \A s \in Subs : remote'[s] # None =>
              remote'[s].charges = IF remote[s] # None THEN remote[s].charges ELSE 0
         /\ \A e \in sent' \ sent : e.end = None
PROOF
<1> USE BillingAssumption DEF TypeOK, InState, Send, Remote
<1>1. ASSUME NEW s \in Subs, Authenticate(s) \/ Activate(s) \/ Cancel(s)
      PROVE  /\ \A q \in Subs : remote'[q] # None =>
                  remote'[q].charges = IF remote[q] # None THEN remote[q].charges ELSE 0
             /\ \A e \in sent' \ sent : e.end = None
  BY <1>1 DEF Authenticate, Activate, Cancel
<1>2. ASSUME NEW r \in Requests, NEW t \in Tenants, NEW p \in Plans, NEW s \in Subs,
             CreateRemote(r, t, p, s)
      PROVE  /\ \A q \in Subs : remote'[q] # None =>
                  remote'[q].charges = IF remote[q] # None THEN remote[q].charges ELSE 0
             /\ sent' = sent
  BY <1>2 DEF CreateRemote
<1>3. ASSUME NEW r \in Requests, LoadRow(r) \/ Commit(r) \/ SubscribeFails(r)
      PROVE  UNCHANGED <<remote, sent>>
  BY <1>3 DEF LoadRow, Commit, SubscribeFails
<1>4. WebhookStep \/ UNCHANGED vars => UNCHANGED <<remote, sent>>
  BY DEF WebhookStep, HookIgnored, HookReads, HookCommits, HookFails, vars
<1>5. UNCHANGED <<remote, sent>> =>
        /\ \A q \in Subs : remote'[q] # None =>
             remote'[q].charges = IF remote[q] # None THEN remote[q].charges ELSE 0
        /\ \A e \in sent' \ sent : e.end = None
  OBVIOUS
<1> QED
  BY <1>1, <1>2, <1>3, <1>4, <1>5 DEF SubscribeStep

\* Days never lie ahead.
LEMMA DayStep ==
  ASSUME DayInv, [GatedNext]_<<vars, gateVars>>
  PROVE  DayInv'
PROOF
<1> USE DEF DayInv
<1>1. ASSUME NEW s \in Subs, Renew(s) PROVE DayInv'
  <2>1. /\ chargedOn' = [chargedOn EXCEPT ![<<s, remote[s].charges + 1>>] = now]
        /\ UNCHANGED <<now, created>>
    BY <1>1 DEF Renew
  <2>2. \A c \in Charges : chargedOn'[c] \in {chargedOn[c], now}
    BY <2>1
  <2>3. chargedOn' \in [Charges -> Nat]
    BY <2>1
  <2> QED
    BY <2>1, <2>2, <2>3
<1>2. ASSUME NEW t \in Tenants, Upload(t) PROVE DayInv'
  <2>1. /\ created' = [created EXCEPT ![t] = Append(@, now)]
        /\ UNCHANGED <<now, chargedOn>>
    BY <1>2 DEF Upload
  <2>2. created' \in [Tenants -> Seq(Nat)]
    BY <2>1
  <2>3. \A u \in Tenants : \A i \in DOMAIN created'[u] : created'[u][i] <= now
    <3> SUFFICES ASSUME NEW u \in Tenants, NEW i \in DOMAIN created'[u]
                 PROVE  created'[u][i] <= now
      OBVIOUS
    <3>1. CASE u = t
      <4>1. created[t] \in Seq(Nat) /\ created'[t] = Append(created[t], now)
        BY <2>1
      <4>2. i \in 1..Len(created[t]) + 1
        BY <3>1, <4>1
      <4> QED
        BY <3>1, <4>1, <4>2
    <3>2. CASE u # t
      BY <2>1, <3>2
    <3> QED
      BY <3>1, <3>2
  <2> QED
    BY <2>1, <2>2, <2>3
<1>3. CASE Tick
  BY <1>3 DEF Tick
<1>4. UNCHANGED gateVars => DayInv'
  BY DEF gateVars
<1> QED
  BY <1>1, <1>2, <1>3, <1>4 DEF GatedNext

\* The charge that Renew adds is the next one, and within the bound.
LEMMA RenewCounts ==
  ASSUME TypeOK, NEW s \in Subs, Renew(s)
  PROVE  /\ remote[s] \in Remote /\ remote'[s] = [remote[s] EXCEPT !.charges = @ + 1]
         /\ \A q \in Subs \ {s} : remote'[q] = remote[q]
         /\ remote[s].charges \in Nat /\ remote[s].charges + 1 <= MaxCharges
         /\ remote'[s] # None /\ remote'[s].charges = remote[s].charges + 1
         /\ \A e \in sent' \ sent : e.end \in {None, <<s, remote[s].charges + 1>>}
PROOF
<1> USE BillingAssumption DEF TypeOK
<1>1. /\ remote[s] \in Remote /\ remote[s].charges < MaxCharges
      /\ remote' = [remote EXCEPT ![s].charges = @ + 1]
      /\ \A e \in sent' \ sent : e.end \in {None, <<s, remote[s].charges + 1>>}
  BY DEF Renew, Charge, InState, Send
<1>2. remote[s].charges \in Nat
  BY <1>1 DEF Remote
<1>3. /\ remote'[s] = [remote[s] EXCEPT !.charges = @ + 1]
      /\ \A q \in Subs \ {s} : remote'[q] = remote[q]
  BY <1>1
<1>4. remote'[s] \in Remote /\ remote'[s].charges = remote[s].charges + 1
  BY <1>1, <1>2, <1>3 DEF Remote
<1> QED
  BY <1>1, <1>2, <1>3, <1>4

\* A step of the gated system charges by Renew, or not at all.
LEMMA ChargeStep ==
  ASSUME TypeOK, ChargeInv, [GatedNext]_<<vars, gateVars>>
  PROVE  ChargeInv'
PROOF
<1> USE BillingAssumption
<1>k. Kept /\ [Next]_vars
  BY StepKeeps DEF GatedNext, Renew, Upload, Tick, Next, RazorpayStep, gateVars
<1>e. \A e \in sent : e.end # None =>
        e.end \in Charges /\ e.end[1] \in Subs /\ remote[e.end[1]] \in Remote
  BY DEF ChargeInv, Charges, TypeOK
<1>1. ASSUME NEW s \in Subs, Renew(s) PROVE ChargeInv'
  <2>1. /\ \A q \in Subs \ {s} : remote'[q] = remote[q]
        /\ remote[s] # None /\ remote[s].charges \in Nat /\ remote[s].charges + 1 <= MaxCharges
        /\ remote'[s] # None /\ remote'[s].charges = remote[s].charges + 1
        /\ \A e \in sent' \ sent : e.end \in {None, <<s, remote[s].charges + 1>>}
    BY <1>1, RenewCounts
  <2>2. \A q \in Subs : remote'[q] # None => remote'[q].charges <= MaxCharges
    BY <2>1 DEF ChargeInv
  <2>3. ASSUME NEW e \in sent', e.end # None
        PROVE  /\ e.end \in Charges
               /\ remote'[e.end[1]] # None /\ e.end[2] <= remote'[e.end[1]].charges
    <3>1. CASE e \in sent
      <4>1. /\ e.end \in Charges /\ e.end[1] \in Subs /\ e.end[2] \in Nat
            /\ remote[e.end[1]] # None /\ e.end[2] <= remote[e.end[1]].charges
        BY <3>1, <2>3 DEF ChargeInv, Charges
      <4> QED
        BY <4>1, <2>1
    <3>2. CASE e \notin sent
      <4>1. e.end = <<s, remote[s].charges + 1>>
        BY <3>2, <2>3, <2>1
      <4> QED
        BY <4>1, <2>1 DEF Charges
    <3> QED
      BY <3>1, <3>2
  <2> QED
    BY <2>2, <2>3 DEF ChargeInv
<1>2. ASSUME \A s \in Subs : ~Renew(s) PROVE ChargeInv'
  <2>1. \/ UNCHANGED vars
        \/ \E s \in Subs : Authenticate(s) \/ Activate(s) \/ Cancel(s)
        \/ \E r \in Requests : SubscribeStep(r)
        \/ WebhookStep
    BY <1>2 DEF GatedNext, Upload, Tick
  <2>2. /\ \A s \in Subs : remote'[s] # None =>
              remote'[s].charges = IF remote[s] # None THEN remote[s].charges ELSE 0
        /\ \A e \in sent' \ sent : e.end = None
    BY <2>1, Uncharged
  <2>3. \A s \in Subs : remote'[s] # None => remote'[s].charges <= MaxCharges
    BY <2>2 DEF ChargeInv
  <2>4. ASSUME NEW e \in sent', e.end # None
        PROVE  /\ e.end \in Charges
               /\ remote'[e.end[1]] # None /\ e.end[2] <= remote'[e.end[1]].charges
    <3>1. e \in sent
      BY <2>2, <2>4
    <3>2. e.end[1] \in Subs /\ remote[e.end[1]] # None /\ e.end[2] <= remote[e.end[1]].charges
      BY <3>1, <2>4, <1>e DEF ChargeInv
    <3>3. remote'[e.end[1]] # None
      BY <3>2, <1>k DEF Kept
    <3> QED
      BY <3>1, <3>2, <3>3, <2>2, <2>4, <1>e
  <2> QED
    BY <2>3, <2>4 DEF ChargeInv
<1> QED
  BY <1>1, <1>2

\* A row gets the plan of one of its tenant's subscriptions, or keeps the one it has.
LEMMA PlanStep ==
  ASSUME Inv, PlanInv, [Next]_vars
  PROVE  PlanInv'
PROOF
<1> SUFFICES ASSUME NEW t \in Tenants, row'[t] # None
             PROVE  \E s \in SubsOf(t)' : remote'[s].plan = row'[t].plan
  BY DEF PlanInv
<1> USE BillingAssumption
<1>t. TypeOK /\ Kept
  BY StepKeeps DEF Inv
<1>1. \A s \in SubsOf(t) : s \in SubsOf(t)' /\ remote'[s].plan = remote[s].plan
  BY <1>t DEF SubsOf, Kept
<1>2. CASE row'[t] = row[t]
  BY <1>1, <1>2 DEF PlanInv
<1>3. CASE Subscribed(t)
  <2>1. PICK r \in Requests :
          /\ request[r] # None /\ t = remote[request[r].sub].tenant
          /\ request[r].seen = None => row[t] = None
          /\ row'[t] = SubscribedRow(row[t], request[r].seen, request[r].sub)
    BY <1>3 DEF Subscribed
  <2>2. request[r] \in Request /\ request[r].sub \in SubsOf(t)
    BY <2>1, <1>t DEF Inv, TypeOK, RequestInv, Request, SubsOf
  <2>3. CASE request[r].seen = None
    BY <2>1, <2>2, <2>3, <1>1 DEF SubscribedRow
  <2>4. CASE request[r].seen # None
    <3>1. row[t] \in Row /\ row[t] # None
      BY <2>1, <2>4 DEF Inv, TypeOK, RequestInv
    <3>2. row'[t].plan \in {row[t].plan, remote[request[r].sub].plan}
      BY <2>1, <2>4, <3>1 DEF SubscribedRow, Written, Row
    <3> QED
      BY <2>2, <3>1, <3>2, <1>1 DEF PlanInv
  <2> QED
    BY <2>3, <2>4
<1>4. CASE Notified(t)
  <2>1. row[t] # None /\ row[t] \in Row
    BY <1>4, WrittenRows DEF Inv, TypeOK
  <2>2. row'[t].plan = row[t].plan
    BY <1>4, <2>1 DEF Notified, EventRow, Row
  <2> QED
    BY <2>1, <2>2, <1>1 DEF PlanInv
<1> QED
  BY <1>2, <1>3, <1>4, <1>t, RowChanges

(***************************************************************************)
(* What a tenant pays for only grows: a step adds subscriptions and with   *)
(* them limits, and what covers the periods afterwards covered them before.*)
(***************************************************************************)
LEMMA BillsGrow ==
  ASSUME Kept, NEW t \in Tenants
  PROVE  /\ \A s \in SubsOf(t) : s \in SubsOf(t)' /\ remote'[s].plan = remote[s].plan
         /\ WindowsCoverPeriods(t)' => WindowsCoverPeriods(t)
         /\ Limits(t) \subseteq Limits(t)'
PROOF
<1>1. \A s \in SubsOf(t) : s \in SubsOf(t)' /\ remote'[s].plan = remote[s].plan
  BY DEF SubsOf, Kept
<1>2. WindowsCoverPeriods(t)' => WindowsCoverPeriods(t)
  BY <1>1 DEF WindowsCoverPeriods
<1>3. Limits(t) \subseteq Limits(t)'
  BY <1>1 DEF Limits
<1> QED
  BY <1>1, <1>2, <1>3

(***************************************************************************)
(* Where the gate counts from.                                             *)
(***************************************************************************)
Latest(t, c) ==
  c \in ChargesOf(t) /\ \A b \in ChargesOf(t) : chargedOn[b] <= chargedOn[c]

\* The window of an active tenant has begun, and if the period of the latest charge
\* goes on, it covers that period so far: also when it is taken from the date of an
\* earlier charge, of another subscription, or from today for want of a date.
LEMMA WindowReachesBack ==
  ASSUME Inv, RowIsTheTenants, DayInv, ChargeInv, PlanInv,
         NEW t \in Tenants, Active(t), WindowsCoverPeriods(t)
  PROVE  /\ current_period_start(t) \in Int /\ current_period_start(t) <= now
         /\ \A c \in Charges : Latest(t, c) /\ now < PeriodEnd(c) =>
              current_period_start(t) <= chargedOn[c]
         /\ Quota[row[t].plan] \in Limits(t) \cap Nat
PROOF
<1> USE BillingAssumption, GateAssumption
<1>1. /\ row[t] \in Row /\ row[t] # None /\ row[t].plan \in Plans
  BY DEF Active, Inv, TypeOK, Row
<1>2. PICK q \in SubsOf(t) : remote[q].plan = row[t].plan
  BY <1>1 DEF PlanInv
<1>3. \A s \in SubsOf(t) : /\ remote[s].plan \in Plans
                           /\ Period[remote[s].plan] \in Nat \ {0}
                           /\ Period[remote[s].plan] <= Window[row[t].plan]
  BY <1>2 DEF WindowsCoverPeriods, SubsOf, Inv, TypeOK, Remote
<1>4. Window[row[t].plan] \in Nat \ {0}
  BY <1>1
<1>5. \A c \in Charges : Latest(t, c) =>
        /\ PeriodEnd(c) = chargedOn[c] + Period[remote[c[1]].plan]
        /\ c[1] \in SubsOf(t) /\ chargedOn[c] \in Nat
  BY DEF Latest, ChargesOf, PeriodEnd, DayInv
<1>8. Quota[row[t].plan] \in Limits(t) \cap Nat
  BY <1>1, <1>2 DEF Limits
<1>6. CASE row[t].end = None
  <2>1. current_period_start(t) = now - Window[row[t].plan]
    BY <1>6 DEF current_period_start
  <2>2. now \in Nat
    BY DEF DayInv
  <2>3. current_period_start(t) \in Int /\ current_period_start(t) <= now
    BY <2>1, <2>2, <1>4
  <2>4. ASSUME NEW c \in Charges, Latest(t, c), now < PeriodEnd(c)
        PROVE  current_period_start(t) <= chargedOn[c]
    BY <2>1, <2>2, <2>4, <1>3, <1>4, <1>5
  <2> QED
    BY <2>3, <2>4, <1>8
<1>7. CASE row[t].end # None
  <2> DEFINE e == row[t].end
  <2>1. e \in ChargesOf(t)
    <3>1. /\ [sub |-> e[1], type |-> "charged", end |-> e] \in sent
          /\ remote[e[1]].tenant = t
      BY <1>1, <1>7 DEF RowIsTheTenants, HasRow
    <3> QED
      BY <3>1, <1>7 DEF ChargeInv, ChargesOf, SubsOf, Charges
  <2>2. /\ e \in Charges /\ e[1] \in SubsOf(t)
        /\ chargedOn[e] \in Nat /\ chargedOn[e] <= now
    BY <2>1 DEF ChargesOf, DayInv
  <2>3. current_period_start(t) = chargedOn[e] + Period[remote[e[1]].plan] - Window[row[t].plan]
    BY <1>7, <2>2, <1>3, <1>4 DEF current_period_start, PeriodEnd
  <2>4. current_period_start(t) \in Int /\ current_period_start(t) <= chargedOn[e]
    BY <2>2, <2>3, <1>3, <1>4
  <2>5. \A c \in Charges : Latest(t, c) => chargedOn[e] <= chargedOn[c]
    BY <2>1 DEF Latest
  <2>6. current_period_start(t) <= now
    BY <2>2, <2>4 DEF DayInv
  <2>7. \A c \in Charges : Latest(t, c) => current_period_start(t) <= chargedOn[c]
    BY <2>2, <2>4, <2>5, <1>5
  <2> QED
    BY <2>4, <2>6, <2>7, <1>8
<1> QED
  BY <1>6, <1>7

(***************************************************************************)
(* Counting rows by their dates.                                           *)
(***************************************************************************)
Dated(dates, days) == {i \in DOMAIN dates : dates[i] \in days}

\* More days count no fewer rows, and all of them at most the whole.
LEMMA MoreDays ==
  ASSUME NEW dates \in Seq(Nat), NEW days, NEW more, days \cap Nat \subseteq more
  PROVE  /\ Cardinality(Dated(dates, days)) \in Nat
         /\ Cardinality(Dated(dates, days)) <= Cardinality(Dated(dates, more))
         /\ Cardinality(Dated(dates, more)) <= Len(dates)
PROOF
<1> DEFINE n == Len(dates)
<1>0. DOMAIN dates = 1..n /\ n \in Nat
  OBVIOUS
<1> HIDE DEF n
<1>1. IsFiniteSet(1..n) /\ Cardinality(1..n) = n
  BY <1>0, FS_Interval
<1>2. Dated(dates, more) \subseteq 1..n
  BY <1>0 DEF Dated
<1>3. Dated(dates, days) \subseteq Dated(dates, more)
  BY DEF Dated
<1>4. IsFiniteSet(Dated(dates, more)) /\ Cardinality(Dated(dates, more)) <= n
  BY <1>1, <1>2, FS_Subset
<1>5. /\ IsFiniteSet(Dated(dates, days))
      /\ Cardinality(Dated(dates, days)) <= Cardinality(Dated(dates, more))
  BY <1>3, <1>4, FS_Subset
<1> QED
  BY <1>4, <1>5, FS_CardinalityType DEF n

\* A new row counts once, if its day does.
LEMMA OneMoreRow ==
  ASSUME NEW dates \in Seq(Nat), NEW day \in Nat, NEW days
  PROVE  /\ Cardinality(Dated(Append(dates, day), days)) \in Nat
         /\ Cardinality(Dated(Append(dates, day), days)) <= Cardinality(Dated(dates, days)) + 1
         /\ day \notin days => Dated(Append(dates, day), days) = Dated(dates, days)
PROOF
<1> DEFINE more == Append(dates, day)
           last == Len(dates) + 1
<1>1. /\ Len(dates) \in Nat /\ DOMAIN dates = 1..Len(dates) /\ DOMAIN more = 1..last
      /\ more[last] = day /\ \A i \in 1..Len(dates) : more[i] = dates[i]
  OBVIOUS
<1>2. Dated(more, days) = Dated(dates, days) \cup (IF day \in days THEN {last} ELSE {})
  BY <1>1 DEF Dated
<1>3. last \notin Dated(dates, days)
  BY <1>1 DEF Dated
<1>4. IsFiniteSet(Dated(dates, days))
  <2>1. IsFiniteSet(1..Len(dates))
    BY <1>1, FS_Interval
  <2>2. Dated(dates, days) \subseteq 1..Len(dates)
    BY <1>1 DEF Dated
  <2> QED
    BY <2>1, <2>2, FS_Subset
<1>5. Cardinality(Dated(dates, days)) \in Nat
  BY <1>4, FS_CardinalityType
<1>6. Cardinality(Dated(dates, days) \cup {last}) = Cardinality(Dated(dates, days)) + 1
  BY <1>3, <1>4, FS_AddElement
<1> HIDE DEF more, last
<1>7. /\ Cardinality(Dated(more, days)) \in Nat
      /\ Cardinality(Dated(more, days)) <= Cardinality(Dated(dates, days)) + 1
      /\ day \notin days => Dated(more, days) = Dated(dates, days)
  <2>1. CASE day \in days
    <3>1. Cardinality(Dated(more, days)) = Cardinality(Dated(dates, days)) + 1
      BY <1>2, <1>6, <2>1
    <3> QED
      BY <1>5, <2>1, <3>1
  <2>2. CASE day \notin days
    <3>1. Dated(more, days) = Dated(dates, days)
      BY <1>2, <2>2
    <3> QED
      BY <1>5, <3>1
  <2> QED
    BY <2>1, <2>2
<1> QED
  BY <1>7 DEF more

(***************************************************************************)
(* The bound.                                                              *)
(***************************************************************************)
Within(t, n) == \E limit \in Limits(t) : n <= limit

Today   == {d \in Nat : d >= now}
Span(c) == chargedOn[c]..(PeriodEnd(c) - 1)

BoundInv ==
  \A t \in Tenants : WindowsCoverPeriods(t) =>
    /\ Within(t, Cardinality(Dated(created[t], Today)))
    /\ \A c \in Charges : Latest(t, c) => Within(t, Cardinality(Dated(created[t], Span(c))))

\* The gate counts at least the rows of any days it has begun to count by.
LEMMA UploadStaysWithin ==
  ASSUME Inv, DayInv, NEW t \in Tenants, Upload(t), NEW days,
         Active(t) => /\ current_period_start(t) \in Int
                      /\ \A d \in days : d >= current_period_start(t)
                      /\ Quota[row[t].plan] \in Limits(t) \cap Nat
  PROVE  Within(t, Cardinality(Dated(Append(created[t], now), days)))
PROOF
<1> USE BillingAssumption, GateAssumption
<1> DEFINE n == Cardinality(Dated(created[t], days))
<1>1. created[t] \in Seq(Nat) /\ now \in Nat
  BY DEF DayInv
<1>2. /\ n \in Nat /\ Cardinality(Dated(Append(created[t], now), days)) \in Nat
      /\ Cardinality(Dated(Append(created[t], now), days)) <= n + 1
  BY <1>1, OneMoreRow, MoreDays
<1>3. \E limit \in Limits(t) \cap Nat : n < limit
  <2>1. CASE Active(t)
    <3> DEFINE start == current_period_start(t)
               counted == {d \in Nat : d >= start}
    <3>1. count_candidates_this_period(t, start) = Cardinality(Dated(created[t], counted))
      <4>1. {i \in DOMAIN created[t] : created[t][i] >= start} = Dated(created[t], counted)
        BY <1>1 DEF Dated
      <4> QED
        BY <4>1 DEF count_candidates_this_period
    <3>2. n <= Cardinality(Dated(created[t], counted))
      BY <1>1, <2>1, MoreDays
    <3>3. Cardinality(Dated(created[t], counted)) \in Nat
      BY <1>1, MoreDays
    <3>4. Cardinality(Dated(created[t], counted)) < Quota[row[t].plan]
      BY <2>1, <3>1 DEF Upload, Admits
    <3> QED
      BY <1>2, <2>1, <3>2, <3>3, <3>4
  <2>2. CASE ~Active(t)
    <3>1. Len(created[t]) < FreeLimit
      BY <2>2 DEF Upload, Admits, count_all_time_candidates
    <3>2. n <= Len(created[t]) /\ Len(created[t]) \in Nat
      BY <1>1, MoreDays
    <3> QED
      BY <1>2, <3>1, <3>2 DEF Limits
  <2> QED
    BY <2>1, <2>2
<1> QED
  BY <1>2, <1>3 DEF Within

\* The bound outlives a step that leaves days, charges and rows alone.
LEMMA QuietStep ==
  ASSUME Inv, DayInv, Kept, BoundInv, UNCHANGED gateVars,
         \A s \in Subs : remote'[s] # None =>
           remote'[s].charges = IF remote[s] # None THEN remote[s].charges ELSE 0
  PROVE  BoundInv'
PROOF
<1> SUFFICES ASSUME NEW t \in Tenants, WindowsCoverPeriods(t)'
             PROVE  /\ Within(t, Cardinality(Dated(created[t], Today)))'
                    /\ \A c \in Charges : Latest(t, c)' =>
                         Within(t, Cardinality(Dated(created[t], Span(c))))'
  BY DEF BoundInv
<1>1. /\ \A s \in SubsOf(t) : s \in SubsOf(t)' /\ remote'[s].plan = remote[s].plan
      /\ WindowsCoverPeriods(t) /\ Limits(t) \subseteq Limits(t)'
  BY BillsGrow
<1>2. UNCHANGED <<now, chargedOn, created>>
  BY DEF gateVars
<1>3. \A n : Within(t, n) => \E limit \in Limits(t)' : n <= limit
  BY <1>1 DEF Within
<1>4. Today' = Today
  BY <1>2 DEF Today
<1>5. ASSUME NEW c \in Charges, Latest(t, c)'
      PROVE  Latest(t, c) /\ Span(c)' = Span(c)
  <2>1. \A b \in Charges : b \in ChargesOf(t)' <=> b \in ChargesOf(t)
    <3> SUFFICES ASSUME NEW b \in Charges
                 PROVE  b \in ChargesOf(t)' <=> b \in ChargesOf(t)
      OBVIOUS
    <3>1. b[1] \in Subs /\ b[2] \in Nat \ {0}
      BY DEF Charges
    <3>2. remote[b[1]] # None => /\ remote'[b[1]] # None
                                 /\ remote'[b[1]].tenant = remote[b[1]].tenant
                                 /\ remote'[b[1]].charges = remote[b[1]].charges
      BY <3>1 DEF Kept
    <3>3. remote[b[1]] = None /\ remote'[b[1]] # None => ~(b[2] <= remote'[b[1]].charges)
      BY <3>1
    <3> QED
      BY <3>1, <3>2, <3>3 DEF ChargesOf, SubsOf
  <2>2. c \in ChargesOf(t) /\ c[1] \in SubsOf(t)
    BY <2>1, <1>5 DEF Latest, ChargesOf
  <2>3. ChargesOf(t) \subseteq Charges
    BY DEF ChargesOf
  <2>4. Latest(t, c)
    BY <1>2, <1>5, <2>1, <2>2, <2>3 DEF Latest
  <2>5. PeriodEnd(c)' = PeriodEnd(c)
    BY <1>1, <1>2, <2>2 DEF PeriodEnd
  <2> QED
    BY <1>2, <2>4, <2>5 DEF Span
<1> QED
  BY <1>1, <1>2, <1>3, <1>4, <1>5 DEF BoundInv, Within

\* An upload keeps its tenant within the bound, and leaves the others'.
LEMMA UploadStep ==
  ASSUME Inv, RowIsTheTenants, DayInv, ChargeInv, PlanInv, BoundInv,
         NEW u \in Tenants, Upload(u)
  PROVE  BoundInv'
PROOF
<1> USE BillingAssumption, GateAssumption
<1>1. /\ created' = [created EXCEPT ![u] = Append(@, now)]
      /\ UNCHANGED <<vars, now, chargedOn>>
  BY DEF Upload
<1>2. created[u] \in Seq(Nat) /\ now \in Nat /\ created'[u] = Append(created[u], now)
      /\ \A t \in Tenants \ {u} : created'[t] = created[t]
  BY <1>1 DEF DayInv
<1>3. ASSUME NEW t \in Tenants
      PROVE  /\ WindowsCoverPeriods(t)' <=> WindowsCoverPeriods(t)
             /\ Limits(t)' = Limits(t)
             /\ \A c \in Charges : Latest(t, c)' <=> Latest(t, c)
             /\ \A c \in Charges : Span(c)' = Span(c)
  BY <1>1 DEF vars, WindowsCoverPeriods, Limits, SubsOf, Latest, ChargesOf, Span, PeriodEnd
<1>4. Today' = Today
  BY <1>1 DEF Today
<1>5. ASSUME NEW t \in Tenants \ {u}, WindowsCoverPeriods(t)
      PROVE  /\ Within(t, Cardinality(Dated(created'[t], Today)))
             /\ \A c \in Charges : Latest(t, c) =>
                  Within(t, Cardinality(Dated(created'[t], Span(c))))
  BY <1>2, <1>5 DEF BoundInv
<1>6. ASSUME WindowsCoverPeriods(u)
      PROVE  /\ Within(u, Cardinality(Dated(created'[u], Today)))
             /\ \A c \in Charges : Latest(u, c) =>
                  Within(u, Cardinality(Dated(created'[u], Span(c))))
  <2>1. Active(u) => /\ current_period_start(u) \in Int
                     /\ current_period_start(u) <= now
                     /\ \A c \in Charges : Latest(u, c) /\ now < PeriodEnd(c) =>
                          current_period_start(u) <= chargedOn[c]
                     /\ Quota[row[u].plan] \in Limits(u) \cap Nat
    BY <1>6, WindowReachesBack
  <2>2. Within(u, Cardinality(Dated(created'[u], Today)))
    <3>1. \A d \in Today : d \in Nat /\ d >= now
      BY DEF Today
    <3>2. Active(u) => \A d \in Today : d >= current_period_start(u)
      BY <1>2, <2>1, <3>1
    <3> QED
      BY <1>2, <2>1, <3>2, UploadStaysWithin
  <2>3. ASSUME NEW c \in Charges, Latest(u, c)
        PROVE  Within(u, Cardinality(Dated(created'[u], Span(c))))
    <3>1. chargedOn[c] \in Nat /\ PeriodEnd(c) \in Int
      BY <2>3 DEF DayInv, Latest, ChargesOf, SubsOf, PeriodEnd, Inv, TypeOK, Remote
    <3>2. CASE now < PeriodEnd(c)
      <4>1. \A d \in Span(c) : d \in Int /\ d >= chargedOn[c]
        BY <3>1 DEF Span
      <4>2. Active(u) => \A d \in Span(c) : d >= current_period_start(u)
        BY <2>1, <2>3, <3>1, <3>2, <4>1
      <4> QED
        BY <1>2, <2>1, <4>2, UploadStaysWithin
    <3>3. CASE ~(now < PeriodEnd(c))
      <4>1. now \notin Span(c)
        BY <1>2, <3>1, <3>3 DEF Span
      <4>2. Dated(created'[u], Span(c)) = Dated(created[u], Span(c))
        BY <1>2, <4>1, OneMoreRow
      <4> QED
        BY <1>6, <2>3, <4>2 DEF BoundInv
    <3> QED
      BY <3>2, <3>3
  <2> QED
    BY <2>2, <2>3
<1> QED
  BY <1>3, <1>4, <1>5, <1>6 DEF BoundInv, Within

\* A day begins without rows, and days that begin a period stay what they are.
LEMMA TickStep ==
  ASSUME DayInv, BoundInv, Tick
  PROVE  BoundInv'
PROOF
<1> USE GateAssumption
<1>1. now' = now + 1 /\ now \in Nat /\ UNCHANGED <<vars, chargedOn, created>>
  BY DEF Tick, DayInv
<1>2. ASSUME NEW t \in Tenants
      PROVE  /\ WindowsCoverPeriods(t)' <=> WindowsCoverPeriods(t)
             /\ Limits(t)' = Limits(t)
             /\ \A c \in Charges : Latest(t, c)' <=> Latest(t, c)
             /\ \A c \in Charges : Span(c)' = Span(c)
  BY <1>1 DEF vars, WindowsCoverPeriods, Limits, SubsOf, Latest, ChargesOf, Span, PeriodEnd
<1>3. ASSUME NEW t \in Tenants
      PROVE  Within(t, Cardinality(Dated(created[t], Today')))
  <2>1. Dated(created[t], Today') = {}
    BY <1>1 DEF Dated, Today, DayInv
  <2>2. Cardinality(Dated(created[t], Today')) = 0
    BY <2>1, FS_EmptySet
  <2> QED
    BY <2>2 DEF Within, Limits
<1> QED
  BY <1>1, <1>2, <1>3 DEF BoundInv, Within

\* A charge is the latest from then on, and its period has the rows of today. One that
\* was charged today before it has the same; an older one is the latest no more.
LEMMA RenewStep ==
  ASSUME Inv, DayInv, ChargeInv, Kept, BoundInv, NEW s \in Subs, Renew(s)
  PROVE  BoundInv'
PROOF
<1> USE BillingAssumption, GateAssumption
<1> DEFINE k == <<s, remote[s].charges + 1>>
<1>1. /\ \A q \in Subs \ {s} : remote'[q] = remote[q]
      /\ remote[s] \in Remote /\ remote[s] # None
      /\ remote[s].charges \in Nat /\ remote[s].charges + 1 <= MaxCharges
      /\ remote'[s] # None /\ remote'[s].charges = remote[s].charges + 1
  BY RenewCounts DEF Inv
<1>2. /\ chargedOn' = [chargedOn EXCEPT ![k] = now]
      /\ UNCHANGED <<now, created>>
  BY DEF Renew
<1>3. k \in Charges /\ k[1] = s /\ k[2] = remote[s].charges + 1
  BY <1>1 DEF Charges
<1> HIDE DEF k
<1>4. /\ chargedOn'[k] = now /\ \A c \in Charges \ {k} : chargedOn'[c] = chargedOn[c]
      /\ \A c \in Charges : chargedOn[c] \in Nat /\ chargedOn[c] <= now
      /\ now \in Nat /\ \A t \in Tenants : created[t] \in Seq(Nat)
  BY <1>2, <1>3 DEF DayInv
<1> SUFFICES ASSUME NEW t \in Tenants, WindowsCoverPeriods(t)'
             PROVE  /\ Within(t, Cardinality(Dated(created[t], Today)))'
                    /\ \A c \in Charges : Latest(t, c)' =>
                         Within(t, Cardinality(Dated(created[t], Span(c))))'
  BY DEF BoundInv
<1>5. /\ \A q \in SubsOf(t) : q \in SubsOf(t)' /\ remote'[q].plan = remote[q].plan
      /\ WindowsCoverPeriods(t) /\ Limits(t) \subseteq Limits(t)'
  BY BillsGrow
<1>6. SubsOf(t)' = SubsOf(t)
  BY <1>1, <1>5 DEF SubsOf, Kept
<1>7. Within(t, Cardinality(Dated(created[t], Today))) /\ Today' = Today
  BY <1>2, <1>5 DEF BoundInv, Today
<1>8. \A n : Within(t, n) => Within(t, n)'
  BY <1>5 DEF Within
<1>9. Within(t, Cardinality(Dated(created[t], Today)))'
  BY <1>2, <1>7, <1>8
<1>10. ASSUME NEW c \in Charges, Latest(t, c)'
       PROVE  Within(t, Cardinality(Dated(created[t], Span(c))))'
  <2>1. CASE chargedOn'[c] = now
    <3>1. Span(c)' \cap Nat \subseteq Today
      <4>1. PeriodEnd(c)' \in Int
        <5>1. c[1] \in SubsOf(t)
          BY <1>6, <1>10 DEF Latest, ChargesOf
        <5>2. remote'[c[1]].plan \in Plans
          BY <5>1, <1>5 DEF SubsOf, Inv, TypeOK, Remote
        <5> QED
          BY <2>1, <1>4, <5>2 DEF PeriodEnd
      <4> QED
        BY <2>1, <1>4, <4>1 DEF Span, Today
    <3>2. /\ Cardinality(Dated(created[t], Span(c)')) \in Nat
          /\ Cardinality(Dated(created[t], Today)) \in Nat
          /\ Cardinality(Dated(created[t], Span(c)')) <= Cardinality(Dated(created[t], Today))
      BY <1>4, <3>1, MoreDays
    <3>3. \A limit \in Limits(t) : limit \in Int
      BY DEF Limits, SubsOf, Inv, TypeOK, Remote
    <3>4. Within(t, Cardinality(Dated(created[t], Span(c)')))
      BY <1>7, <3>2, <3>3 DEF Within
    <3> QED
      BY <1>2, <1>8, <3>4 DEF Within
  <2>2. CASE chargedOn'[c] # now
    <3>1. c # k /\ chargedOn'[c] = chargedOn[c]
      BY <1>4, <2>2
    <3>2. s \notin SubsOf(t)
      <4> SUFFICES ASSUME s \in SubsOf(t) PROVE FALSE
        OBVIOUS
      <4>1. k \in ChargesOf(t)'
        BY <1>1, <1>3, <1>6 DEF ChargesOf
      <4>2. now <= chargedOn[c]
        BY <1>4, <1>10, <3>1, <4>1 DEF Latest
      <4> QED
        BY <1>4, <2>2, <3>1, <4>2
    <3>3. \A b \in Charges : b \in ChargesOf(t)' <=> b \in ChargesOf(t)
      BY <1>1, <1>6, <3>2 DEF ChargesOf, SubsOf
    <3>4. \A b \in ChargesOf(t) : b \in Charges /\ b # k
      BY <1>3, <3>2 DEF ChargesOf
    <3>5. Latest(t, c)
      BY <1>4, <1>10, <3>1, <3>3, <3>4 DEF Latest
    <3>6. Span(c)' = Span(c)
      <4>1. c[1] \in SubsOf(t)
        BY <3>5 DEF Latest, ChargesOf
      <4> QED
        BY <1>5, <3>1, <4>1 DEF Span, PeriodEnd
    <3>7. Within(t, Cardinality(Dated(created[t], Span(c))))
      BY <1>5, <3>5 DEF BoundInv
    <3> QED
      BY <1>2, <1>8, <3>6, <3>7
  <2> QED
    BY <2>1, <2>2
<1> QED
  BY <1>9, <1>10

LagInv == Inv /\ RowIsTheTenants /\ DayInv /\ ChargeInv /\ PlanInv

\* What webhooks, subscribes and charges may leave in a row, and on which days.
LEMMA LagInvariant == GatedSpec => []LagInv
PROOF
<1>1. GatedInit => DayInv /\ ChargeInv /\ PlanInv
  BY DEF GatedInit, Init, DayInv, ChargeInv, PlanInv
<1>2. [GatedNext]_<<vars, gateVars>> => [Next]_vars
  BY DEF GatedNext, Renew, Upload, Tick, Next, RazorpayStep, gateVars
<1>3. Inv /\ DayInv /\ ChargeInv /\ PlanInv /\ [GatedNext]_<<vars, gateVars>> =>
        (DayInv /\ ChargeInv /\ PlanInv)'
  BY <1>2, DayStep, ChargeStep, PlanStep DEF Inv
<1> QED
  BY <1>1, <1>3, GatedImplementsBilling, Invariant, RowsAreTheTenants, PTL DEF GatedSpec, LagInv

\* However late, often or out of order webhooks come, a tenant's uploads in the period
\* of its latest charge stay within the largest quota it pays for, if the windows of its
\* plans cover the periods it is billed for.
THEOREM PeriodsAreBounded == GatedSpec => []PeriodIsBounded
PROOF
<1>1. GatedInit => BoundInv
  <2> SUFFICES ASSUME GatedInit, NEW t \in Tenants, NEW days
               PROVE  Within(t, Cardinality(Dated(created[t], days)))
    BY DEF BoundInv
  <2>1. Dated(created[t], days) = {}
    BY DEF GatedInit, Dated
  <2>2. Cardinality(Dated(created[t], days)) = 0
    BY <2>1, FS_EmptySet
  <2> QED
    BY <2>2, GateAssumption DEF Within, Limits
<1>2. LagInv /\ BoundInv /\ [GatedNext]_<<vars, gateVars>> => BoundInv'
  <2> SUFFICES ASSUME LagInv, BoundInv, [GatedNext]_<<vars, gateVars>> PROVE BoundInv'
    OBVIOUS
  <2>1. [Next]_vars
    BY DEF GatedNext, Renew, Upload, Tick, Next, RazorpayStep, gateVars
  <2>2. Kept
    BY <2>1, StepKeeps DEF LagInv, Inv
  <2>3. ASSUME NEW s \in Subs, Renew(s) PROVE BoundInv'
    BY <2>2, <2>3, RenewStep DEF LagInv
  <2>4. ASSUME NEW t \in Tenants, Upload(t) PROVE BoundInv'
    BY <2>4, UploadStep DEF LagInv
  <2>5. CASE Tick
    BY <2>5, TickStep DEF LagInv
  <2>6. CASE /\ UNCHANGED gateVars
             /\ \/ UNCHANGED vars
                \/ \E s \in Subs : Authenticate(s) \/ Activate(s) \/ Cancel(s)
                \/ \E r \in Requests : SubscribeStep(r)
                \/ WebhookStep
    BY <2>2, <2>6, Uncharged, QuietStep DEF LagInv, Inv
  <2> QED
    BY <2>3, <2>4, <2>5, <2>6 DEF GatedNext
<1>3. LagInv /\ BoundInv => PeriodIsBounded
  <2> SUFFICES ASSUME LagInv, BoundInv, NEW t \in Tenants, WindowsCoverPeriods(t),
                      NEW c \in ChargesOf(t),
                      \A b \in ChargesOf(t) : chargedOn[b] <= chargedOn[c]
               PROVE  \E limit \in Limits(t) : Cardinality(UploadsIn(t, c)) <= limit
    BY DEF PeriodIsBounded
  <2>1. Latest(t, c) /\ c \in Charges
    BY DEF Latest, ChargesOf
  <2>2. UploadsIn(t, c) = Dated(created[t], Span(c))
    BY DEF UploadsIn, Dated, Span
  <2> QED
    BY <2>1, <2>2 DEF BoundInv, Within
<1> QED
  BY <1>1, <1>2, <1>3, LagInvariant, PTL DEF GatedSpec

\* The cause of a window that lies ahead is a plan whose periods are longer than the
\* window of another plan of the tenant: without one, every window has begun.
THEOREM WindowsHaveBegun ==
  GatedSpec => [](\A t \in Tenants : Active(t) /\ WindowsCoverPeriods(t) =>
                                       current_period_start(t) <= now)
PROOF
<1>1. LagInv => \A t \in Tenants : Active(t) /\ WindowsCoverPeriods(t) =>
                                      current_period_start(t) <= now
  BY WindowReachesBack DEF LagInv
<1> QED
  BY <1>1, LagInvariant, PTL
=============================================================================
