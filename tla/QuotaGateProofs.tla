-------------------------- MODULE QuotaGateProofs --------------------------
(***************************************************************************)
(* Proofs about QuotaGate: the overshoot of the quota is bounded by the    *)
(* requests in progress, for any limits, windows, periods and any number   *)
(* of requests.                                                            *)
(***************************************************************************)
EXTENDS QuotaGate, FiniteSetTheorems, TLAPS

\* QuotaGate keeps every variable in its type.
THEOREM TypeCorrectness == Spec => []TypeOK
PROOF
<1>1. Init => TypeOK
  <2> SUFFICES ASSUME Init PROVE TypeOK
    OBVIOUS
  <2>1. rows \in Seq(0..MaxTime) /\ Len(rows) <= MaxRows
    BY QuotaAssumption DEF Init
  <2>2. checkedAt \in [Requests -> 0..MaxTime]
    BY QuotaAssumption DEF Init
  <2>3. /\ now \in 0..MaxTime /\ uploads \in Nat /\ billed \in Nat
        /\ periodEnd = NotCharged /\ billedFrom = NotCharged
    BY QuotaAssumption DEF Init
  <2>4. active \in BOOLEAN /\ everActive \in BOOLEAN /\ admitted \subseteq Requests
    BY DEF Init
  <2> QED
    BY <2>1, <2>2, <2>3, <2>4 DEF TypeOK
<1>2. TypeOK /\ [Next]_vars => TypeOK'
  <2> SUFFICES ASSUME TypeOK, [Next]_vars PROVE TypeOK'
    OBVIOUS
  <2> USE QuotaAssumption DEF TypeOK
  <2>1. ASSUME NEW r \in Requests, Check(r) PROVE TypeOK'
    BY <2>1 DEF Check, subVars
  <2>2. ASSUME NEW r \in Requests, Insert(r) PROVE TypeOK'
    BY <2>2 DEF Insert, subVars
  <2>3. ASSUME NEW r \in Requests, Reject(r) PROVE TypeOK'
    BY <2>3 DEF Reject, subVars
  <2>4. CASE CreateJson
    BY <2>4 DEF CreateJson, subVars, requestVars
  <2>5. CASE Activate
    BY <2>5 DEF Activate, requestVars
  <2>6. CASE Charge
    BY <2>6 DEF Charge, requestVars, Larger
  <2>7. CASE Cancel
    BY <2>7 DEF Cancel, requestVars
  <2>8. CASE Tick
    BY <2>8 DEF Tick, subVars, requestVars
  <2>9. CASE UNCHANGED vars
    BY <2>9 DEF vars, subVars, requestVars
  <2> QED
    BY <2>1, <2>2, <2>3, <2>4, <2>5, <2>6, <2>7, <2>8, <2>9 DEF Next
<1> QED
  BY <1>1, <1>2, PTL DEF Spec

(***************************************************************************)
(* Who is past the gate: admitting one request adds at most one to their   *)
(* number, which never exceeds Peers, and an insert or a reject takes one. *)
(***************************************************************************)
LEMMA Admission ==
  ASSUME NEW A \in SUBSET Requests
  PROVE  /\ Cardinality(A) \in 0..Peers /\ Peers \in Nat
         /\ \A r \in Requests : Cardinality(A \cup {r}) \in 0..Peers
         /\ \A r \in A : Cardinality(A \ {r}) = Cardinality(A) - 1
PROOF
<1>1. /\ IsFiniteSet(Requests) /\ IsFiniteSet(A)
  BY QuotaAssumption, FS_Subset
<1>2. \A B \in SUBSET Requests : Cardinality(B) \in 0..Peers /\ Peers \in Nat
  BY <1>1, FS_Subset, FS_CardinalityType DEF Peers
<1>3. \A r \in A : Cardinality(A \ {r}) = Cardinality(A) - 1
  BY <1>1, FS_RemoveElement
<1> QED
  BY <1>2, <1>3

(***************************************************************************)
(* The invariant of the free tier.  The rows of uploads are among the      *)
(* rows the gate counts, and uploads made and under way stay below the     *)
(* limit plus the peers.                                                   *)
(***************************************************************************)
FreeInv ==
  /\ uploads <= Len(rows)
  /\ active => everActive
  /\ ~everActive => uploads + Cardinality(admitted) <= FreeLimit + Peers - 1

\* Without a subscription, uploads overrun the free tier by the concurrent
\* requests at most.
THEOREM FreeTierIsBounded == Spec => []FreeTierOvershoot
PROOF
<1>1. Init => FreeInv
  BY QuotaAssumption, Admission, FS_EmptySet DEF Init, FreeInv
<1>2. TypeOK /\ FreeInv /\ [Next]_vars => FreeInv'
  <2> SUFFICES ASSUME TypeOK, FreeInv, [Next]_vars PROVE FreeInv'
    OBVIOUS
  <2> DEFINE n == Cardinality(admitted)
  <2>t. /\ uploads \in Nat /\ Len(rows) \in Nat /\ FreeLimit \in Nat \ {0}
        /\ n \in 0..Peers /\ Peers \in Nat /\ admitted \subseteq Requests
    BY QuotaAssumption, Admission DEF TypeOK
  <2> USE <2>t DEF FreeInv
  <2>1. ASSUME NEW r \in Requests, Check(r) PROVE FreeInv'
    <3>1. Cardinality(admitted') \in 0..Peers
      BY <2>1, Admission DEF Check
    <3>2. ~everActive => uploads < FreeLimit
      BY <2>1 DEF Check, Admits, count_all_time_candidates
    <3> QED
      BY <2>1, <3>1, <3>2 DEF Check, subVars
  <2>2. ASSUME NEW r \in Requests, Insert(r) PROVE FreeInv'
    <3>1. Cardinality(admitted') = n - 1
      BY <2>2, Admission DEF Insert
    <3>2. Len(rows') = Len(rows) + 1
      BY <2>2 DEF Insert, TypeOK
    <3> QED
      BY <2>2, <3>1, <3>2 DEF Insert, subVars
  <2>3. ASSUME NEW r \in Requests, Reject(r) PROVE FreeInv'
    <3>1. Cardinality(admitted') = n - 1
      BY <2>3, Admission DEF Reject
    <3> QED
      BY <2>3, <3>1 DEF Reject, subVars
  <2>4. CASE CreateJson
    <3>1. Len(rows') = Len(rows) + 1
      BY <2>4 DEF CreateJson, TypeOK
    <3> QED
      BY <2>4, <3>1 DEF CreateJson, subVars, requestVars
  <2>5. CASE Activate
    BY <2>5 DEF Activate, requestVars
  <2>6. CASE Charge
    BY <2>6 DEF Charge, requestVars
  <2>7. CASE Cancel
    BY <2>7 DEF Cancel, requestVars
  <2>8. CASE Tick
    BY <2>8 DEF Tick, subVars, requestVars
  <2>9. CASE UNCHANGED vars
    BY <2>9 DEF vars, subVars, requestVars
  <2> QED
    BY <2>1, <2>2, <2>3, <2>4, <2>5, <2>6, <2>7, <2>8, <2>9 DEF Next
<1>3. TypeOK /\ FreeInv => FreeTierOvershoot
  BY QuotaAssumption, Admission DEF TypeOK, FreeInv, FreeTierOvershoot
<1> QED
  BY <1>1, <1>2, <1>3, TypeCorrectness, PTL DEF Spec

(***************************************************************************)
(* The invariant of a billing period.  current_period_start is no later    *)
(* than the day from which uploads are held against the period, so every   *)
(* one of them is among the rows the gate counts.                          *)
(***************************************************************************)
RowsFrom(s, from) == {i \in DOMAIN s : s[i] >= from}

\* Appending a row keeps the number of rows from a date, or adds one to it.
LEMMA AppendRow ==
  ASSUME NEW s \in Seq(Int), NEW e \in Int, NEW from \in Int
  PROVE  /\ Cardinality(RowsFrom(s, from)) \in Nat
         /\ Cardinality(RowsFrom(s, from)) <= Len(s)
         /\ Cardinality(RowsFrom(Append(s, e), from)) \in Nat
         /\ Cardinality(RowsFrom(Append(s, e), from)) >=
               Cardinality(RowsFrom(s, from)) + (IF e >= from THEN 1 ELSE 0)
PROOF
<1> DEFINE t == Append(s, e)
           R == RowsFrom(s, from)
           Q == RowsFrom(t, from)
<1>1. /\ Len(s) \in Nat /\ Len(t) = Len(s) + 1
      /\ \A i \in 1..Len(s) : t[i] = s[i]
      /\ t[Len(s) + 1] = e
  OBVIOUS
<1>2. /\ IsFiniteSet(1..Len(s)) /\ Cardinality(1..Len(s)) = Len(s)
      /\ IsFiniteSet(1..Len(t))
  <2>1. \A k \in Nat : IsFiniteSet(1..k) /\ Cardinality(1..k) = k
    BY FS_Interval
  <2> QED
    BY <2>1, <1>1
<1>3. /\ R \subseteq 1..Len(s) /\ Q \subseteq 1..Len(t) /\ R \subseteq Q
      /\ e >= from => (R \cup {Len(s) + 1}) \subseteq Q
      /\ Len(s) + 1 \notin R
  BY <1>1 DEF RowsFrom
<1>4. /\ IsFiniteSet(R) /\ IsFiniteSet(Q)
      /\ Cardinality(R) \in Nat /\ Cardinality(Q) \in Nat
      /\ Cardinality(R) <= Len(s) /\ Cardinality(R) <= Cardinality(Q)
  BY <1>2, <1>3, FS_Subset, FS_CardinalityType
<1>5. e >= from => Cardinality(R) + 1 <= Cardinality(Q)
  BY <1>3, <1>4, FS_AddElement, FS_Subset
<1> QED
  BY <1>4, <1>5

\* An earlier date leaves out no row.
LEMMA EarlierDate ==
  ASSUME NEW s \in Seq(Int), NEW a \in Int, NEW b \in Int, a <= b
  PROVE  Cardinality(RowsFrom(s, b)) <= Cardinality(RowsFrom(s, a))
PROOF
<1>1. IsFiniteSet(1..Len(s)) /\ DOMAIN s = 1..Len(s)
  BY FS_Interval
<1>2. RowsFrom(s, b) \subseteq RowsFrom(s, a) /\ RowsFrom(s, a) \subseteq 1..Len(s)
  BY <1>1 DEF RowsFrom
<1> QED
  BY <1>1, <1>2, FS_Subset

PaidInv ==
  /\ billed <= Len(rows)
  /\ billedFrom # NotCharged =>
       /\ billed <= Cardinality(RowsFrom(rows, billedFrom))
       /\ periodEnd # NotCharged /\ periodEnd - Window <= billedFrom
  /\ billedFrom = NotCharged => billed = 0
  /\ billed + Cardinality(admitted) <= Larger(Quota, FreeLimit) + Peers - 1

\* Within the part of a billing period that the window covers, uploads overrun the
\* quota by the concurrent requests at most, however long the period is.
THEOREM PaidPeriodIsBounded == Spec => []PaidPeriodBounded
PROOF
<1> DEFINE n == Cardinality(admitted)
           Top == Larger(Quota, FreeLimit)
<1>t. /\ Top \in Nat \ {0} /\ Top >= Quota /\ Top >= FreeLimit
      /\ Quota \in Nat /\ FreeLimit \in Nat \ {0}
  BY QuotaAssumption DEF Larger
<1>1. Init => PaidInv
  <2>1. Cardinality({}) = 0 /\ Peers \in Nat
    BY Admission, FS_EmptySet
  <2> QED
    BY <2>1, <1>t DEF Init, PaidInv, NotCharged
<1>2. TypeOK /\ PaidInv /\ [Next]_vars => PaidInv'
  <2> SUFFICES ASSUME TypeOK, PaidInv, [Next]_vars PROVE PaidInv'
    OBVIOUS
  <2>t. /\ billed \in Nat /\ Len(rows) \in Nat /\ rows \in Seq(Int)
        /\ billedFrom \in Int /\ now \in Nat /\ Window \in Nat
        /\ Periods \subseteq Nat \ {0} /\ periodEnd \in Int
        /\ n \in 0..Peers /\ Peers \in Nat /\ admitted \subseteq Requests
        /\ checkedAt \in [Requests -> Int]
    BY QuotaAssumption, Admission DEF TypeOK
  <2>u. Cardinality(RowsFrom(rows, billedFrom)) \in Nat
    BY <2>t, AppendRow
  <2> HIDE DEF n, Top
  <2>1. ASSUME NEW r \in Requests, Check(r) PROVE PaidInv'
    <3>1. Cardinality(admitted') \in 0..Peers
      BY <2>1, <2>t, Admission DEF Check
    <3>2. billed < Top
      <4>1. CASE ~active
        BY <2>1, <4>1, <1>t, <2>t DEF Check, Admits, count_all_time_candidates, PaidInv
      <4>2. CASE active /\ billedFrom = NotCharged
        BY <4>2, <1>t DEF PaidInv
      <4>3. CASE active /\ billedFrom # NotCharged
        <5>1. used < Quota
          BY <2>1, <4>3 DEF Check, Admits
        <5>2. current_period_start \in Int /\ current_period_start <= billedFrom
          BY <4>3, <2>t DEF PaidInv, current_period_start
        <5>3. used = Cardinality(RowsFrom(rows, current_period_start))
          BY DEF used, count_candidates_this_period, RowsFrom
        <5>4. Cardinality(RowsFrom(rows, billedFrom)) <= used
          BY <5>2, <5>3, <2>t, EarlierDate
        <5>5. used \in Nat
          BY <5>2, <5>3, <2>t, AppendRow
        <5> QED
          BY <5>1, <5>4, <5>5, <4>3, <1>t, <2>t, <2>u DEF PaidInv
      <4> QED
        BY <4>1, <4>2, <4>3
    <3>3. UNCHANGED <<billed, rows, billedFrom, periodEnd>>
      BY <2>1 DEF Check, subVars
    <3> QED
      BY <3>1, <3>2, <3>3, <1>t, <2>t DEF PaidInv, Top
  <2>2. ASSUME NEW r \in Requests, Insert(r) PROVE PaidInv'
    <3>1. Cardinality(admitted') = n - 1
      BY <2>2, <2>t, Admission DEF Insert, n
    <3>2. /\ rows' = Append(rows, checkedAt[r]) /\ Len(rows') = Len(rows) + 1
          /\ checkedAt[r] \in Int
      BY <2>2, <2>t DEF Insert
    <3>3. /\ Cardinality(RowsFrom(rows', billedFrom)) \in Nat
          /\ Cardinality(RowsFrom(rows', billedFrom)) >=
               Cardinality(RowsFrom(rows, billedFrom)) + (IF checkedAt[r] >= billedFrom THEN 1 ELSE 0)
      BY <3>2, <2>t, AppendRow
    <3>4. /\ billed' = IF billedFrom # NotCharged /\ checkedAt[r] >= billedFrom
                       THEN billed + 1 ELSE billed
          /\ UNCHANGED <<billedFrom, periodEnd>>
      BY <2>2 DEF Insert, subVars
    <3>5. /\ billed' <= Len(rows')
          /\ billedFrom' # NotCharged =>
               /\ billed' <= Cardinality(RowsFrom(rows', billedFrom'))
               /\ periodEnd' # NotCharged /\ periodEnd' - Window <= billedFrom'
          /\ billedFrom' = NotCharged => billed' = 0
      <4>1. CASE billedFrom = NotCharged
        BY <3>2, <3>4, <4>1, <2>t DEF PaidInv
      <4>2. CASE billedFrom # NotCharged
        <5>1. billed' <= Cardinality(RowsFrom(rows', billedFrom))
          BY <3>3, <3>4, <4>2, <2>t, <2>u DEF PaidInv
        <5> QED
          BY <3>2, <3>4, <4>2, <5>1, <2>t DEF PaidInv
      <4> QED
        BY <4>1, <4>2
    <3>6. billed' + Cardinality(admitted') <= Top + Peers - 1
      <4>1. billed + n <= Top + Peers - 1
        BY DEF PaidInv, n, Top
      <4>2. billed' \in Nat /\ billed' <= billed + 1
        BY <3>4, <2>t
      <4>3. /\ n \in Nat /\ billed \in Nat /\ Top \in Nat /\ Peers \in Nat
            /\ Cardinality(admitted') \in Int
        BY <2>t, <1>t, <3>1
      <4>4. n = Cardinality(admitted') + 1
        BY <3>1, <4>3
      <4> QED
        BY <4>1, <4>2, <4>3, <4>4
    <3> QED
      BY <3>5, <3>6 DEF PaidInv, Top
  <2>3. ASSUME NEW r \in Requests, Reject(r) PROVE PaidInv'
    <3>1. Cardinality(admitted') = n - 1
      BY <2>3, <2>t, Admission DEF Reject, n
    <3>2. UNCHANGED <<billed, rows, billedFrom, periodEnd>>
      BY <2>3 DEF Reject, subVars
    <3> QED
      BY <3>1, <3>2, <1>t, <2>t DEF PaidInv, n, Top
  <2>4. CASE CreateJson
    <3>1. /\ rows' = Append(rows, now) /\ Len(rows') = Len(rows) + 1
          /\ UNCHANGED <<billed, billedFrom, periodEnd, admitted>>
      BY <2>4, <2>t DEF CreateJson, subVars, requestVars
    <3>2. /\ Cardinality(RowsFrom(Append(rows, now), billedFrom)) \in Nat
          /\ Cardinality(RowsFrom(Append(rows, now), billedFrom)) >=
               Cardinality(RowsFrom(rows, billedFrom)) + (IF now >= billedFrom THEN 1 ELSE 0)
      BY <2>t, AppendRow
    <3> QED
      BY <3>1, <3>2, <2>t, <2>u DEF PaidInv
  <2>5. CASE Activate
    BY <2>5 DEF Activate, requestVars, PaidInv
  <2>6. CASE Charge
    <3>1. PICK period \in Periods :
            periodEnd' = now + period /\ billedFrom' = Larger(now, now + period - Window)
      BY <2>6 DEF Charge
    <3>2. billed' = 0 /\ rows' = rows /\ admitted' = admitted
      BY <2>6 DEF Charge, requestVars
    <3>3. /\ billedFrom' \in Nat /\ periodEnd' \in Nat
          /\ periodEnd' - Window <= billedFrom' /\ billedFrom' # NotCharged
          /\ periodEnd' # NotCharged
      BY <3>1, <2>t DEF Larger, NotCharged
    <3>4. Cardinality(RowsFrom(rows, billedFrom')) \in Nat
      BY <3>3, <2>t, AppendRow
    <3>5. billed' + Cardinality(admitted') <= Larger(Quota, FreeLimit) + Peers - 1
      BY <3>2, <1>t, <2>t DEF n, Top
    <3>6. billed' <= Len(rows') /\ billed' <= Cardinality(RowsFrom(rows', billedFrom'))
      BY <3>2, <3>4, <2>t
    <3> QED
      BY <3>3, <3>5, <3>6 DEF PaidInv
  <2>7. CASE Cancel
    BY <2>7 DEF Cancel, requestVars, PaidInv
  <2>8. CASE Tick
    BY <2>8 DEF Tick, subVars, requestVars, PaidInv
  <2>9. CASE UNCHANGED vars
    BY <2>9 DEF vars, subVars, requestVars, PaidInv
  <2> QED
    BY <2>1, <2>2, <2>3, <2>4, <2>5, <2>6, <2>7, <2>8, <2>9 DEF Next
<1>3. TypeOK /\ PaidInv => PaidPeriodBounded
  <2> SUFFICES ASSUME TypeOK, PaidInv PROVE PaidPeriodBounded
    OBVIOUS
  <2>1. n \in 0..Peers /\ Peers \in Nat /\ billed \in Nat
    BY Admission DEF TypeOK
  <2> QED
    BY <2>1, <1>t DEF PaidInv, PaidPeriodBounded
<1> QED
  BY <1>1, <1>2, <1>3, TypeCorrectness, PTL DEF Spec
=============================================================================
