------------------------- MODULE TenantAuthProofs -------------------------
(***************************************************************************)
(* Proofs about TenantAuth, for any tenants, emails, Google accounts, keys *)
(* and any number of requests.                                             *)
(***************************************************************************)
EXTENDS TenantAuth, TLAPS

(***************************************************************************)
(* The inductive invariant.                                                *)
(***************************************************************************)
\* A Google request has a subject, the others an email.
WellFormed(q) == IF q.kind = "google" THEN q.sub \in Subs
                                      ELSE q.sub = None /\ q.email \in Emails

\* Tenant t has the identity q was made with.
Identity(t, q) ==
  /\ t \in Rows
  /\ IF q.kind = "google" THEN tenant[t].sub = q.sub
     ELSE tenant[t].email = q.email /\ tenant[t].password

\* What a request knows at the stage it is in.
RequestOK(r) ==
  /\ before[r] \subseteq Rows
  /\ request[r] # None =>
       /\ WellFormed(request[r])
       /\ request[r].kind = "google" => ~request[r].long
       /\ request[r].pc = "insert" => /\ request[r].kind # "login"
                                      /\ \A t \in before[r] : ~Matches(t, request[r])
       /\ request[r].pc = "sign" => Identity(request[r].tenant, request[r])

\* Tenant t has what request r would insert, and r has not seen it, unless it is by the
\* email of a Google account that t does not have.
Blocks(t, r) ==
  /\ Clashes(tenant[t], NewTenant(request[r]))
  /\ t \in before[r] => request[r].kind = "google" /\ tenant[t].sub # request[r].sub

\* Why request r ended in a 500, if it did.
ErrorOK(r) ==
  r \notin fault /\ At(r, "500") =>
    /\ Refused(request[r]) \/ (request[r].kind # "login" /\ \E t \in Rows : Blocks(t, r))
    /\ request[r].kind = "register" => \A t \in before[r] : tenant[t].email # request[r].email

TokensOK == \A k \in tokens : WellFormed(k) /\ Identity(k.tenant, k)

Inv ==
  /\ TypeOK
  /\ \A r \in Requests : RequestOK(r) /\ ErrorOK(r)
  /\ TokensOK
  /\ IdentitiesAreUnique
  /\ OneCredential

\* A row OneCredential allows.
CredentialOK(row) ==
  /\ ~(row.password /\ row.sub # None)
  /\ row.email # None => row.password \/ row.sub # None
  /\ row.password => row.email # None

\* A step changes at most one row, which was not there, to one that clashes with none.
Grows(t, row) ==
  /\ t \in Tenants \ Rows /\ row \in Tenant
  /\ tenant' = [tenant EXCEPT ![t] = row]
  /\ \A u \in Rows : ~Clashes(tenant[u], row)
  /\ CredentialOK(row)

TenantsGrow == tenant' = tenant \/ \E t \in Tenants, row \in Tenant : Grows(t, row)

-----------------------------------------------------------------------------
\* A request that moves on keeps its type.
LEMMA GotoType ==
  ASSUME TypeOK, NEW r \in Requests, request[r] # None, NEW stage \in Stages,
         NEW t \in Tenants \cup {None}, Goto(r, stage, t)
  PROVE  /\ request' \in [Requests -> Request \cup {None}]
         /\ request'[r] = [request[r] EXCEPT !.pc = stage, !.tenant = t]
         /\ request'[r] \in Request
         /\ \A q \in Requests \ {r} : request'[q] = request[q]
PROOF
<1>1. request[r] \in Request
  BY DEF TypeOK
<1>2. [request[r] EXCEPT !.pc = stage, !.tenant = t] \in Request
  BY <1>1 DEF Request
<1> QED
  BY <1>1, <1>2 DEF TypeOK, Goto

\* The row a sign-up inserts is a row, with one credential.
LEMMA NewTenantType ==
  ASSUME NEW q \in Request, WellFormed(q), q.kind # "login"
  PROVE  NewTenant(q) \in Tenant /\ CredentialOK(NewTenant(q))
PROOF
<1>1. q.kind \in {"register", "google"} /\ q.email \in Emails \cup {NoEmail}
      /\ q.sub \in Subs \cup {None}
  BY DEF Request, Kinds
<1>2. NewTenant(q) \in Tenant
  BY <1>1 DEF NewTenant, Tenant
<1>3. CASE q.kind = "google"
  BY <1>1, <1>2, <1>3, AuthAssumption DEF NewTenant, CredentialOK, WellFormed
<1>4. CASE q.kind = "register"
  BY <1>1, <1>2, <1>4, AuthAssumption DEF NewTenant, CredentialOK, WellFormed
<1> QED
  BY <1>1, <1>2, <1>3, <1>4

-----------------------------------------------------------------------------
\* The invariant holds at the start.
LEMMA InitInv == Init => Inv
PROOF
<1> SUFFICES ASSUME Init PROVE Inv
  OBVIOUS
<1>1. TypeOK
  BY DEF Init, TypeOK
<1>2. Rows = {}
  BY DEF Init, Rows
<1> QED
  BY <1>1, <1>2 DEF Init, Inv, RequestOK, ErrorOK, TokensOK, IdentitiesAreUnique,
                    OneCredential, At

\* How a step changes the tenants, whichever it is.
LEMMA NextGrows ==
  ASSUME Inv, Next
  PROVE  TenantsGrow
PROOF
<1>1. ASSUME NEW r \in Requests, Insert(r) PROVE TenantsGrow
  <2>1. request[r] \in Request /\ WellFormed(request[r]) /\ request[r].kind # "login"
    BY <1>1 DEF Inv, TypeOK, Insert, At, RequestOK
  <2>2. NewTenant(request[r]) \in Tenant /\ CredentialOK(NewTenant(request[r]))
    BY <2>1, NewTenantType
  <2> QED
    BY <1>1, <2>2 DEF Insert, TenantsGrow, Grows
<1>2. ASSUME NEW t \in Tenants, create_tenant(t) PROVE TenantsGrow
  <2> DEFINE row == [email |-> None, password |-> FALSE, sub |-> None]
  <2>1. row \in Tenant /\ CredentialOK(row)
    BY DEF Tenant, CredentialOK
  <2>2. \A u \in Rows : ~Clashes(tenant[u], row)
    BY DEF Clashes
  <2>3. t \in Tenants \ Rows /\ tenant' = [tenant EXCEPT ![t] = row]
    BY <1>2 DEF create_tenant
  <2> QED
    BY <2>1, <2>2, <2>3 DEF TenantsGrow, Grows
<1> QED
  BY <1>1, <1>2 DEF Next, AuthStep, AdminStep, KeyStep, TenantsGrow, Register, Login, Google,
     Receive, Look, Sign, Refuse, Fail, create_api_key, revoke_api_key, ReadKey, TouchKey

\* Rows stay as they are.
LEMMA RowsStay ==
  ASSUME TypeOK, TenantsGrow
  PROVE  /\ tenant' \in [Tenants -> Tenant \cup {None}]
         /\ Rows \subseteq Rows'
         /\ \A t \in Rows : tenant'[t] = tenant[t]
PROOF
<1>1. CASE tenant' = tenant
  BY <1>1 DEF TypeOK, Rows
<1>2. CASE \E t \in Tenants, row \in Tenant : Grows(t, row)
  BY <1>2 DEF TypeOK, Rows, Grows
<1> QED
  BY <1>1, <1>2 DEF TenantsGrow

-----------------------------------------------------------------------------
\* An email and an account have one tenant, with one credential, after the step too.
LEMMA GrowsWell ==
  ASSUME Inv, TenantsGrow
  PROVE  IdentitiesAreUnique' /\ OneCredential'
PROOF
<1>1. CASE tenant' = tenant
  BY <1>1 DEF Inv, IdentitiesAreUnique, OneCredential, Rows
<1>2. ASSUME NEW t \in Tenants, NEW row \in Tenant, Grows(t, row)
      PROVE IdentitiesAreUnique' /\ OneCredential'
  <2>1. /\ tenant'[t] = row
        /\ \A u \in Tenants \ {t} : tenant'[u] = tenant[u]
        /\ \A u \in Rows' : u = t \/ u \in Rows
    BY <1>2 DEF Inv, TypeOK, Grows, Rows
  <2>2. IdentitiesAreUnique'
    BY <1>2, <2>1 DEF Inv, IdentitiesAreUnique, Clashes, Grows
  <2>3. OneCredential'
    BY <1>2, <2>1 DEF Inv, OneCredential, CredentialOK, Grows
  <2> QED
    BY <2>2, <2>3
<1> QED
  BY <1>1, <1>2 DEF TenantsGrow

\* A tenant that has an identity keeps it.
LEMMA IdentityStays ==
  ASSUME TypeOK, TenantsGrow
  PROVE  \A t, q : Identity(t, q) =>
           /\ t \in Rows'
           /\ IF q.kind = "google" THEN tenant'[t].sub = q.sub
              ELSE tenant'[t].email = q.email /\ tenant'[t].password
PROOF
  BY RowsStay DEF Identity

\* A request that does not move stays right.
LEMMA RequestStays ==
  ASSUME Inv, TenantsGrow, NEW r \in Requests,
         request'[r] = request[r], before'[r] = before[r], r \in fault <=> r \in fault'
  PROVE  RequestOK(r)' /\ ErrorOK(r)'
PROOF
<1>1. TypeOK /\ RequestOK(r) /\ ErrorOK(r)
  BY DEF Inv
<1>2. /\ Rows \subseteq Rows'
      /\ \A t \in Rows : tenant'[t] = tenant[t]
  BY <1>1, RowsStay
<1>3. RequestOK(r)'
  <2>1. before[r]' \subseteq Rows'
    BY <1>1, <1>2 DEF RequestOK
  <2>2. ASSUME request[r]' # None
        PROVE  /\ WellFormed(request[r])'
               /\ request[r].kind' = "google" => ~request[r].long'
               /\ request[r].pc' = "insert" =>
                    /\ request[r].kind' # "login"
                    /\ \A t \in before[r]' : ~Matches(t, request[r])'
               /\ request[r].pc' = "sign" => Identity(request[r].tenant, request[r])'
    BY <1>1, <1>2, <2>2 DEF RequestOK, WellFormed, Matches, Identity
  <2> QED
    BY <2>1, <2>2 DEF RequestOK
<1>4. ErrorOK(r)'
  <2> SUFFICES ASSUME r \notin fault, At(r, "500") PROVE ErrorOK(r)'
    BY DEF ErrorOK, At
  <2>1. \A t \in Rows : Blocks(t, r) => Blocks(t, r)'
    BY <1>2 DEF Blocks, NewTenant, Clashes
  <2>2. \A t \in before[r] : tenant'[t] = tenant[t]
    BY <1>1, <1>2 DEF RequestOK
  <2> QED
    BY <1>1, <1>2, <2>1, <2>2 DEF ErrorOK, At, Refused
<1> QED
  BY <1>3, <1>4

-----------------------------------------------------------------------------
\* Each step of request r leaves it right.
LEMMA OwnStep ==
  ASSUME Inv, TenantsGrow, NEW r \in Requests, AuthStep(r)
  PROVE  RequestOK(r)' /\ ErrorOK(r)'
PROOF
<1> DEFINE q == request[r]
<1>1. /\ TypeOK /\ RequestOK(r)
      /\ Rows \subseteq Rows' /\ \A t \in Rows : tenant'[t] = tenant[t]
  BY RowsStay DEF Inv
<1>2. ASSUME NEW kind \in Kinds, NEW email, NEW sub, NEW long \in BOOLEAN,
             Receive(r, kind, email, sub, long), kind = "google" => ~long,
             IF kind = "google" THEN sub \in Subs ELSE sub = None /\ email \in Emails
      PROVE  RequestOK(r)' /\ ErrorOK(r)'
  <2>1. /\ request'[r] = [kind |-> kind, email |-> email, sub |-> sub,
                          long |-> long, pc |-> "look", tenant |-> None]
        /\ before'[r] = {}
    BY <1>1, <1>2 DEF Receive, TypeOK
  <2> QED
    BY <1>2, <2>1 DEF RequestOK, ErrorOK, WellFormed, At
<1>3. CASE Look(r)
  <2>1. /\ q \in Request /\ q # None /\ WellFormed(q)
        /\ q.kind = "google" => ~q.long
        /\ before'[r] = Rows /\ tenant' = tenant /\ fault' = fault
    BY <1>1, <1>3 DEF Look, At, TypeOK, RequestOK
  <2>2. Rows' = Rows
    BY <2>1 DEF Rows
  <2>3. ASSUME NEW stage \in {"409", "401"}, Goto(r, stage, None)
        PROVE  RequestOK(r)' /\ ErrorOK(r)'
    <3>1. request'[r] = [q EXCEPT !.pc = stage, !.tenant = None]
      BY <1>1, <2>1, <2>3 DEF Goto, TypeOK
    <3> QED
      BY <2>1, <2>2, <2>3, <3>1 DEF RequestOK, ErrorOK, WellFormed, At, Request
  <2>4. ASSUME Refused(q), Goto(r, "500", None),
               q.kind = "register" => \A t \in Rows : ~Matches(t, q)
        PROVE  RequestOK(r)' /\ ErrorOK(r)'
    <3>1. request'[r] = [q EXCEPT !.pc = "500", !.tenant = None]
      BY <1>1, <2>1, <2>4 DEF Goto, TypeOK
    <3>2. /\ request'[r].kind = q.kind /\ request'[r].email = q.email
          /\ request'[r].sub = q.sub /\ request'[r].long = q.long /\ request'[r].pc = "500"
      BY <2>1, <3>1 DEF Request
    <3>3. RequestOK(r)'
      BY <1>1, <2>1, <2>2, <3>2 DEF RequestOK, WellFormed
    <3>4. ErrorOK(r)'
      BY <2>1, <2>2, <2>4, <3>2 DEF ErrorOK, Refused, Matches
    <3> QED
      BY <3>3, <3>4
  <2>5. ASSUME q.kind # "login", {t \in Rows : Matches(t, q)} = {}, Goto(r, "insert", None)
        PROVE  RequestOK(r)' /\ ErrorOK(r)'
    <3>1. request'[r] = [q EXCEPT !.pc = "insert", !.tenant = None]
      BY <1>1, <2>1, <2>5 DEF Goto, TypeOK
    <3>2. \A t \in before'[r] : ~Matches(t, request[r])'
      BY <2>1, <2>5, <3>1 DEF Matches, Request
    <3> QED
      BY <2>1, <2>2, <2>5, <3>1, <3>2 DEF RequestOK, ErrorOK, WellFormed, At, Request
  <2>6. ASSUME NEW t \in Rows, Matches(t, q), Goto(r, "sign", t),
               q.kind = "google" \/ (q.kind = "login" /\ tenant[t].password)
        PROVE  RequestOK(r)' /\ ErrorOK(r)'
    <3>1. request'[r] = [q EXCEPT !.pc = "sign", !.tenant = t]
      BY <1>1, <2>1, <2>6 DEF Goto, TypeOK, Rows
    <3>2. Identity(request[r].tenant, request[r])'
      BY <2>1, <2>2, <2>6, <3>1 DEF Matches, Identity, Request
    <3> QED
      BY <2>1, <2>2, <3>1, <3>2 DEF RequestOK, ErrorOK, WellFormed, At, Request
  <2> QED
    BY <1>3, <2>3, <2>4, <2>5, <2>6 DEF Look
<1>4. CASE Insert(r)
  <2>1. /\ q \in Request /\ q # None /\ WellFormed(q) /\ q.kind # "login"
        /\ q.kind = "google" => ~q.long
        /\ \A t \in before[r] : ~Matches(t, q)
        /\ before' = before /\ fault' = fault
    BY <1>1, <1>4 DEF Insert, At, TypeOK, RequestOK
  <2>2. ASSUME NEW u \in Rows, Clashes(tenant[u], NewTenant(q)), Goto(r, "500", None),
               tenant' = tenant
        PROVE  RequestOK(r)' /\ ErrorOK(r)'
    <3>1. request'[r] = [q EXCEPT !.pc = "500", !.tenant = None]
      BY <1>1, <2>1, <2>2 DEF Goto, TypeOK
    <3>2. u \in before[r] => q.kind = "google" /\ tenant[u].sub # q.sub
      <4>1. q.kind \in {"google", "register"}
        BY <2>1 DEF Request, Kinds
      <4>2. CASE q.kind = "google"
        BY <2>1, <4>2 DEF Matches
      <4>3. CASE q.kind = "register"
        BY <2>1, <2>2, <4>3, AuthAssumption DEF Matches, WellFormed, Clashes, NewTenant
      <4> QED
        BY <4>1, <4>2, <4>3
    <3>3. ErrorOK(r)'
      <4>1. /\ request'[r].kind = q.kind /\ request'[r].sub = q.sub
            /\ request'[r].email = q.email
        BY <2>1, <3>1 DEF Request
      <4>2. Rows' = Rows /\ Blocks(u, r)'
        BY <2>1, <2>2, <3>2, <4>1 DEF Blocks, Rows, NewTenant, Clashes
      <4>3. q.kind = "register" => \A t \in before[r] : tenant[t].email # q.email
        BY <2>1 DEF Matches
      <4> QED
        BY <2>1, <2>2, <4>1, <4>2, <4>3 DEF ErrorOK
    <3>4. RequestOK(r)'
      BY <1>1, <2>1, <3>1 DEF RequestOK, WellFormed, Request
    <3> QED
      BY <3>3, <3>4
  <2>3. ASSUME NEW t \in Tenants \ Rows, tenant' = [tenant EXCEPT ![t] = NewTenant(q)],
               Goto(r, "sign", t)
        PROVE  RequestOK(r)' /\ ErrorOK(r)'
    <3>1. request'[r] = [q EXCEPT !.pc = "sign", !.tenant = t]
      BY <1>1, <2>1, <2>3 DEF Goto, TypeOK
    <3>2. NewTenant(q) # None /\ tenant'[t] = NewTenant(q)
      BY <1>1, <2>1, <2>3, NewTenantType, AuthAssumption DEF TypeOK
    <3>3. /\ request'[r].kind = q.kind /\ request'[r].email = q.email
          /\ request'[r].sub = q.sub /\ request'[r].long = q.long
          /\ request'[r].tenant = t /\ request'[r].pc = "sign"
      BY <2>1, <3>1 DEF Request
    <3>4. IF q.kind = "google" THEN tenant'[t].sub = q.sub
          ELSE tenant'[t].email = q.email /\ tenant'[t].password
      <4>1. q.kind \in {"google", "register"}
        BY <2>1 DEF Request, Kinds
      <4>2. CASE q.kind = "google"
        BY <3>2, <4>2 DEF NewTenant
      <4>3. CASE q.kind = "register"
        <5>1. q.email # NoEmail
          BY <2>1, <4>3, AuthAssumption DEF WellFormed
        <5>2. tenant'[t].email = q.email
          BY <3>2, <5>1 DEF NewTenant
        <5>3. tenant'[t].password = (q.kind = "register")
          BY <3>2 DEF NewTenant
        <5> QED
          BY <4>3, <5>2, <5>3
      <4> QED
        BY <4>1, <4>2, <4>3
    <3>5. Identity(request[r].tenant, request[r])'
      BY <3>2, <3>3, <3>4 DEF Identity, Rows
    <3> QED
      BY <1>1, <2>1, <3>3, <3>5 DEF RequestOK, ErrorOK, WellFormed, At
  <2> QED
    BY <1>4, <2>2, <2>3 DEF Insert
<1>5. CASE Sign(r) \/ Refuse(r) \/ Fail(r)
  <2>1. q \in Request /\ q # None /\ WellFormed(q) /\ before' = before /\ tenant' = tenant
    BY <1>1, <1>5 DEF Sign, Refuse, Fail, InProgress, At, TypeOK, RequestOK
  <2>2. ASSUME NEW stage \in {"token", "401", "500", "503"}, NEW t \in Tenants \cup {None},
               Goto(r, stage, t), stage = "500" => r \in fault'
        PROVE  RequestOK(r)' /\ ErrorOK(r)'
    <3>1. request'[r] = [q EXCEPT !.pc = stage, !.tenant = t]
      BY <1>1, <2>1, <2>2 DEF Goto, TypeOK
    <3> QED
      BY <1>1, <2>1, <2>2, <3>1 DEF RequestOK, ErrorOK, WellFormed, At, Request
  <2>3. q.tenant \in Tenants \cup {None}
    BY <2>1 DEF Request
  <2> QED
    BY <1>5, <2>2, <2>3 DEF Sign, Refuse, Fail
<1> QED
  <2>1. ASSUME NEW email \in Emails, Register(r, email) \/ Login(r, email)
        PROVE  RequestOK(r)' /\ ErrorOK(r)'
    BY <1>2, <2>1 DEF Register, Login, Kinds
  <2>2. ASSUME NEW sub \in Subs, Google(r, sub)
        PROVE  RequestOK(r)' /\ ErrorOK(r)'
    BY <1>2, <2>2 DEF Google, Kinds
  <2> QED
    BY <1>3, <1>4, <1>5, <2>1, <2>2 DEF AuthStep

-----------------------------------------------------------------------------
\* Every step keeps the types.
LEMMA TypeStep ==
  ASSUME Inv, Next, TenantsGrow
  PROVE  TypeOK'
PROOF
<1>1. TypeOK /\ tenant' \in [Tenants -> Tenant \cup {None}] /\ Rows \subseteq Tenants
  BY RowsStay DEF Inv, Rows
<1>2. ASSUME NEW r \in Requests, AuthStep(r) PROVE TypeOK'
  <2>1. ASSUME NEW kind \in Kinds, NEW email \in Emails \cup {NoEmail},
               NEW sub \in Subs \cup {None}, NEW long \in BOOLEAN,
               Receive(r, kind, email, sub, long)
        PROVE  TypeOK'
    <3>1. [kind |-> kind, email |-> email, sub |-> sub, long |-> long, pc |-> "look",
           tenant |-> None] \in Request
      BY DEF Request, Stages
    <3> QED
      BY <1>1, <2>1, <3>1 DEF Receive, TypeOK
  <2>2. \A stage \in Stages, t \in Tenants \cup {None} :
          request[r] # None /\ Goto(r, stage, t) =>
            request' \in [Requests -> Request \cup {None}]
    BY <1>1, GotoType
  <2>3. CASE Look(r)
    <3>1. request' \in [Requests -> Request \cup {None}]
      BY <1>1, <2>2, <2>3 DEF Look, At, Stages
    <3> QED
      BY <1>1, <2>3, <3>1 DEF Look, TypeOK
  <2>4. CASE Insert(r)
    <3>1. request' \in [Requests -> Request \cup {None}]
      BY <2>2, <2>4 DEF Insert, At, Stages
    <3> QED
      BY <1>1, <2>4, <3>1 DEF Insert, TypeOK
  <2>5. CASE Sign(r)
    <3>1. request[r] \in Request /\ request[r] # None /\ Identity(request[r].tenant, request[r])
      BY <2>5 DEF Inv, TypeOK, RequestOK, Sign, At
    <3>2. request' \in [Requests -> Request \cup {None}]
      BY <2>2, <2>5, <3>1 DEF Sign, Stages, Identity, Rows
    <3>3. [kind |-> request[r].kind, email |-> request[r].email, sub |-> request[r].sub,
           tenant |-> request[r].tenant] \in Token
      BY <3>1 DEF Request, Token, Identity, Rows
    <3> QED
      BY <1>1, <2>5, <3>2, <3>3 DEF Sign, TypeOK
  <2>6. CASE Refuse(r) \/ Fail(r)
    <3>1. request' \in [Requests -> Request \cup {None}]
      BY <2>2, <2>6 DEF Refuse, Fail, InProgress, At, Stages
    <3> QED
      BY <1>1, <2>6, <3>1 DEF Refuse, Fail, TypeOK
  <2>7. \A sub \in Subs : GoogleEmail[sub] \in Emails \cup {NoEmail}
    BY AuthAssumption
  <2> QED
    BY <1>2, <2>1, <2>3, <2>4, <2>5, <2>6, <2>7
       DEF AuthStep, Register, Login, Google, Kinds
<1>3. CASE AdminStep
  <2>1. ASSUME NEW t \in Tenants, create_tenant(t) PROVE TypeOK'
    BY <1>1, <2>1 DEF create_tenant, TypeOK
  <2>2. ASSUME NEW k \in Keys, NEW t \in Tenants, create_api_key(k, t) PROVE TypeOK'
    <3>1. [tenant |-> t, revoked |-> FALSE] \in Key
      BY DEF Key
    <3> QED
      BY <1>1, <2>2, <3>1 DEF create_api_key, TypeOK
  <2>3. ASSUME NEW k \in Keys, revoke_api_key(k) PROVE TypeOK'
    <3>1. key[k] \in Key
      BY <1>1, <2>3 DEF revoke_api_key, TypeOK
    <3>2. [key[k] EXCEPT !.revoked = TRUE] \in Key
      BY <3>1 DEF Key
    <3> QED
      BY <1>1, <2>3, <3>2 DEF revoke_api_key, TypeOK
  <2> QED
    BY <1>3, <2>1, <2>2, <2>3 DEF AdminStep
<1>4. CASE KeyStep
  <2>1. ASSUME NEW k \in Keys, ReadKey(k) PROVE TypeOK'
    <3>1. [key |-> k, seen |-> key[k]] \in Call
      BY <1>1, <2>1 DEF ReadKey, TypeOK, Call
    <3> QED
      BY <1>1, <2>1, <3>1 DEF ReadKey, TypeOK
  <2>2. CASE TouchKey
    BY <1>1, <2>2 DEF TouchKey, Touched, TypeOK
  <2> QED
    BY <1>4, <2>1, <2>2 DEF KeyStep
<1> QED
  BY <1>2, <1>3, <1>4 DEF Next

\* Every step keeps the tokens of the tenants they were issued to.
LEMMA TokensStep ==
  ASSUME Inv, Next, TenantsGrow
  PROVE  TokensOK'
PROOF
<1>1. \A k \in tokens : WellFormed(k) /\ Identity(k.tenant, k)'
  <2> SUFFICES ASSUME NEW k \in tokens PROVE WellFormed(k) /\ Identity(k.tenant, k)'
    OBVIOUS
  <2>1. WellFormed(k) /\ Identity(k.tenant, k)
    BY DEF Inv, TokensOK
  <2> QED
    BY <2>1, RowsStay DEF Inv, Identity
<1>2. ASSUME NEW r \in Requests, Sign(r), NEW k \in tokens' \ tokens
      PROVE  WellFormed(k) /\ Identity(k.tenant, k)'
  <2>1. /\ WellFormed(request[r]) /\ Identity(request[r].tenant, request[r])
        /\ tenant' = tenant
    BY <1>2 DEF Inv, RequestOK, Sign, At
  <2>2. /\ k.kind = request[r].kind /\ k.email = request[r].email
        /\ k.sub = request[r].sub /\ k.tenant = request[r].tenant
    BY <1>2 DEF Sign
  <2> QED
    BY <2>1, <2>2 DEF WellFormed, Identity, Rows
<1>3. tokens' = tokens \/ \E r \in Requests : Sign(r)
  BY DEF Next, AuthStep, AdminStep, KeyStep, Register, Login, Google, Receive, Look, Insert,
     Refuse, Fail, create_tenant, create_api_key, revoke_api_key, ReadKey, TouchKey
<1> QED
  BY <1>1, <1>2, <1>3 DEF TokensOK, WellFormed

-----------------------------------------------------------------------------
\* Every step preserves it.
LEMMA NextInv == Inv /\ [Next]_vars => Inv'
PROOF
<1> SUFFICES ASSUME Inv, [Next]_vars PROVE Inv'
  OBVIOUS
<1>1. CASE UNCHANGED vars
  BY <1>1 DEF vars, Inv, TypeOK, RequestOK, ErrorOK, Blocks, Refused, NewTenant, Clashes,
              TokensOK, WellFormed, Identity, Matches, Rows, IdentitiesAreUnique, OneCredential,
              At
<1>2. CASE Next
  <2>1. TenantsGrow
    BY <1>2, NextGrows
  <2>2. TypeOK' /\ TokensOK'
    BY <1>2, <2>1, TypeStep, TokensStep
  <2>3. IdentitiesAreUnique' /\ OneCredential'
    BY <2>1, GrowsWell
  <2>4. ASSUME NEW r \in Requests PROVE RequestOK(r)' /\ ErrorOK(r)'
    <3>1. CASE AuthStep(r)
      BY <2>1, <3>1, OwnStep
    <3>2. ASSUME ~AuthStep(r)
          PROVE  request'[r] = request[r] /\ before'[r] = before[r] /\ (r \in fault <=> r \in fault')
      <4>1. CASE \E p \in Requests \ {r} : AuthStep(p)
        BY <4>1 DEF Inv, TypeOK, AuthStep, Register, Login, Google, Receive, Look, Insert, Sign,
                    Refuse, Fail, Goto
      <4>2. CASE AdminStep \/ KeyStep
        BY <4>2 DEF AdminStep, KeyStep, create_tenant, create_api_key, revoke_api_key, ReadKey,
                    TouchKey
      <4> QED
        BY <1>2, <3>2, <4>1, <4>2 DEF Next
    <3> QED
      BY <2>1, <3>1, <3>2, RequestStays
  <2> QED
    BY <2>2, <2>3, <2>4 DEF Inv
<1> QED
  BY <1>1, <1>2

\* The invariant holds throughout.
THEOREM InvHolds == Spec => []Inv
PROOF
  BY InitInv, NextInv, PTL DEF Spec

(***************************************************************************)
(* The theorems.                                                           *)
(***************************************************************************)
\* Rows, requests, keys and tokens keep their shape.
THEOREM TypeCorrectness == Spec => []TypeOK
PROOF
<1>1. Inv => TypeOK
  BY DEF Inv
<1> QED
  BY <1>1, InvHolds, PTL

\* For any number of sign-ups between their lookup and their insert, no email and no
\* Google account gets a second tenant.
THEOREM IdentitiesStayUnique == Spec => []IdentitiesAreUnique
PROOF
<1>1. Inv => IdentitiesAreUnique
  BY DEF Inv
<1> QED
  BY <1>1, InvHolds, PTL

\* A self-registered tenant has a password or a Google account, and not both.
THEOREM CredentialsAreSingle == Spec => []OneCredential
PROOF
<1>1. Inv => OneCredential
  BY DEF Inv
<1> QED
  BY <1>1, InvHolds, PTL

\* A token is for the tenant with the identity it was asked for with, and a Google
\* account's tokens are all for one tenant: its rows are unique and stay.
THEOREM TokensAreOfTheirTenant == Spec => []TokensNameTheirTenant
PROOF
<1>1. Inv => TokensNameTheirTenant
  <2> SUFFICES ASSUME Inv PROVE TokensNameTheirTenant
    OBVIOUS
  <2>1. \A k \in tokens : WellFormed(k) /\ Identity(k.tenant, k)
    BY DEF Inv, TokensOK
  <2>2. ASSUME NEW k \in tokens, NEW l \in tokens,
               k.kind = "google", l.kind = "google", k.sub = l.sub
        PROVE  k.tenant = l.tenant
    <3>1. k.sub # None
      BY <2>1, <2>2, AuthAssumption DEF WellFormed
    <3>2. /\ k.tenant \in Rows /\ tenant[k.tenant].sub = k.sub
          /\ l.tenant \in Rows /\ tenant[l.tenant].sub = k.sub
      BY <2>1, <2>2 DEF Identity
    <3> QED
      BY <3>1, <3>2 DEF Inv, IdentitiesAreUnique
  <2> QED
    BY <2>1, <2>2 DEF TokensNameTheirTenant, Identity
<1> QED
  BY <1>1, InvHolds, PTL

\* Without a fault of Postgres, a login or a registration gets a 500 only for a refused
\* password or a lost race, and a registration of a taken email never.
THEOREM PasswordErrors == Spec => []PasswordErrorsHaveCauses
PROOF
<1>1. Inv => PasswordErrorsHaveCauses
  <2> SUFFICES ASSUME Inv, NEW r \in Requests \ fault, At(r, "500")
               PROVE  /\ request[r].kind = "login" => Refused(request[r])
                      /\ request[r].kind = "register" =>
                           /\ Refused(request[r]) \/ LostRace(r)
                           /\ \A t \in before[r] : tenant[t].email # request[r].email
    BY DEF PasswordErrorsHaveCauses
  <2>1. ErrorOK(r)
    BY DEF Inv
  <2> QED
    BY <2>1 DEF ErrorOK, Blocks, LostRace
<1> QED
  BY <1>1, InvHolds, PTL

\* Where GoogleSignsUpOrIn fails: without a fault of Postgres and a lost race, a Google
\* request gets a 500 only when a tenant without that account has its email.
GoogleErrorsAreTakenEmails ==
  \A r \in Requests \ fault :
    At(r, "500") /\ request[r].kind = "google" /\ ~LostRace(r) =>
      \E t \in Rows : /\ tenant[t].email = request[r].email
                      /\ tenant[t].sub # request[r].sub

\* A Google sign-in that goes wrong loses a race, or another tenant has its email.
THEOREM GoogleErrors == Spec => []GoogleErrorsAreTakenEmails
PROOF
<1>1. Inv => GoogleErrorsAreTakenEmails
  <2> SUFFICES ASSUME Inv, NEW r \in Requests \ fault,
                      At(r, "500"), request[r].kind = "google", ~LostRace(r)
               PROVE  \E t \in Rows : /\ tenant[t].email = request[r].email
                                      /\ tenant[t].sub # request[r].sub
    BY DEF GoogleErrorsAreTakenEmails
  <2>1. ErrorOK(r) /\ ~Refused(request[r])
    BY DEF Inv, RequestOK, Refused, At
  <2>2. PICK t \in Rows : Blocks(t, r)
    BY <2>1 DEF ErrorOK
  <2>3. tenant[t].sub # request[r].sub
    BY <2>2 DEF Blocks, LostRace
  <2> QED
    BY <2>2, <2>3 DEF Blocks, Clashes, NewTenant
<1> QED
  BY <1>1, InvHolds, PTL

\* A revoked key stays revoked, and a key its tenant's, whoever is using it.
THEOREM RevocationsAreFinal == Spec => RevocationIsFinal
PROOF
<1> DEFINE Final == \A k \in Keys : key[k] # None =>
                       /\ key'[k].tenant = key[k].tenant
                       /\ key[k].revoked => key'[k].revoked
<1>1. Inv /\ [Next]_vars => [Final]_key
  <2>0. UNCHANGED vars => UNCHANGED key
    BY DEF vars
  <2> SUFFICES ASSUME Inv, Next PROVE Final
    BY <2>0
  <2> SUFFICES ASSUME NEW k \in Keys, key[k] # None
               PROVE  key'[k].tenant = key[k].tenant /\ (key[k].revoked => key'[k].revoked)
    OBVIOUS
  <2>1. key \in [Keys -> Key \cup {None}] /\ key[k] \in Key
    BY DEF Inv, TypeOK
  <2>2. ASSUME NEW j \in Keys, NEW t \in Tenants, create_api_key(j, t) PROVE key'[k] = key[k]
    BY <2>1, <2>2 DEF create_api_key
  <2>3. ASSUME NEW j \in Keys, revoke_api_key(j)
        PROVE  key'[k] = key[k] \/ key'[k] = [key[k] EXCEPT !.revoked = TRUE]
    <3>1. key' = [key EXCEPT ![j] = [key[j] EXCEPT !.revoked = TRUE]]
      BY <2>3 DEF revoke_api_key
    <3>2. CASE j = k
      BY <2>1, <3>1, <3>2
    <3>3. CASE j # k
      BY <2>1, <3>1, <3>3
    <3> QED
      BY <3>2, <3>3
  <2>4. ASSUME TouchKey PROVE key'[k] = key[k]
    BY <2>1, <2>4 DEF TouchKey, Touched
  <2>5. key' = key \/ TouchKey \/ (\E j \in Keys : revoke_api_key(j))
        \/ \E j \in Keys, t \in Tenants : create_api_key(j, t)
    BY DEF Next, AuthStep, AdminStep, KeyStep, Register, Login, Google, Receive, Look, Insert,
       Sign, Refuse, Fail, create_tenant, ReadKey
  <2>6. \A row \in Key : /\ [row EXCEPT !.revoked = TRUE].tenant = row.tenant
                         /\ [row EXCEPT !.revoked = TRUE].revoked
    BY DEF Key
  <2>7. key'[k] = key[k] \/ key'[k] = [key[k] EXCEPT !.revoked = TRUE]
    BY <2>2, <2>3, <2>4, <2>5
  <2> QED
    BY <2>1, <2>6, <2>7
<1> QED
  BY <1>1, InvHolds, PTL DEF Spec, RevocationIsFinal

(***************************************************************************)
(* The registry.                                                           *)
(***************************************************************************)
\* Nobody has an account, and no token has been signed, at the start.
LEMMA InitRegisters == Init => Registry!Init
PROOF
  BY DEF Init, Registry!Init, accounts, issued, Rows

\* A new row opens one account, of an identity and a tenant that had none, or, when it
\* is an admin's, none.
LEMMA GrowthOpens ==
  ASSUME Inv, NEW t \in Tenants, NEW row \in Tenant, Grows(t, row)
  PROVE  accounts' = accounts \/ \E i \in Identities :
           Registry!Unknown(i) /\ Registry!Free(t) /\ accounts' = accounts \cup {<<i, t>>}
PROOF
<1>1. /\ tenant'[t] = row /\ row # None /\ t \notin Rows
      /\ \A u \in Rows : tenant'[u] = tenant[u]
      /\ Rows' = Rows \cup {t}
  BY AuthAssumption DEF Inv, TypeOK, Grows, Rows
<1>2. /\ row.email \in Emails \cup {None} /\ row.sub \in Subs \cup {None}
      /\ row.password \in BOOLEAN
  BY DEF Tenant
<1>3. /\ ~(row.password /\ row.sub # None)
      /\ row.password => row.email # None
      /\ \A u \in Rows : ~Clashes(tenant[u], row)
  BY DEF Grows, CredentialOK
<1>4. Registry!Free(t)
  BY <1>1 DEF accounts, Registry!Free
<1>5. CASE row.password
  <2>1. Emailed(row.email) \in Identities
    BY <1>2, <1>3, <1>5 DEF Identities
  <2>2. Registry!Unknown(Emailed(row.email))
    BY <1>3, <1>5 DEF accounts, Registry!Unknown, Emailed, Googled, Clashes
  <2>3. accounts' = accounts \cup {<<Emailed(row.email), t>>}
    BY <1>1, <1>3, <1>5 DEF accounts
  <2> QED
    BY <1>4, <2>1, <2>2, <2>3
<1>6. CASE row.sub # None
  <2>1. Googled(row.sub) \in Identities
    BY <1>2, <1>6 DEF Identities
  <2>2. Registry!Unknown(Googled(row.sub))
    BY <1>3, <1>6 DEF accounts, Registry!Unknown, Emailed, Googled, Clashes
  <2>3. accounts' = accounts \cup {<<Googled(row.sub), t>>}
    BY <1>1, <1>3, <1>6 DEF accounts
  <2> QED
    BY <1>4, <2>1, <2>2, <2>3
<1>7. CASE ~row.password /\ row.sub = None
  BY <1>1, <1>7 DEF accounts
<1> QED
  BY <1>5, <1>6, <1>7

\* A token is signed for an account that is there.
LEMMA SigningSignsIn ==
  ASSUME Inv, NEW r \in Requests, Sign(r)
  PROVE  [\E i \in Identities, t \in Tenants : Registry!SignIn(i, t)]_<<accounts, issued>>
PROOF
<1> DEFINE q == request[r]
           i == IF q.kind = "google" THEN Googled(q.sub) ELSE Emailed(q.email)
<1>1. q \in Request /\ WellFormed(q) /\ Identity(q.tenant, q) /\ tenant' = tenant
  BY DEF Inv, TypeOK, RequestOK, Sign, At
<1>2. accounts' = accounts
  BY <1>1 DEF accounts, Rows
<1>3. q.tenant \in Rows /\ q.tenant \in Tenants /\ i \in Identities
  BY <1>1 DEF Identity, Rows, WellFormed, Identities
<1>4. <<i, q.tenant>> \in accounts
  <2>1. CASE q.kind = "google"
    <3>1. tenant[q.tenant].sub = q.sub /\ q.sub # None
      BY <1>1, <2>1, AuthAssumption DEF Identity, WellFormed
    <3> QED
      BY <1>3, <2>1, <3>1 DEF accounts
  <2>2. CASE q.kind # "google"
    <3>1. tenant[q.tenant].email = q.email /\ tenant[q.tenant].password
      BY <1>1, <2>2 DEF Identity
    <3> QED
      BY <1>3, <2>2, <3>1 DEF accounts
  <2> QED
    BY <2>1, <2>2
<1>5. CASE tokens' = tokens
  BY <1>2, <1>5 DEF issued
<1>6. CASE tokens' = tokens \cup
             {[kind |-> q.kind, email |-> q.email, sub |-> q.sub, tenant |-> q.tenant]}
  <2> DEFINE Pair(k) == <<IF k.kind = "google" THEN Googled(k.sub) ELSE Emailed(k.email), k.tenant>>
             new == [kind |-> q.kind, email |-> q.email, sub |-> q.sub, tenant |-> q.tenant]
  <2>0. issued = {Pair(k) : k \in tokens} /\ issued' = {Pair(k) : k \in tokens'}
    BY DEF issued
  <2>1. issued' = issued \cup {<<i, q.tenant>>}
    <3>1. Pair(new) = <<i, q.tenant>>
      OBVIOUS
    <3> HIDE DEF Pair, new
    <3> QED
      BY <1>6, <2>0, <3>1 DEF new
  <2> QED
    BY <1>2, <1>3, <1>4, <2>1 DEF Registry!SignIn
<1> QED
  BY <1>5, <1>6 DEF Sign

\* Tenants and tokens are never changed together.
LEMMA StepParts ==
  ASSUME Inv, Next
  PROVE  \/ UNCHANGED <<tenant, tokens>>
         \/ TenantsGrow /\ tokens' = tokens
         \/ \E r \in Requests : Sign(r)
PROOF
<1>1. TenantsGrow
  BY NextGrows
<1>2. tokens' = tokens \/ \E r \in Requests : Sign(r)
  BY DEF Next, AuthStep, AdminStep, KeyStep, Register, Login, Google, Receive, Look, Insert,
     Refuse, Fail, create_tenant, create_api_key, revoke_api_key, ReadKey, TouchKey
<1> QED
  BY <1>1, <1>2

\* Every step is a step of the registry, or leaves it alone.
LEMMA StepRegisters == Inv /\ [Next]_vars => [Registry!Next]_<<accounts, issued>>
PROOF
<1> SUFFICES ASSUME Inv, [Next]_vars PROVE [Registry!Next]_<<accounts, issued>>
  OBVIOUS
<1>1. CASE UNCHANGED <<tenant, tokens>>
  BY <1>1 DEF accounts, issued, Rows
<1>2. ASSUME NEW t \in Tenants, NEW row \in Tenant, Grows(t, row), tokens' = tokens
      PROVE  [Registry!Next]_<<accounts, issued>>
  <2>1. issued' = issued
    BY <1>2 DEF issued
  <2> QED
    BY <1>2, <2>1, GrowthOpens DEF Registry!Next, Registry!Open
<1>3. ASSUME NEW r \in Requests, Sign(r) PROVE [Registry!Next]_<<accounts, issued>>
  BY <1>3, SigningSignsIn DEF Registry!Next
<1> QED
  BY <1>1, <1>2, <1>3, StepParts DEF TenantsGrow, vars

\* For any number of racing sign-ups and logins, the tenants and the tokens are those of
\* a registry in which an identity has one account.
THEOREM AuthImplementsRegistry == Spec => ImplementsRegistry
PROOF
  BY InitRegisters, StepRegisters, InvHolds, PTL DEF Spec, ImplementsRegistry, Registry!Spec
=============================================================================
