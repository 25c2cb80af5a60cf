---------------------------- MODULE TenantAuth ----------------------------
(***************************************************************************)
(* How tenants come to be and are recognised: self-service registration,   *)
(* login and Google sign-in (tenant_registration_service), the tenants and *)
(* API keys of the admin (admin.py), and require_api_key (auth.py).        *)
(*                                                                         *)
(* A sign-up looks its identity up and inserts in two statements, between  *)
(* which others commit; the UNIQUE columns of tenants decide.  The token   *)
(* is signed after the commit.  require_api_key is an async function that  *)
(* never awaits: one call of it at a time reads a key and commits          *)
(* last_used_at, while admin handlers run in other threads.                *)
(* Passwords and tokens are abstracted to whom they belong, and a password *)
(* to whether bcrypt takes it; checking a token and reading lists change   *)
(* nothing.                                                                *)
(***************************************************************************)
EXTENDS FiniteSets

CONSTANTS Tenants,      \* ids; a bound
          Emails, Subs,
          GoogleEmail,  \* the email claim of each Google account, or NoEmail
          Requests,     \* sign-up and login requests in progress at once
          Keys,
          RefusesLong,  \* bcrypt raises on more than 72 bytes (5.x) or cuts them off (4.x)
          None, NoEmail \* NULL, and ""

Kinds  == {"register", "login", "google"}
Stages == {"look", "insert", "sign", "token", "401", "409", "500", "503"}

Tenant  == [email : Emails \cup {None}, password : BOOLEAN, sub : Subs \cup {None}]
Request == [kind : Kinds, email : Emails \cup {NoEmail}, sub : Subs \cup {None},
            long : BOOLEAN, pc : Stages, tenant : Tenants \cup {None}]
Key     == [tenant : Tenants, revoked : BOOLEAN]
Call    == [key : Keys, seen : Key]

ASSUME AuthAssumption ==
  /\ RefusesLong \in BOOLEAN
  /\ NoEmail \notin Emails
  /\ GoogleEmail \in [Subs -> Emails \cup {NoEmail}]
  /\ None \notin Emails \cup Subs \cup Tenants \cup Tenant \cup Request \cup Key \cup Call

VARIABLES
  tenant,     \* tenant[t]: its row
  request,    \* request[r]: a sign-up or login and how it ended
  key,        \* key[k]: the row of an API key
  call,       \* require_api_key between its SELECT and its commit
  \* History:
  tokens,     \* tokens issued: [kind, email, sub] of the request, and the tenant
  before,     \* before[r]: the tenants there were when r looked
  fault       \* requests Postgres failed

vars == <<tenant, request, key, call, tokens, before, fault>>

Rows == {t \in Tenants : tenant[t] # None}

Token == [kind : Kinds, email : Emails \cup {NoEmail}, sub : Subs \cup {None}, tenant : Tenants]

TypeOK ==
  /\ tenant \in [Tenants -> Tenant \cup {None}]
  /\ request \in [Requests -> Request \cup {None}]
  /\ key \in [Keys -> Key \cup {None}]
  /\ call \in Call \cup {None}
  /\ tokens \subseteq Token
  /\ before \in [Requests -> SUBSET Tenants]
  /\ fault \subseteq Requests

Init ==
  /\ tenant = [t \in Tenants |-> None]
  /\ request = [r \in Requests |-> None]
  /\ key = [k \in Keys |-> None]
  /\ call = None
  /\ tokens = {} /\ fault = {}
  /\ before = [r \in Requests |-> {}]

(***************************************************************************)
(* Sign-up and login.                                                      *)
(***************************************************************************)
At(r, stage) == request[r] # None /\ request[r].pc = stage

InProgress(r) == \E stage \in {"look", "insert", "sign"} : At(r, stage)

Receive(r, kind, email, sub, long) ==
  /\ ~InProgress(r)
  /\ request' = [request EXCEPT ![r] = [kind |-> kind, email |-> email, sub |-> sub,
                                        long |-> long, pc |-> "look", tenant |-> None]]
  /\ fault' = fault \ {r}
  /\ before' = [before EXCEPT ![r] = {}]
  /\ UNCHANGED <<tenant, key, call, tokens>>

\* Neither schema bounds the length of a password.
Register(r, email) == \E long \in BOOLEAN : Receive(r, "register", email, None, long)
Login(r, email)    == \E long \in BOOLEAN : Receive(r, "login", email, None, long)
Google(r, sub)     == Receive(r, "google", GoogleEmail[sub], sub, FALSE)

Goto(r, stage, t) == request' = [request EXCEPT ![r].pc = stage, ![r].tenant = t]

\* Everybody is looked up by email.
MatchesEmail(t, q) == tenant[t].email = q.email

\* A lookup that misses, comparing what was typed with what was stored.
MatchesNobody(t, q) == FALSE

\* The WHERE of the SELECT: google_sub for Google, email for the others.
Matches(t, q) == IF q.kind = "google" THEN tenant[t].sub = q.sub
                                      ELSE tenant[t].email = q.email

\* hashpw or checkpw raises a ValueError, which no handler catches.
Refused(q) == RefusesLong /\ q.long

\* The lookup, and the password hashed after a miss or checked after a hit.
Look(r) ==
  /\ At(r, "look")
  /\ before' = [before EXCEPT ![r] = Rows]
  /\ LET q == request[r]
         found == {t \in Rows : Matches(t, q)}
         user  == {t \in found : tenant[t].password} IN
       \/ q.kind = "register" /\ found # {} /\ Goto(r, "409", None)
       \/ q.kind = "register" /\ found = {} /\ Refused(q) /\ Goto(r, "500", None)
       \/ q.kind # "login" /\ found = {} /\ ~Refused(q) /\ Goto(r, "insert", None)
       \/ q.kind = "google" /\ \E t \in found : Goto(r, "sign", t)
       \/ q.kind = "login" /\ user # {} /\ Refused(q) /\ Goto(r, "500", None)
       \/ q.kind = "login" /\ ~Refused(q) /\ \E t \in user : Goto(r, "sign", t)
       \* nobody, or a wrong password
       \/ q.kind = "login" /\ (user = {} \/ ~Refused(q)) /\ Goto(r, "401", None)
  /\ UNCHANGED <<tenant, key, call, tokens, fault>>

\* A row with the email claim as it comes.
NewTenantRaw(q) == [email |-> q.email, password |-> q.kind = "register", sub |-> q.sub]

\* A password hash for everybody.
NewTenantHashed(q) ==
  [email |-> IF q.email = NoEmail THEN None ELSE q.email, password |-> TRUE, sub |-> q.sub]

NewTenant(q) ==
  [email |-> IF q.email = NoEmail THEN None ELSE q.email,
   password |-> q.kind = "register", sub |-> q.sub]

\* google_sub without its UNIQUE.
ClashesOnEmail(a, b) == a.email # None /\ a.email = b.email

\* The UNIQUE columns; NULLs do not clash.
Clashes(a, b) == \/ a.email # None /\ a.email = b.email
                 \/ a.sub # None /\ a.sub = b.sub

\* The commit, or an IntegrityError nobody catches.
Insert(r) ==
  /\ At(r, "insert")
  /\ LET new == NewTenant(request[r]) IN
       IF \E t \in Rows : Clashes(tenant[t], new)
       THEN Goto(r, "500", None) /\ UNCHANGED tenant
       ELSE \E t \in Tenants \ Rows :
              tenant' = [tenant EXCEPT ![t] = new] /\ Goto(r, "sign", t)
  /\ UNCHANGED <<key, call, tokens, before, fault>>

\* 503 when JWT_SECRET is not set; the tenant stays.
Sign(r) ==
  /\ At(r, "sign")
  /\ LET q == request[r] IN
       \/ /\ Goto(r, "token", q.tenant)
          /\ tokens' = tokens \cup
               {[kind |-> q.kind, email |-> q.email, sub |-> q.sub, tenant |-> q.tenant]}
       \/ Goto(r, "503", q.tenant) /\ UNCHANGED tokens
  /\ UNCHANGED <<tenant, key, call, before, fault>>

\* Google refuses the ID token: 401, or 503 when no client id is configured.
Refuse(r) ==
  /\ At(r, "look") /\ request[r].kind = "google"
  /\ \E code \in {"401", "503"} : Goto(r, code, None)
  /\ UNCHANGED <<tenant, key, call, tokens, before, fault>>

\* Postgres fails, before the commit or at the refresh after it.
Fail(r) ==
  /\ InProgress(r)
  /\ Goto(r, "500", None)
  /\ fault' = fault \cup {r}
  /\ UNCHANGED <<tenant, key, call, tokens, before>>

(***************************************************************************)
(* The admin, and requests with an API key.                                *)
(***************************************************************************)
create_tenant(t) ==
  /\ t \notin Rows
  /\ tenant' = [tenant EXCEPT ![t] = [email |-> None, password |-> FALSE, sub |-> None]]
  /\ UNCHANGED <<request, key, call, tokens, before, fault>>

create_api_key(k, t) ==
  /\ t \in Rows /\ key[k] = None
  /\ key' = [key EXCEPT ![k] = [tenant |-> t, revoked |-> FALSE]]
  /\ UNCHANGED <<tenant, request, call, tokens, before, fault>>

revoke_api_key(k) ==
  /\ key[k] # None
  /\ key' = [key EXCEPT ![k].revoked = TRUE]
  /\ UNCHANGED <<tenant, request, call, tokens, before, fault>>

ReadKey(k) ==
  /\ call = None
  /\ key[k] # None /\ ~key[k].revoked
  /\ call' = [key |-> k, seen |-> key[k]]
  /\ UNCHANGED <<tenant, request, key, tokens, before, fault>>

\* An UPDATE of the whole row as it was read.
TouchedWhole(row, seen) == seen

\* The UPDATE sets last_used_at, and no other column.
Touched(row, seen) == row

\* The call goes on as the key's tenant; or the UPDATE fails, and the row stays too.
TouchKey ==
  /\ call # None
  /\ key' = [key EXCEPT ![call.key] = Touched(key[call.key], call.seen)]
  /\ call' = None
  /\ UNCHANGED <<tenant, request, tokens, before, fault>>

-----------------------------------------------------------------------------
AuthStep(r) ==
  \/ \E email \in Emails : Register(r, email) \/ Login(r, email)
  \/ \E sub \in Subs : Google(r, sub)
  \/ Look(r) \/ Insert(r) \/ Sign(r) \/ Refuse(r) \/ Fail(r)

AdminStep ==
  \/ \E t \in Tenants : create_tenant(t) \/ \E k \in Keys : create_api_key(k, t)
  \/ \E k \in Keys : revoke_api_key(k)

KeyStep == (\E k \in Keys : ReadKey(k)) \/ TouchKey

Next == (\E r \in Requests : AuthStep(r)) \/ AdminStep \/ KeyStep

Spec == Init /\ [][Next]_vars

(***************************************************************************)
(* Properties.                                                             *)
(***************************************************************************)

\* However many sign-ups look before any of them inserts, an email and a Google
\* account each have one tenant.
IdentitiesAreUnique ==
  \A t, u \in Rows : t # u =>
    /\ tenant[t].email # None => tenant[t].email # tenant[u].email
    /\ tenant[t].sub # None => tenant[t].sub # tenant[u].sub

\* db.py:17-19: "A self-registered tenant has exactly one of hashed_password (email
\* sign-up) or google_sub (Google sign-up) set, never both"; an admin's has neither,
\* nor an email.
OneCredential ==
  \A t \in Rows : LET row == tenant[t] IN
    /\ ~(row.password /\ row.sub # None)
    /\ row.email # None => row.password \/ row.sub # None
    /\ row.password => row.email # None

\* A token is for the tenant that has the identity it was asked for with, whether the
\* request created it, found it, or lost it to another request meanwhile; so that
\* signing in twice gives the same tenant.
TokensNameTheirTenant ==
  \A k \in tokens :
    /\ k.tenant \in Rows
    /\ IF k.kind = "google" THEN tenant[k.tenant].sub = k.sub
       ELSE tenant[k.tenant].email = k.email /\ tenant[k.tenant].password
    /\ \A l \in tokens : k.kind = "google" /\ l.kind = "google" /\ k.sub = l.sub =>
                           k.tenant = l.tenant

\* A tenant inserted after r looked has what r wanted.
LostRace(r) ==
  \E t \in Rows \ before[r] : Clashes(tenant[t], NewTenant(request[r]))

\* Unless Postgres failed it, a login ends in a 500 only for a password bcrypt refuses,
\* a registration only for that or because it lost a race; and one whose email was taken
\* when it looked gets its 409, whatever its password.
PasswordErrorsHaveCauses ==
  \A r \in Requests \ fault : At(r, "500") =>
    /\ request[r].kind = "login" => Refused(request[r])
    /\ request[r].kind = "register" =>
         /\ Refused(request[r]) \/ LostRace(r)
         /\ \A t \in before[r] : tenant[t].email # request[r].email

\* README.md:212: a verified Google ID token means "sign-up *or* login, whichever
\* applies".  Unless Postgres failed it or it lost a race, a Google request gets no 500.
GoogleSignsUpOrIn ==
  \A r \in Requests \ fault :
    At(r, "500") /\ request[r].kind = "google" => LostRace(r)

\* Using a key while it is being revoked does not bring it back, and a key never
\* changes its tenant.
RevocationIsFinal ==
  [][\A k \in Keys : key[k] # None =>
       /\ key'[k].tenant = key[k].tenant
       /\ key[k].revoked => key'[k].revoked]_key

-----------------------------------------------------------------------------
(***************************************************************************)
(* The registry this implements.                                           *)
(***************************************************************************)
Emailed(email) == <<"email", email>>
Googled(sub)   == <<"google", sub>>

Identities == {Emailed(email) : email \in Emails} \cup {Googled(sub) : sub \in Subs}

\* The tenants somebody can log in to; an admin's cannot be.
accounts ==
  {<<Emailed(tenant[t].email), t>> : t \in {u \in Rows : tenant[u].password}}
    \cup {<<Googled(tenant[t].sub), t>> : t \in {u \in Rows : tenant[u].sub # None}}

issued == {<<IF k.kind = "google" THEN Googled(k.sub) ELSE Emailed(k.email), k.tenant>> : k \in tokens}

Registry == INSTANCE AccountRegistry

\* However sign-ups race, are refused or fail between their lookup, their commit and
\* their token, what outlives them is a registry: nobody's account is given to another
\* identity, opened twice or lost, and no token is for an account that is not there.
ImplementsRegistry == Registry!Spec
=============================================================================
