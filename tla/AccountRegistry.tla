-------------------------- MODULE AccountRegistry --------------------------
(***************************************************************************)
(* What sign-up and login promise: an identity (an email with a password,  *)
(* or a Google account) opens at most one account, for ever, an account    *)
(* has one identity, and a token is signed for the account of the identity *)
(* it was asked for with.  The rows of tenants, their UNIQUE columns, the  *)
(* requests and their races are TenantAuth's.                              *)
(***************************************************************************)
CONSTANTS Identities, Tenants

VARIABLES accounts,  \* pairs of an identity and the tenant that is its account
          issued     \* the same for every token that has been signed

Init == accounts = {} /\ issued = {}

Unknown(i) == \A a \in accounts : a[1] # i
Free(t)    == \A a \in accounts : a[2] # t

Open(i, t) ==
  /\ Unknown(i) /\ Free(t)
  /\ accounts' = accounts \cup {<<i, t>>}
  /\ UNCHANGED issued

SignIn(i, t) ==
  /\ <<i, t>> \in accounts
  /\ issued' = issued \cup {<<i, t>>}
  /\ UNCHANGED accounts

Next == \E i \in Identities, t \in Tenants : Open(i, t) \/ SignIn(i, t)

Spec == Init /\ [][Next]_<<accounts, issued>>
=============================================================================
