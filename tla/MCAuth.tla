------------------------------ MODULE MCAuth ------------------------------
(* Instances of TenantAuth for TLC: an email that is also that of a Google   *)
(* account, another account without an email claim, and two requests.        *)
EXTENDS TenantAuth, TLC

CONSTANTS t1, t2, e1, s1, s2, r1, r2, k1

MCTenants == {t1, t2}
MCEmails  == {e1}
MCSubs    == {s1, s2}
MCRequests   == {r1, r2}
MCKeys    == {k1}

MCGoogleEmail == s1 :> e1 @@ s2 :> NoEmail

Symmetry == Permutations(Tenants) \cup Permutations(Requests)
=============================================================================
