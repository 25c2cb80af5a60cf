----------------------------- MODULE MCBilling -----------------------------
(* An instance of SubscriptionBilling for TLC.  Tenants, plans, subscriptions*)
(* and requests are model values, interchangeable with one another.          *)
EXTENDS SubscriptionBilling, TLC

CONSTANTS t1, t2, p1, p2, s1, s2, s3, r1, r2

MCTenants  == {t1, t2}
MCPlans    == {p1, p2}
MCSubs     == {s1, s2, s3}
MCRequests == {r1, r2}

Symmetry == Permutations(Tenants) \cup Permutations(Plans)
              \cup Permutations(Subs) \cup Permutations(Requests)
=============================================================================
