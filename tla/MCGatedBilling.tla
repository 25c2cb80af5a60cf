--------------------------- MODULE MCGatedBilling ---------------------------
(* An instance of GatedBilling for TLC: one tenant, two subscriptions, and   *)
(* two plans of the same length or of different ones.                        *)
EXTENDS GatedBilling, TLC

CONSTANTS t1, p1, p2, s1, s2, r1

MCTenants  == {t1}
MCPlans    == {p1, p2}
MCSubs     == {s1, s2}
MCRequests == {r1}

MCQuota  == p1 :> 1 @@ p2 :> 2
MCMonths == p1 :> 2 @@ p2 :> 2      \* two plans of one length
MCMixed  == p1 :> 1 @@ p2 :> 3      \* a plan and one three times as long

Symmetry == Permutations(Subs)
=============================================================================
