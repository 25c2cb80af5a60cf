------------------------------ MODULE MCQuota ------------------------------
(* An instance of QuotaGate for TLC: three uploads in progress and a clock   *)
(* of a few days.                                                            *)
EXTENDS QuotaGate, TLC

CONSTANTS r1, r2, r3

MCThreeRequests == {r1, r2, r3}

Symmetry == Permutations(Requests)
=============================================================================
