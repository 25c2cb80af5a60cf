---------------------------- MODULE MCScreening ----------------------------
(* An instance of Screening for TLC: two candidates of the tenant, and one   *)
(* of another tenant whose vector is in the namespace.                       *)
EXTENDS RankingRefinement, TLC

CONSTANTS c1, c2, stray, j1

MCOwn      == {c1, c2}
MCAndStray == MCOwn \cup {stray}
MCJobs     == {j1}
MCScores   == {0, 1}
MCCounts   == {-1, 0, 1}
=============================================================================
