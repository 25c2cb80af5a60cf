---------------------------- MODULE MCIngestion ----------------------------
(* Instances of ResumeIngestion for TLC.  Candidates and workers are model   *)
(* values; symmetry is used in the runs without liveness properties.         *)
EXTENDS LifecycleRefinement, TLC

CONSTANTS c1, c2, w1, w2

MCOneCandidate  == {c1}
MCCandidates    == {c1, c2}
MCOneWorker     == {w1}
MCWorkers       == {w1, w2}

Symmetry == Permutations(Candidates) \cup Permutations(Workers)
=============================================================================
