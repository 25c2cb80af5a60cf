----------------------------- MODULE MCNotifier -----------------------------
(* An instance of StatusNotifier for TLC: the pipeline with one worker, from *)
(* the upload to the notice.                                                 *)
EXTENDS StatusNotifier

CONSTANTS c1, c2, w1

MCCandidates == {c1, c2}
MCWorkers    == {w1}
=============================================================================
