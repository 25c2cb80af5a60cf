---------------------------- MODULE MCMigrations ----------------------------
(* Instances of SchemaMigrations for TLC.                                    *)
EXTENDS SchemaMigrations, TLC

CONSTANTS c1, c2, m1, m2

MCCandidates == {c1, c2}
MCMigrators  == {m1, m2}

Symmetry == Permutations(MCCandidates) \cup Permutations(MCMigrators)
=============================================================================
