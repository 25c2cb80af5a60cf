-------------------------- MODULE RankingRefinement --------------------------
(***************************************************************************)
(* Screening implements RankingService: the query, the SELECTs and the     *)
(* pool are one judgement, made known by the sort, and the commit saves    *)
(* the answer.                                                             *)
(***************************************************************************)
EXTENDS Screening

Phase ==
  CASE pc \in {"query", "resolve", "evaluate", "drain"} -> "asked"
    [] pc = "record"    -> "judged"
    [] pc = "committed" -> "saved"
    [] OTHER            -> pc

Evaluated == {resolved[i].candidate : i \in DOMAIN resolved}

EvaluationOf(c) == CHOOSE i \in DOMAIN resolved : resolved[i].candidate = c

Judged ==
  IF pc \in {"record", "committed", "answered"}
  THEN [c \in Evaluated |-> scores[EvaluationOf(c)]]
  ELSE [c \in {} |-> 0]

Service == INSTANCE RankingService WITH
             Applicants <- Own,
             phase      <- Phase,
             named      <- {c \in Own : row[c] = "parsed"},
             judged     <- Judged

\* What a recruiter may rely on: an answer is the best of the tenant's own candidates
\* that were judged, each judged once, as many as were wanted and everyone with a name,
\* whatever is written while the ranking is under way; it is saved in one piece, before
\* it is given, and no failure leaves a part of it.
ImplementsService == Service!Spec
=============================================================================
