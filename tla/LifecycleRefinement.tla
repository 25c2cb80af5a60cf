------------------------- MODULE LifecycleRefinement -------------------------
(***************************************************************************)
(* ResumeIngestion implements CandidateLifecycle.  An attempt lasts from   *)
(* the commit of `processing` to the commit of a verdict or the end of the *)
(* work on the message; the DynamoDB update and the deletion that follow a *)
(* verdict are outside it.                                                 *)
(***************************************************************************)
EXTENDS ResumeIngestion

Attempting == {"parse", "index", "commit"}

attempt == [w \in Workers |-> IF pc[w] \in Attempting THEN job[w].cand ELSE NoJob]

Lifecycle == INSTANCE CandidateLifecycle WITH None <- NoJob, searchable <- index

\* Every behaviour of the pipeline, with its crashes, redeliveries and overlapping
\* deliveries, is one of the candidate life cycle clients are promised: nothing but
\* an attempt moves a status, and `processed` is never shown before the vector is
\* in the index.
ImplementsLifecycle == Lifecycle!Spec

(***************************************************************************)
(* What a ranking sees of the candidates: their rows and vectors.  The     *)
(* rest of Screening stands still.                                         *)
(***************************************************************************)
\* A row has a full_name once an attempt, or the JSON create, has committed one.
parsedRow == [c \in Candidates |-> IF status[c] = "absent" THEN "none"
                                   ELSE IF c \in linked THEN "parsed" ELSE "unparsed"]

Rankings == INSTANCE Screening WITH
  Own <- Candidates, Jobs <- {}, Scores <- {}, Counts <- {},
  vector_top_k <- 1, ranking_top_n <- 1, ranking_concurrency <- 1,
  row <- parsedRow, vectors <- index, job <- <<>>, jobVectors <- {},
  pc <- "idle", top_k <- 0, top_n <- 0, matches <- <<>>, next <- 1, resolved <- <<>>,
  calls <- <<>>, scores <- <<>>, shortlist <- <<>>, pending <- <<>>, saved <- <<>>,
  indexed <- {}, known <- {}, fault <- FALSE

\* Screening assumes that its candidates are only ever stored, parsed and indexed,
\* one at a time.  That is what ingestion does to them, through every crash,
\* redelivery and overlap of workers: no row a ranking may have resolved loses its
\* full_name again, is deleted or loses its vector (candidate_service.py:63-115).
FeedsRankings ==
  [][\E c \in Candidates : Rankings!Store(c) \/ Rankings!Parse(c) \/ Rankings!Index(c)]_
    <<parsedRow, index>>
==============================================================================
