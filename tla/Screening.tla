----------------------------- MODULE Screening -----------------------------
(***************************************************************************)
(* POST /screening/rank for one tenant: ranking.rank_candidates_for_job,   *)
(* POST /jobs before it, and the candidates that ingestion writes to       *)
(* Postgres and Pinecone in the meantime.                                  *)
(*                                                                         *)
(* A ranking queries the tenant's namespace, resolves every match against  *)
(* Postgres one SELECT at a time (READ COMMITTED: each sees what is        *)
(* committed by then), has the shortlist evaluated by a thread pool, sorts *)
(* it, and adds one match_results row per ranked candidate to a session it *)
(* commits once.  None and 0 are one value of top_k and top_n: both are    *)
(* falsy, so that `or` replaces them by the default.                       *)
(***************************************************************************)
EXTENDS Integers, Sequences, FiniteSets

CONSTANTS Candidates,   \* candidates with a vector or a row
          Own,          \* those of the tenant; the others' vectors are misplaced here
          Jobs,
          Scores,       \* what the LLM can answer, within 0..100
          Counts,       \* what a client can pass for top_k and top_n; 0 also when omitted
          vector_top_k, ranking_top_n, ranking_concurrency  \* settings

ASSUME ScreeningAssumption ==
  /\ Own \subseteq Candidates /\ IsFiniteSet(Candidates) /\ IsFiniteSet(Jobs)
  /\ Jobs \cap Candidates = {}
  /\ Scores \subseteq Int /\ Counts \subseteq Int /\ 0 \in Counts
  /\ vector_top_k \in Nat \ {0} /\ ranking_top_n \in Nat \ {0}
  /\ ranking_concurrency \in Nat \ {0}      \* Field(gt=0)

VARIABLES
  row,          \* row[c]: no committed row, one without full_name, or one with it
  vectors,      \* candidates with a vector in the tenant's namespace
  job,          \* job[j]: how far its create_job is
  jobVectors,   \* jobs with a vector in the namespace
  pc, top_k, top_n,
  matches,      \* what the query returned, most similar first
  next,         \* the match to resolve next
  resolved,     \* [candidate, named] of the matches with a row, as read
  calls,        \* calls[i]: the evaluation of resolved[i]
  scores,       \* scores[i]: its score, if answered
  shortlist,    \* indexes into resolved, best first
  pending,      \* match_results rows added to the session
  saved,        \* those committed
  \* History:
  indexed,      \* candidates with a vector when the query ran
  known,        \* those of the tenant with a row too
  fault         \* Pinecone, Postgres or the LLM failed this ranking

candidateVars == <<row, vectors>>
jobVars       == <<job, jobVectors>>
inputVars     == <<top_k, top_n>>
queryVars     == <<matches, indexed, known>>
evalVars      == <<calls, scores>>
vars == <<candidateVars, jobVars, pc, inputVars, queryVars, next, resolved, evalVars,
          shortlist, pending, saved, fault>>

Pcs == {"idle", "query", "resolve", "evaluate", "drain", "record", "committed",
        "answered", "failed"}
CallStates == {"waiting", "running", "answered", "failed", "cancelled"}
Resolved == [candidate : Candidates, named : BOOLEAN]
Match    == [candidate : Candidates, score : Scores, rank : Nat]

TypeOK ==
  /\ row \in [Candidates -> {"none", "unparsed", "parsed"}]
  /\ vectors \subseteq Candidates
  /\ job \in [Jobs -> {"none", "flushed", "upserted", "stored", "failed"}]
  /\ jobVectors \subseteq Jobs
  /\ pc \in Pcs
  /\ top_k \in Counts /\ top_n \in Counts
  /\ matches \in Seq(Candidates \cup Jobs)
  /\ next \in 1..Len(matches) + 1
  /\ resolved \in Seq(Resolved)
  /\ calls \in Seq(CallStates) /\ Len(calls) \in {0, Len(resolved)}
  /\ scores \in [{i \in DOMAIN calls : calls[i] = "answered"} -> Scores]
  /\ shortlist \in Seq(DOMAIN resolved)
  /\ pending \in Seq(Match) /\ saved \in Seq(Match)
  /\ indexed \subseteq Candidates /\ known \subseteq Own
  /\ fault \in BOOLEAN

Init ==
  /\ row = [c \in Candidates |-> "none"] /\ vectors = {}
  /\ job = [j \in Jobs |-> "none"] /\ jobVectors = {}
  /\ pc = "idle" /\ top_k = 0 /\ top_n = 0
  /\ matches = <<>> /\ next = 1 /\ resolved = <<>>
  /\ calls = <<>> /\ scores = <<>>
  /\ shortlist = <<>> /\ pending = <<>> /\ saved = <<>>
  /\ indexed = {} /\ known = {} /\ fault = FALSE

(***************************************************************************)
(* Candidates, as ingestion leaves them to a ranking: a placeholder that   *)
(* is parsed later, or a row stored complete; its vector shows up in       *)
(* queries before or after, and also when its row is never committed.      *)
(***************************************************************************)
Write(c, state) ==
  /\ row' = [row EXCEPT ![c] = state]
  /\ UNCHANGED <<vectors, jobVars, pc, inputVars, queryVars, next, resolved, evalVars,
                 shortlist, pending, saved, fault>>

Store(c) == row[c] = "none" /\ (Write(c, "unparsed") \/ Write(c, "parsed"))
Parse(c) == row[c] = "unparsed" /\ Write(c, "parsed")

Index(c) ==
  /\ c \notin vectors
  /\ vectors' = vectors \cup {c}
  /\ UNCHANGED <<row, jobVars, pc, inputVars, queryVars, next, resolved, evalVars,
                 shortlist, pending, saved, fault>>

(***************************************************************************)
(* create_job: flush, upsert, commit; any failure rolls the row back, and  *)
(* leaves a vector that was upserted.                                      *)
(***************************************************************************)
JobStep(j, from, to, vs) ==
  /\ job[j] = from
  /\ job' = [job EXCEPT ![j] = to]
  /\ jobVectors' = vs
  /\ UNCHANGED <<candidateVars, pc, inputVars, queryVars, next, resolved, evalVars,
                 shortlist, pending, saved, fault>>

FlushJob(j)   == JobStep(j, "none", "flushed", jobVectors)
UpsertJob(j)  == JobStep(j, "flushed", "upserted", jobVectors \cup {j})

\* A row committed once it has its id.
CommitFlushed(j) == JobStep(j, "flushed", "stored", jobVectors)

CommitJob(j)  == JobStep(j, "upserted", "stored", jobVectors)
AbandonJob(j) == \E from \in {"flushed", "upserted"} : JobStep(j, from, "failed", jobVectors)

(***************************************************************************)
(* The ranking, up to the shortlist's candidates.                          *)
(***************************************************************************)

\* top_k taken as it comes.
NoDefault == top_k

limit == IF top_k = 0 THEN vector_top_k ELSE top_k
cut   == IF top_n = 0 THEN ranking_top_n ELSE top_n

\* The job exists (404 otherwise).  A request starts from nothing.
Ask ==
  /\ pc \in {"idle", "answered", "failed"}
  /\ \E j \in Jobs : job[j] = "stored"
  /\ pc' = "query"
  /\ top_k' \in Counts /\ top_n' \in Counts
  /\ matches' = <<>> /\ next' = 1 /\ resolved' = <<>>
  /\ calls' = <<>> /\ scores' = <<>>
  /\ shortlist' = <<>> /\ pending' = <<>> /\ saved' = <<>>
  /\ indexed' = {} /\ known' = {} /\ fault' = FALSE
  /\ UNCHANGED <<candidateVars, jobVars>>

\* A query without its filter on the type.
Everything == vectors \cup jobVectors

\* filter: type = candidate.
Eligible == vectors

Least(m, n) == IF m < n THEN m ELSE n

\* The limit most similar of a set, in any order the similarities may give.
TopOf(set) ==
  {m \in [1..Least(limit, Cardinality(set)) -> set] :
     \A a, b \in DOMAIN m : m[a] = m[b] => a = b}

\* Pinecone refuses a top_k that is not positive.
Query ==
  /\ pc = "query"
  /\ IF limit > 0
     THEN /\ matches' \in TopOf(Eligible)
          /\ indexed' = vectors
          /\ known' = {c \in vectors \cap Own : row[c] # "none"}
          /\ pc' = "resolve"
     ELSE pc' = "failed" /\ UNCHANGED queryVars
  /\ UNCHANGED <<candidateVars, jobVars, inputVars, next, resolved, evalVars, shortlist,
                 pending, saved, fault>>

\* A row found by its id alone.
IsAnyones(c) == c \in Candidates /\ row[c] # "none"

\* get_by_id(tenant_id, candidate_id) finds it; a match of no candidate has no id.
IsTheTenants(c) == c \in Own /\ row[c] # "none"

Resolve ==
  /\ pc = "resolve" /\ next <= Len(matches)
  /\ LET c == matches[next] IN
       resolved' = IF IsTheTenants(c)
                   THEN Append(resolved, [candidate |-> c, named |-> row[c] = "parsed"])
                   ELSE resolved
  /\ next' = next + 1
  /\ UNCHANGED <<candidateVars, jobVars, pc, inputVars, queryVars, evalVars, shortlist,
                 pending, saved, fault>>

(***************************************************************************)
(* ThreadPoolExecutor.map: all calls are submitted, ranking_concurrency    *)
(* run at a time, first come first served.  map notices failures in the    *)
(* order of the calls, cancels what has not started, and leaving the       *)
(* `with` waits for what has.                                              *)
(***************************************************************************)
CallsIn(state) == {i \in DOMAIN calls : calls[i] = state}

EvalStep == UNCHANGED <<candidateVars, jobVars, inputVars, queryVars, next, resolved,
                        shortlist, pending, saved>>

Submit ==
  /\ pc = "resolve" /\ next > Len(matches)
  /\ pc' = "evaluate"
  /\ calls' = [i \in DOMAIN resolved |-> "waiting"]
  /\ UNCHANGED <<scores, fault>> /\ EvalStep

HasThread == Cardinality(CallsIn("running")) < ranking_concurrency

Start(i) ==
  /\ pc = "evaluate" /\ i \in CallsIn("waiting")
  /\ \A k \in CallsIn("waiting") : i <= k
  /\ HasThread
  /\ calls' = [calls EXCEPT ![i] = "running"]
  /\ UNCHANGED <<pc, scores, fault>> /\ EvalStep

\* MatchExplanation validates the score.
Answer(i) ==
  /\ i \in CallsIn("running")
  /\ calls' = [calls EXCEPT ![i] = "answered"]
  /\ \E s \in Scores :
       scores' = [k \in DOMAIN scores \cup {i} |-> IF k = i THEN s ELSE scores[k]]
  /\ UNCHANGED <<pc, fault>> /\ EvalStep

\* The call raises, or its answer is no MatchExplanation.
CallFails(i) ==
  /\ i \in CallsIn("running")
  /\ calls' = [calls EXCEPT ![i] = "failed"]
  /\ fault' = TRUE
  /\ UNCHANGED <<pc, scores>> /\ EvalStep

NoticeFailure ==
  /\ pc = "evaluate"
  /\ \E i \in CallsIn("failed") : \A k \in 1..i - 1 : calls[k] = "answered"
  /\ pc' = "drain"
  /\ calls' = [i \in DOMAIN calls |->
                 IF calls[i] = "waiting" THEN "cancelled" ELSE calls[i]]
  /\ UNCHANGED <<scores, fault>> /\ EvalStep

\* An exit that waits for the cancelled calls too.
RaiseAfterAll ==
  /\ pc = "drain" /\ CallsIn("running") \cup CallsIn("cancelled") = {}
  /\ pc' = "failed"
  /\ UNCHANGED <<evalVars, fault>> /\ EvalStep

Raise ==
  /\ pc = "drain" /\ CallsIn("running") = {}
  /\ pc' = "failed"
  /\ UNCHANGED <<evalVars, fault>> /\ EvalStep

(***************************************************************************)
(* sort(key=score, reverse=True), which is stable, and [:top_n], which     *)
(* drops -top_n candidates from the end when top_n is negative.            *)
(***************************************************************************)

\* An unstable sort.
ScoresMore(i, k) == scores[i] > scores[k] \/ (scores[i] = scores[k] /\ i > k)

Precedes(i, k) == scores[i] > scores[k] \/ (scores[i] = scores[k] /\ i < k)

Place(i) == Cardinality({k \in DOMAIN resolved : Precedes(k, i)}) + 1

Sliced == IF cut > 0 THEN Least(cut, Len(resolved))
          ELSE IF Len(resolved) + cut > 0 THEN Len(resolved) + cut ELSE 0

Rank ==
  /\ pc = "evaluate"
  /\ Len(calls) = Len(resolved) /\ CallsIn("answered") = DOMAIN resolved
  /\ shortlist' = [p \in 1..Sliced |-> CHOOSE i \in DOMAIN resolved : Place(i) = p]
  /\ pc' = "record"
  /\ UNCHANGED <<candidateVars, jobVars, inputVars, queryVars, next, resolved, evalVars,
                 pending, saved, fault>>

\* The next entry of the shortlist, and whether its full_name was there when it was read.
entry == shortlist[Len(pending) + 1]

MatchOf(i, rank) == [candidate |-> resolved[i].candidate, score |-> scores[i], rank |-> rank]

RecordStep == UNCHANGED <<candidateVars, jobVars, inputVars, queryVars, next, resolved,
                          evalVars, shortlist>>

\* A commit for every row.
RecordAndCommit ==
  /\ pc = "record" /\ Len(pending) < Len(shortlist)
  /\ resolved[entry].named
  /\ pending' = Append(pending, MatchOf(entry, Len(pending) + 1))
  /\ saved' = pending'
  /\ UNCHANGED <<pc, fault>> /\ RecordStep

Record ==
  /\ pc = "record" /\ Len(pending) < Len(shortlist)
  /\ resolved[entry].named
  /\ pending' = Append(pending, MatchOf(entry, Len(pending) + 1))
  /\ UNCHANGED <<pc, saved, fault>> /\ RecordStep

\* RankedCandidate(full_name=None) raises ValidationError; the session is closed.
RejectUnnamed ==
  /\ pc = "record" /\ Len(pending) < Len(shortlist)
  /\ ~resolved[entry].named
  /\ pc' = "failed" /\ pending' = <<>>
  /\ UNCHANGED <<saved, fault>> /\ RecordStep

Commit ==
  /\ pc = "record" /\ Len(pending) = Len(shortlist)
  /\ saved' = pending
  /\ pc' = "committed"
  /\ UNCHANGED <<pending, fault>> /\ RecordStep

\* The response reads the job, which the commit expired, once more.
Respond ==
  /\ pc = "committed"
  /\ pc' = "answered"
  /\ UNCHANGED <<pending, saved, fault>> /\ RecordStep

\* Pinecone or Postgres fails.
Fail ==
  /\ pc \in {"query", "resolve", "record", "committed"}
  /\ pc' = "failed" /\ pending' = <<>> /\ fault' = TRUE
  /\ UNCHANGED saved /\ RecordStep

-----------------------------------------------------------------------------
Environment ==
  \/ \E c \in Candidates : Store(c) \/ Parse(c) \/ Index(c)
  \/ \E j \in Jobs : FlushJob(j) \/ UpsertJob(j) \/ CommitJob(j) \/ AbandonJob(j)
  \/ Ask \/ Fail
  \/ \E i \in DOMAIN calls : CallFails(i)

Progress ==
  \/ Query \/ Resolve \/ Submit
  \/ \E i \in DOMAIN calls : Start(i) \/ Answer(i)
  \/ NoticeFailure \/ Raise
  \/ Rank \/ Record \/ RejectUnnamed \/ Commit \/ Respond

Next == Environment \/ Progress

Spec     == Init /\ [][Next]_vars
FairSpec == Spec /\ WF_vars(Progress)

(***************************************************************************)
(* Properties.                                                             *)
(***************************************************************************)

\* What create_job promises: a job in Postgres has its vector in the namespace.
JobIsIndexed == \A j \in Jobs : job[j] = "stored" => j \in jobVectors

\* ranking.py:74-76: even with another tenant's vectors in the namespace, no
\* candidate of another tenant reaches the LLM, the answer or match_results.
TenantIsolation ==
  /\ \A i \in DOMAIN resolved : resolved[i].candidate \in Own
  /\ \A p \in DOMAIN pending : pending[p].candidate \in Own
  /\ \A p \in DOMAIN saved : saved[p].candidate \in Own

\* Candidates are not lost on the way to the LLM: when the query asked for as many
\* as there were, every one that had its vector and row is evaluated, whatever the
\* vectors without rows, of other tenants or of jobs, and whatever came meanwhile.
KnownAreEvaluated ==
  pc \in {"evaluate", "record", "committed", "answered"} /\ Cardinality(indexed) <= limit =>
    known \subseteq {resolved[i].candidate : i \in DOMAIN resolved}

\* The shortlist is ordered by score, then by similarity, and nobody left out of it
\* comes before anybody in it, for any top_n, a negative one included.
ShortlistIsBest ==
  pc \in {"record", "committed", "answered"} =>
    LET Better(i, k) == scores[i] > scores[k] \/ (scores[i] = scores[k] /\ i < k)
        Listed == {shortlist[p] : p \in DOMAIN shortlist}
    IN /\ \A p, q \in DOMAIN shortlist : p < q => Better(shortlist[p], shortlist[q])
       /\ \A i \in Listed, k \in DOMAIN resolved \ Listed : Better(i, k)

\* match_results holds a whole answer or none of it: what is saved is the shortlist,
\* ranked 1, 2, ..., and a request that fails saved nothing unless a service failed.
SavedIsWhole ==
  /\ pc \in {"committed", "answered"} =>
       saved = [p \in DOMAIN shortlist |-> MatchOf(shortlist[p], p)]
  /\ saved # <<>> => pc \in {"committed", "answered"} \/ (pc = "failed" /\ fault)

\* A ranking fails only for a reason: a service failed, the client passed a negative
\* top_k, or a shortlisted candidate had no full_name when it was read.
FailsForAReason ==
  pc = "failed" /\ ~fault =>
    \/ top_k < 0
    \/ \E p \in DOMAIN shortlist : ~resolved[shortlist[p]].named

\* Every ranking ends: the pool starts every call it has to, and waits for no call
\* it has cancelled.
RankingEnds == pc = "query" ~> pc \in {"answered", "failed"}
=============================================================================
