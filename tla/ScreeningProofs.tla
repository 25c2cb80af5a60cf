-------------------------- MODULE ScreeningProofs --------------------------
(***************************************************************************)
(* Proofs about Screening, for any candidates, scores, settings and        *)
(* requests: what a ranking evaluates, lists and saves.                    *)
(***************************************************************************)
EXTENDS RankingRefinement, FiniteSetTheorems, SequenceTheorems, TLAPS

\* How many there are up to n.
LEMMA UpTo ==
  ASSUME NEW n \in Nat
  PROVE  IsFiniteSet(1..n) /\ Cardinality(1..n) = n
PROOF BY FS_Interval

\* A function on 1..n is a sequence of length n.
LEMMA IsSequence ==
  ASSUME NEW n \in Nat, NEW S, NEW f \in [1..n -> S]
  PROVE  f \in Seq(S) /\ Len(f) = n
PROOF OBVIOUS

(***************************************************************************)
(* Place numbers the candidates 1, 2, ... in the order of Precedes: it     *)
(* counts those ahead, and whoever precedes k has strictly fewer ahead of  *)
(* it than k.  An injection of 1..n in 1..n is onto, so CHOOSE finds a     *)
(* candidate for every place.                                              *)
(***************************************************************************)
LEMMA PlaceIsAPermutation ==
  ASSUME resolved \in Seq(Resolved), \A i \in DOMAIN resolved : scores[i] \in Int
  PROVE  /\ \A i \in DOMAIN resolved : Place(i) \in 1..Len(resolved)
         /\ \A i, k \in DOMAIN resolved : Precedes(i, k) => Place(i) < Place(k)
         /\ \A p \in 1..Len(resolved) : \E i \in DOMAIN resolved : Place(i) = p
PROOF
<1> DEFINE n == Len(resolved)
           D == DOMAIN resolved
           Ahead(i) == {k \in D : Precedes(k, i)}
<1>1. n \in Nat /\ D = 1..n /\ IsFiniteSet(D) /\ Cardinality(D) = n
  <2>1. n \in Nat /\ D = 1..n
    BY LenProperties
  <2>2. IsFiniteSet(1..n) /\ Cardinality(1..n) = n
    BY <2>1, UpTo
  <2> QED
    BY <2>1, <2>2
<1>2. ASSUME NEW i \in D
      PROVE  /\ IsFiniteSet(Ahead(i)) /\ Cardinality(Ahead(i)) \in 0..n - 1
             /\ Place(i) = Cardinality(Ahead(i)) + 1
  <2>1. Ahead(i) \in SUBSET (D \ {i})
    BY <1>2 DEF Precedes
  <2>2. IsFiniteSet(D \ {i}) /\ Cardinality(D \ {i}) = n - 1
    BY <1>1, <1>2, FS_RemoveElement
  <2>3. IsFiniteSet(Ahead(i)) /\ Cardinality(Ahead(i)) <= n - 1
    BY <2>1, <2>2, FS_Subset
  <2>4. Cardinality(Ahead(i)) \in Nat
    BY <2>3, FS_CardinalityType
  <2>5. Place(i) = Cardinality(Ahead(i)) + 1
    BY DEF Place
  <2> QED
    BY <1>1, <2>3, <2>4, <2>5
<1>a. ASSUME NEW i \in D PROVE Place(i) \in 1..n
  <2>1. /\ Cardinality(Ahead(i)) \in 0..n - 1
        /\ Place(i) = Cardinality(Ahead(i)) + 1
    BY <1>2, <1>a
  <2> HIDE DEF Ahead, D
  <2> QED
    BY <1>1, <2>1
<1>3. ASSUME NEW i \in D, NEW k \in D, Precedes(i, k)
      PROVE  Place(i) < Place(k)
  <2>1. Ahead(i) \in SUBSET Ahead(k)
    BY <1>1, <1>3 DEF Precedes
  <2>2. i \in Ahead(k) /\ i \notin Ahead(i)
    BY <1>1, <1>3 DEF Precedes
  <2>3. /\ Cardinality(Ahead(i)) <= Cardinality(Ahead(k))
        /\ Cardinality(Ahead(i)) # Cardinality(Ahead(k))
    BY <1>2, <2>1, <2>2, FS_Subset
  <2>4. /\ Place(i) = Cardinality(Ahead(i)) + 1 /\ Place(k) = Cardinality(Ahead(k)) + 1
        /\ Cardinality(Ahead(i)) \in Int /\ Cardinality(Ahead(k)) \in Int
    <3>1. Cardinality(Ahead(i)) \in 0..n - 1 /\ Place(i) = Cardinality(Ahead(i)) + 1
      BY <1>2, <1>3
    <3>2. Cardinality(Ahead(k)) \in 0..n - 1 /\ Place(k) = Cardinality(Ahead(k)) + 1
      BY <1>2, <1>3
    <3> HIDE DEF Ahead, D
    <3> QED
      BY <1>1, <3>1, <3>2
  <2> HIDE DEF Ahead
  <2> QED
    BY <2>3, <2>4
<1> DEFINE place == [i \in D |-> Place(i)]
<1>4. place \in Injection(D, D)
  <2>1. place \in [D -> D]
    BY <1>1, <1>a
  <2>2. ASSUME NEW i \in D, NEW k \in D, i # k PROVE place[i] # place[k]
    <3>1. Precedes(i, k) \/ Precedes(k, i)
      BY <1>1, <2>2 DEF Precedes
    <3>2. Place(i) # Place(k)
      BY <1>1, <1>a, <1>3, <2>2, <3>1
    <3> QED
      BY <3>2
  <2> QED
    BY <2>1, <2>2 DEF Injection, IsInjective
<1>5. place \in Surjection(D, D)
  BY <1>1, <1>4, FS_Injection
<1>6. \A p \in D : \E i \in D : Place(i) = p
  BY <1>5 DEF Surjection
<1> QED
  BY <1>1, <1>a, <1>3, <1>6

(***************************************************************************)
(* Types.  The sequences of a ranking grow one after the other: there is   *)
(* no match before the query, no call before the submission, and only a    *)
(* ranking whose calls have all been answered has a shortlist.             *)
(***************************************************************************)
Stages ==
  /\ pc \in {"idle", "query"} => next = 1
  /\ pc \in {"idle", "query", "resolve"} => calls = <<>>
  /\ pc \in {"record", "committed", "answered"} => CallsIn("answered") = DOMAIN resolved

TypeInv == TypeOK /\ Stages

\* The initial state is well typed.
LEMMA InitType == Init => TypeInv
PROOF
<1> SUFFICES ASSUME Init PROVE TypeInv
  OBVIOUS
<1> USE ScreeningAssumption DEF Init
<1>1. /\ row \in [Candidates -> {"none", "unparsed", "parsed"}] /\ vectors \subseteq Candidates
      /\ job \in [Jobs -> {"none", "flushed", "upserted", "stored", "failed"}]
      /\ jobVectors \subseteq Jobs /\ indexed \subseteq Candidates /\ known \subseteq Own
      /\ fault \in BOOLEAN
  OBVIOUS
<1>2. pc \in Pcs
  BY DEF Pcs
<1>3. /\ matches \in Seq(Candidates \cup Jobs) /\ next \in 1..Len(matches) + 1
      /\ resolved \in Seq(Resolved) /\ shortlist \in Seq(DOMAIN resolved)
      /\ pending \in Seq(Match) /\ saved \in Seq(Match)
      /\ calls \in Seq(CallStates) /\ Len(calls) = 0
  OBVIOUS
<1>4. scores \in [{i \in DOMAIN calls : calls[i] = "answered"} -> Scores]
  OBVIOUS
<1>5. top_k \in Counts /\ top_n \in Counts
  OBVIOUS
<1>6. Stages
  BY DEF Stages
<1> QED
  BY <1>1, <1>2, <1>3, <1>4, <1>5, <1>6 DEF TypeOK, TypeInv

\* A ranking's variables are left alone by the environment's writes.
LEMMA WriteType ==
  ASSUME TypeInv, NEW c \in Candidates, Store(c) \/ Parse(c) \/ Index(c)
  PROVE  TypeInv'
PROOF
<1> USE DEF TypeInv, TypeOK, jobVars, inputVars, queryVars, evalVars
<1>1. CASE Index(c)
  BY <1>1 DEF Index, Stages, CallsIn
<1>2. CASE Store(c) \/ Parse(c)
  <2>1. PICK state \in {"unparsed", "parsed"} : Write(c, state)
    BY <1>2 DEF Store, Parse
  <2>2. row' \in [Candidates -> {"none", "unparsed", "parsed"}]
    BY <2>1 DEF Write
  <2> QED
    BY <2>1, <2>2 DEF Write, Stages, CallsIn
<1> QED
  BY <1>1, <1>2

\* A step of create_job changes only its own variables, within their types.
LEMMA JobType ==
  ASSUME TypeInv, NEW j \in Jobs, FlushJob(j) \/ UpsertJob(j) \/ CommitJob(j) \/ AbandonJob(j)
  PROVE  TypeInv'
PROOF
<1> USE DEF TypeInv, TypeOK, candidateVars, inputVars, queryVars, evalVars
<1>1. PICK from \in {"none", "flushed", "upserted"}, to \in {"flushed", "upserted", "stored", "failed"},
           vs \in {jobVectors, jobVectors \cup {j}} : JobStep(j, from, to, vs)
  BY DEF FlushJob, UpsertJob, CommitJob, AbandonJob
<1>2. /\ job' \in [Jobs -> {"none", "flushed", "upserted", "stored", "failed"}]
      /\ jobVectors' \subseteq Jobs
  BY <1>1 DEF JobStep
<1> QED
  BY <1>1, <1>2 DEF JobStep, Stages, CallsIn

\* A request starts from empty sequences, which are well typed.
LEMMA AskType ==
  ASSUME TypeInv, Ask
  PROVE  TypeInv'
PROOF
<1> USE DEF TypeInv, TypeOK, Ask, candidateVars, jobVars, Pcs
<1>1. /\ matches' \in Seq(Candidates \cup Jobs) /\ next' \in 1..Len(matches') + 1
      /\ resolved' \in Seq(Resolved) /\ shortlist' \in Seq(DOMAIN resolved')
      /\ pending' \in Seq(Match) /\ saved' \in Seq(Match)
      /\ calls' \in Seq(CallStates) /\ Len(calls') = 0
  OBVIOUS
<1>2. scores' \in [{i \in DOMAIN calls' : calls'[i] = "answered"} -> Scores]
  OBVIOUS
<1>3. Stages'
  BY DEF Stages
<1> QED
  BY <1>1, <1>2, <1>3

\* There are finitely many vectors, so they can be counted.
LEMMA VectorsAreFinite ==
  ASSUME vectors \subseteq Candidates
  PROVE  IsFiniteSet(vectors) /\ Cardinality(vectors) \in Nat
PROOF
<1>1. IsFiniteSet(vectors)
  BY ScreeningAssumption, FS_Subset
<1> QED
  BY <1>1, FS_CardinalityType

\* What the query returns are candidates, at most limit of them.
LEMMA QueryType ==
  ASSUME TypeInv, Query
  PROVE  TypeInv'
PROOF
<1> USE DEF TypeInv, TypeOK, Query, candidateVars, jobVars, inputVars, evalVars, queryVars
<1>1. /\ matches' \in Seq(Candidates \cup Jobs)
      /\ indexed' \subseteq Candidates /\ known' \subseteq Own
  <2>1. CASE limit > 0
    <3>1. limit \in Nat /\ vectors \subseteq Candidates
      BY <2>1, ScreeningAssumption DEF limit
    <3>2. Cardinality(vectors) \in Nat
      BY <3>1, VectorsAreFinite
    <3>3. Least(limit, Cardinality(vectors)) \in Nat
      BY <3>1, <3>2 DEF Least
    <3>4. matches' \in [1..Least(limit, Cardinality(vectors)) -> vectors]
      BY <2>1 DEF TopOf, Eligible
    <3>5. matches' \in Seq(vectors)
      BY <3>3, <3>4, IsSequence
    <3> QED
      BY <2>1, <3>1, <3>5, SeqMonotonic
  <2>2. CASE ~(limit > 0)
    BY <2>2
  <2> QED
    BY <2>1, <2>2
<1>2. next = 1 /\ Len(matches') \in Nat /\ calls = <<>>
  BY <1>1 DEF Stages
<1>3. pc' \in {"resolve", "failed"}
  OBVIOUS
<1>4. Stages'
  BY <1>2, <1>3 DEF Stages
<1> QED
  BY <1>1, <1>2, <1>3, <1>4 DEF Pcs

\* A sequence that is not shorter has every index of the other.
LEMMA LongerDomain ==
  ASSUME NEW S, NEW s \in Seq(S), NEW t \in Seq(S), Len(s) <= Len(t)
  PROVE  DOMAIN s \subseteq DOMAIN t
PROOF
<1>1. Len(s) \in Nat /\ Len(t) \in Nat /\ DOMAIN s = 1..Len(s) /\ DOMAIN t = 1..Len(t)
  BY LenProperties
<1> QED
  BY <1>1

\* Resolving a match appends at most one row and moves on by one.
LEMMA ResolveType ==
  ASSUME TypeInv, Resolve
  PROVE  TypeInv'
PROOF
<1> USE DEF TypeInv, TypeOK, Resolve, candidateVars, jobVars, inputVars, evalVars, queryVars
<1>1. resolved' \in Seq(Resolved) /\ Len(resolved') \in Nat /\ Len(resolved) <= Len(resolved')
  <2>1. CASE IsTheTenants(matches[next])
    <3>1. [candidate |-> matches[next], named |-> row[matches[next]] = "parsed"] \in Resolved
      BY <2>1, ScreeningAssumption DEF IsTheTenants, Resolved
    <3> QED
      BY <2>1, <3>1
  <2>2. CASE ~IsTheTenants(matches[next])
    BY <2>2
  <2> QED
    BY <2>1, <2>2
<1>2. shortlist' \in Seq(DOMAIN resolved')
  <2>1. resolved \in Seq(Resolved) /\ shortlist' \in Seq(DOMAIN resolved)
    OBVIOUS
  <2> HIDE DEF TypeInv, TypeOK, Resolve
  <2>2. DOMAIN resolved \subseteq DOMAIN resolved'
    BY <1>1, <2>1, LongerDomain
  <2> QED
    BY <2>1, <2>2, SeqMonotonic
<1>3. calls = <<>>
  BY DEF Stages
<1>4. next' \in 1..Len(matches') + 1
  OBVIOUS
<1>5. Stages'
  BY <1>3 DEF Stages
<1> QED
  BY <1>1, <1>2, <1>3, <1>4, <1>5

\* What a step of the pool leaves alone has its type.
EvalFrame ==
  /\ row \in [Candidates -> {"none", "unparsed", "parsed"}] /\ vectors \subseteq Candidates
  /\ job \in [Jobs -> {"none", "flushed", "upserted", "stored", "failed"}]
  /\ jobVectors \subseteq Jobs
  /\ top_k \in Counts /\ top_n \in Counts
  /\ matches \in Seq(Candidates \cup Jobs) /\ next \in 1..Len(matches) + 1
  /\ resolved \in Seq(Resolved) /\ shortlist \in Seq(DOMAIN resolved)
  /\ pending \in Seq(Match) /\ saved \in Seq(Match)
  /\ indexed \subseteq Candidates /\ known \subseteq Own

\* What a step of the pool leaves alone.
LEMMA EvalStepFrame ==
  ASSUME TypeOK, EvalStep
  PROVE  EvalFrame'
PROOF BY DEF TypeOK, EvalStep, EvalFrame, candidateVars, jobVars, inputVars, queryVars

\* Submitting makes one call for every resolved candidate.
LEMMA SubmitType ==
  ASSUME TypeInv, Submit
  PROVE  TypeInv'
PROOF
<1> USE DEF TypeInv, Submit
<1>1. EvalFrame'
  BY EvalStepFrame
<1>2. calls' \in Seq(CallStates) /\ Len(calls') = Len(resolved')
  <2>1. resolved \in Seq(Resolved) /\ resolved' = resolved
    BY DEF TypeOK, EvalStep
  <2>2. Len(resolved) \in Nat /\ DOMAIN resolved = 1..Len(resolved)
    BY <2>1, LenProperties
  <2>3. calls' \in [1..Len(resolved) -> CallStates]
    BY <2>2 DEF CallStates
  <2> QED
    BY <2>1, <2>2, <2>3, IsSequence
<1>3. scores' \in [{i \in DOMAIN calls' : calls'[i] = "answered"} -> Scores]
  <2>1. {i \in DOMAIN calls : calls[i] = "answered"} = {}
    BY DEF Stages
  <2>2. {i \in DOMAIN calls' : calls'[i] = "answered"} = {}
    OBVIOUS
  <2> QED
    BY <2>1, <2>2 DEF TypeOK
<1>4. Stages'
  BY DEF Stages
<1>5. pc' \in Pcs /\ fault' \in BOOLEAN
  BY DEF TypeOK, Pcs
<1> QED
  BY <1>1, <1>2, <1>3, <1>4, <1>5 DEF TypeOK, EvalFrame

(***************************************************************************)
(* A call changes state: what holds of the sequence of calls, whichever    *)
(* state that is.                                                          *)
(***************************************************************************)
LEMMA CallChanges ==
  ASSUME TypeOK, NEW i \in DOMAIN calls, NEW state \in CallStates,
         calls' = [calls EXCEPT ![i] = state]
  PROVE  /\ calls' \in Seq(CallStates) /\ Len(calls') = Len(calls) /\ DOMAIN calls' = DOMAIN calls
         /\ {k \in DOMAIN calls' : calls'[k] = "answered"} =
              IF state = "answered" THEN CallsIn("answered") \cup {i}
              ELSE CallsIn("answered") \ {i}
PROOF BY DEF TypeOK, CallsIn

\* There is a call for every resolved candidate, or none yet.
LEMMA CallsDomain ==
  ASSUME TypeOK
  PROVE  /\ DOMAIN calls = {} \/ DOMAIN calls = DOMAIN resolved
         /\ Len(calls) = Len(resolved) => DOMAIN calls = DOMAIN resolved
PROOF
<1>1. DOMAIN calls = 1..Len(calls) /\ DOMAIN resolved = 1..Len(resolved)
  BY LenProperties DEF TypeOK
<1>2. Len(calls) = 0 \/ Len(calls) = Len(resolved)
  BY DEF TypeOK
<1>3. 1..0 = {}
  OBVIOUS
<1> QED
  BY <1>1, <1>2, <1>3

\* Once there is a shortlist, no call is outstanding.
LEMMA CallsAreOver ==
  ASSUME TypeInv, pc \in {"record", "committed", "answered"}, NEW i \in DOMAIN calls
  PROVE  calls[i] = "answered"
PROOF
<1>1. CallsIn("answered") = DOMAIN resolved
  BY DEF TypeInv, Stages
<1>2. DOMAIN calls = {} \/ DOMAIN calls = DOMAIN resolved
  BY CallsDomain DEF TypeInv
<1>3. i \in CallsIn("answered")
  BY <1>1, <1>2
<1> QED
  BY <1>3 DEF CallsIn

\* A call that starts, answers or fails keeps the calls and scores in step.
LEMMA CallType ==
  ASSUME TypeInv, NEW i \in DOMAIN calls, Start(i) \/ Answer(i) \/ CallFails(i)
  PROVE  TypeInv'
PROOF
<1> USE DEF TypeInv
<1>1. EvalFrame' /\ resolved' = resolved
  BY EvalStepFrame DEF Start, Answer, CallFails, EvalStep
<1>2. pc' = pc /\ pc' \in Pcs /\ fault' \in BOOLEAN
  BY DEF Start, Answer, CallFails, TypeOK
<1>3. ~(pc \in {"idle", "query", "resolve"})
  BY DEF Stages, Start, Answer, CallFails, CallsIn
<1>4. ~(pc \in {"record", "committed", "answered"})
  BY CallsAreOver DEF Start, Answer, CallFails, CallsIn
<1>5. Stages'
  BY <1>2, <1>3, <1>4 DEF Stages
<1>6. CASE Start(i) \/ CallFails(i)
  <2>1. PICK state \in {"running", "failed"} : calls' = [calls EXCEPT ![i] = state]
    BY <1>6 DEF Start, CallFails
  <2>2. i \notin CallsIn("answered") /\ scores' = scores
    BY <1>6 DEF Start, CallFails, CallsIn
  <2>3. calls' \in Seq(CallStates) /\ Len(calls') = Len(calls)
    BY <2>1, CallChanges DEF CallStates
  <2>4. {k \in DOMAIN calls' : calls'[k] = "answered"} = CallsIn("answered")
    BY <2>1, <2>2, CallChanges DEF CallStates
  <2>5. scores' \in [{k \in DOMAIN calls' : calls'[k] = "answered"} -> Scores]
    BY <2>2, <2>4 DEF TypeOK, CallsIn
  <2> QED
    BY <1>1, <1>2, <1>5, <2>3, <2>5 DEF TypeOK, EvalFrame
<1>7. CASE Answer(i)
  <2>1. calls' = [calls EXCEPT ![i] = "answered"]
    BY <1>7 DEF Answer
  <2>2. calls' \in Seq(CallStates) /\ Len(calls') = Len(calls)
    BY <2>1, CallChanges DEF CallStates
  <2>3. {k \in DOMAIN calls' : calls'[k] = "answered"} = CallsIn("answered") \cup {i}
    BY <2>1, CallChanges DEF CallStates
  <2>4. scores \in [CallsIn("answered") -> Scores]
    BY DEF TypeOK, CallsIn
  <2>5. scores' \in [CallsIn("answered") \cup {i} -> Scores]
    BY <1>7, <2>4 DEF Answer
  <2>6. scores' \in [{k \in DOMAIN calls' : calls'[k] = "answered"} -> Scores]
    BY <2>3, <2>5
  <2> QED
    BY <1>1, <1>2, <1>5, <2>2, <2>6 DEF TypeOK, EvalFrame
<1> QED
  BY <1>6, <1>7

\* So do noticing a failure and raising it.
LEMMA PoolType ==
  ASSUME TypeInv, NoticeFailure \/ Raise
  PROVE  TypeInv'
PROOF
<1> USE DEF TypeInv
<1>1. EvalFrame' /\ resolved' = resolved
  BY EvalStepFrame DEF NoticeFailure, Raise, EvalStep
<1>2. pc' \in {"drain", "failed"} /\ pc' \in Pcs /\ fault' \in BOOLEAN
  BY DEF NoticeFailure, Raise, TypeOK, Pcs
<1>3. Stages'
  BY <1>2 DEF Stages
<1>4. /\ calls' \in Seq(CallStates) /\ Len(calls') = Len(calls)
      /\ {k \in DOMAIN calls' : calls'[k] = "answered"} =
           {k \in DOMAIN calls : calls[k] = "answered"}
  <2>1. CASE Raise
    BY <2>1 DEF Raise, evalVars, TypeOK
  <2>2. CASE NoticeFailure
    <3>1. /\ Len(calls) \in Nat /\ DOMAIN calls = 1..Len(calls)
          /\ calls \in [1..Len(calls) -> CallStates]
      BY LenProperties DEF TypeOK
    <3>2. calls' \in [1..Len(calls) -> CallStates]
      BY <2>2, <3>1 DEF NoticeFailure, CallStates
    <3>3. calls' \in Seq(CallStates) /\ Len(calls') = Len(calls)
      BY <3>1, <3>2, IsSequence
    <3> QED
      BY <2>2, <3>1, <3>3 DEF NoticeFailure
  <2> QED
    BY <2>1, <2>2
<1>5. scores' = scores
  BY DEF NoticeFailure, Raise, evalVars
<1> QED
  BY <1>1, <1>2, <1>3, <1>4, <1>5 DEF TypeOK, EvalFrame

\* The shortlist: Rank finds a candidate for each of its places.
LEMMA RankShortlist ==
  ASSUME TypeInv, Rank
  PROVE  /\ Sliced \in 0..Len(resolved)
         /\ \A i \in DOMAIN resolved : scores[i] \in Scores
         /\ shortlist' \in [1..Sliced -> DOMAIN resolved]
         /\ \A p \in 1..Sliced : Place(shortlist'[p]) = p
PROOF
<1>1. resolved \in Seq(Resolved) /\ Len(resolved) \in Nat /\ DOMAIN resolved = 1..Len(resolved)
  BY LenProperties DEF TypeInv, TypeOK
<1>2. top_n \in Int /\ cut \in Int
  BY ScreeningAssumption DEF TypeInv, TypeOK, cut
<1>3. Sliced \in 0..Len(resolved)
  BY <1>1, <1>2 DEF Sliced, Least
<1>4. \A i \in DOMAIN resolved : scores[i] \in Scores
  BY DEF Rank, TypeInv, TypeOK, CallsIn
<1>5. \A p \in 1..Len(resolved) : \E i \in DOMAIN resolved : Place(i) = p
  BY <1>1, <1>4, ScreeningAssumption, PlaceIsAPermutation
<1>6. \A p \in 1..Sliced : \E i \in DOMAIN resolved : Place(i) = p
  BY <1>1, <1>3, <1>5
<1>7. shortlist' = [p \in 1..Sliced |-> CHOOSE i \in DOMAIN resolved : Place(i) = p]
  BY DEF Rank
<1> QED
  BY <1>3, <1>4, <1>6, <1>7

\* What Rank and the steps after it leave alone has its type.
RecordFrame ==
  /\ row \in [Candidates -> {"none", "unparsed", "parsed"}] /\ vectors \subseteq Candidates
  /\ job \in [Jobs -> {"none", "flushed", "upserted", "stored", "failed"}]
  /\ jobVectors \subseteq Jobs
  /\ top_k \in Counts /\ top_n \in Counts
  /\ matches \in Seq(Candidates \cup Jobs) /\ next \in 1..Len(matches) + 1
  /\ resolved \in Seq(Resolved)
  /\ calls \in Seq(CallStates) /\ Len(calls) \in {0, Len(resolved)}
  /\ scores \in [{i \in DOMAIN calls : calls[i] = "answered"} -> Scores]
  /\ indexed \subseteq Candidates /\ known \subseteq Own

\* The shortlist names resolved candidates.
LEMMA RankType ==
  ASSUME TypeInv, Rank
  PROVE  TypeInv'
PROOF
<1>1. RecordFrame' /\ resolved' = resolved /\ CallsIn("answered")' = CallsIn("answered")
  BY DEF Rank, TypeInv, TypeOK, RecordFrame, CallsIn, candidateVars, jobVars, inputVars, queryVars,
         evalVars
<1>2. Sliced \in Nat /\ shortlist' \in [1..Sliced -> DOMAIN resolved]
  BY RankShortlist
<1>3. shortlist' \in Seq(DOMAIN resolved')
  BY <1>1, <1>2, IsSequence
<1>4. /\ pc' = "record" /\ pc' \in Pcs /\ fault' \in BOOLEAN
      /\ pending' \in Seq(Match) /\ saved' \in Seq(Match)
  BY DEF Rank, TypeInv, TypeOK, Pcs
<1>5. CallsIn("answered") = DOMAIN resolved
  BY DEF Rank
<1>6. Stages'
  BY <1>1, <1>4, <1>5 DEF Stages
<1> QED
  BY <1>1, <1>3, <1>4, <1>6 DEF TypeInv, TypeOK, RecordFrame

\* What a step after the sort leaves alone.
LEMMA RecordStepFrame ==
  ASSUME TypeInv, RecordStep
  PROVE  /\ RecordFrame' /\ shortlist' \in Seq(DOMAIN resolved')
         /\ resolved' = resolved /\ CallsIn("answered")' = CallsIn("answered")
         /\ calls' = calls /\ next' = next
PROOF BY DEF RecordStep, TypeInv, TypeOK, RecordFrame, CallsIn, candidateVars, jobVars, inputVars,
             queryVars, evalVars

\* The entry Record adds.
LEMMA EntryType ==
  ASSUME TypeInv, pc = "record", Len(pending) < Len(shortlist)
  PROVE  /\ entry \in DOMAIN resolved
         /\ MatchOf(entry, Len(pending) + 1) \in Match
PROOF
<1>1. Len(pending) + 1 \in 1..Len(shortlist)
  <2>1. shortlist \in Seq(DOMAIN resolved) /\ pending \in Seq(Match)
    BY DEF TypeInv, TypeOK
  <2>2. Len(shortlist) \in Nat /\ Len(pending) \in Nat
    BY <2>1, LenProperties
  <2> QED
    BY <2>2
<1>2. entry \in DOMAIN resolved
  BY <1>1, ElementOfSeq DEF TypeInv, TypeOK, entry
<1>3. resolved[entry].candidate \in Candidates
  <2>1. resolved \in [1..Len(resolved) -> Resolved] /\ DOMAIN resolved = 1..Len(resolved)
    BY LenProperties DEF TypeInv, TypeOK
  <2>2. resolved[entry] \in Resolved
    BY <1>2, <2>1
  <2> QED
    BY <2>2 DEF Resolved
<1>4. scores[entry] \in Scores
  BY <1>2 DEF TypeInv, TypeOK, Stages, CallsIn
<1> QED
  BY <1>1, <1>2, <1>3, <1>4 DEF MatchOf, Match

\* Recording, rejecting, committing, answering and failing keep the types.
LEMMA AfterRankType ==
  ASSUME TypeInv, Record \/ RejectUnnamed \/ Commit \/ Respond \/ Fail
  PROVE  TypeInv'
PROOF
<1>1. /\ RecordFrame' /\ shortlist' \in Seq(DOMAIN resolved')
      /\ resolved' = resolved /\ CallsIn("answered")' = CallsIn("answered")
      /\ calls' = calls /\ next' = next
  BY RecordStepFrame DEF Record, RejectUnnamed, Commit, Respond, Fail
<1>2. pc' \in Pcs /\ fault' \in BOOLEAN
  BY DEF Record, RejectUnnamed, Commit, Respond, Fail, TypeInv, TypeOK, Pcs
<1>3. pending' \in Seq(Match)
  <2>1. CASE Record
    <3>1. MatchOf(entry, Len(pending) + 1) \in Match
      BY <2>1, EntryType DEF Record
    <3>2. pending \in Seq(Match) /\ pending' = Append(pending, MatchOf(entry, Len(pending) + 1))
      BY <2>1 DEF Record, TypeInv, TypeOK
    <3> QED
      BY <3>1, <3>2
  <2>2. CASE RejectUnnamed \/ Commit \/ Respond \/ Fail
    <3>1. pending' = pending \/ pending' = <<>>
      BY <2>2 DEF RejectUnnamed, Commit, Respond, Fail
    <3>2. pending \in Seq(Match) /\ <<>> \in Seq(Match)
      BY DEF TypeInv, TypeOK
    <3> QED
      BY <3>1, <3>2
  <2> QED
    BY <2>1, <2>2
<1>4. saved' \in Seq(Match)
  BY DEF Record, RejectUnnamed, Commit, Respond, Fail, TypeInv, TypeOK
<1>5. pc' = "failed" \/ (pc \in {"record", "committed"} /\ pc' \in {"record", "committed", "answered"})
  BY DEF Record, RejectUnnamed, Commit, Respond, Fail
<1>6. Stages'
  BY <1>1, <1>5 DEF TypeInv, Stages
<1> QED
  BY <1>1, <1>2, <1>3, <1>4, <1>6 DEF TypeInv, TypeOK, RecordFrame

\* Every step keeps the types, and what each stage has computed.
LEMMA NextType == TypeInv /\ [Next]_vars => TypeInv'
PROOF
<1> SUFFICES ASSUME TypeInv, [Next]_vars PROVE TypeInv'
  OBVIOUS
<1>1. ASSUME NEW c \in Candidates, Store(c) \/ Parse(c) \/ Index(c) PROVE TypeInv'
  BY <1>1, WriteType
<1>2. ASSUME NEW j \in Jobs, FlushJob(j) \/ UpsertJob(j) \/ CommitJob(j) \/ AbandonJob(j)
      PROVE  TypeInv'
  BY <1>2, JobType
<1>3. ASSUME NEW i \in DOMAIN calls, Start(i) \/ Answer(i) \/ CallFails(i) PROVE TypeInv'
  BY <1>3, CallType
<1>4. CASE Ask \/ Query \/ Resolve \/ Submit
  BY <1>4, AskType, QueryType, ResolveType, SubmitType
<1>5. CASE NoticeFailure \/ Raise \/ Rank
  BY <1>5, PoolType, RankType
<1>6. CASE Record \/ RejectUnnamed \/ Commit \/ Respond \/ Fail
  BY <1>6, AfterRankType
<1>7. CASE UNCHANGED vars
  BY <1>7 DEF vars, TypeInv, TypeOK, Stages, CallsIn, candidateVars, jobVars, inputVars,
              queryVars, evalVars
<1> QED
  BY <1>1, <1>2, <1>3, <1>4, <1>5, <1>6, <1>7 DEF Next, Environment, Progress

\* The strengthened type invariant holds throughout.
LEMMA TypeInvariant == Spec => []TypeInv
PROOF BY InitType, NextType, PTL DEF Spec

\* Screening keeps every variable in its type.
THEOREM TypeCorrectness == Spec => []TypeOK
PROOF
<1>1. TypeInv => TypeOK
  BY DEF TypeInv
<1> QED
  BY <1>1, TypeInvariant, PTL

(***************************************************************************)
(* Steps outside the ranking: they leave its variables alone, and a row    *)
(* that is there stays there.                                              *)
(***************************************************************************)
rankingVars == <<pc, inputVars, queryVars, next, resolved, evalVars, shortlist, pending, saved,
                 fault>>

Elsewhere ==
  \/ \E c \in Candidates : Store(c) \/ Parse(c) \/ Index(c)
  \/ \E j \in Jobs : FlushJob(j) \/ UpsertJob(j) \/ CommitJob(j) \/ AbandonJob(j)
  \/ UNCHANGED vars

\* Steps outside the ranking leave its variables alone, and delete no row.
LEMMA ElsewhereFrame ==
  ASSUME TypeOK, Elsewhere
  PROVE  /\ UNCHANGED rankingVars
         /\ \A c \in Candidates : row[c] # "none" => row'[c] # "none"
PROOF
<1>1. ASSUME NEW c \in Candidates, Store(c) \/ Parse(c)
      PROVE  UNCHANGED rankingVars /\ \A d \in Candidates : row[d] # "none" => row'[d] # "none"
  BY <1>1 DEF Store, Parse, Write, TypeOK, rankingVars
<1>2. ASSUME NEW c \in Candidates, Index(c)
      PROVE  UNCHANGED rankingVars /\ row' = row
  BY <1>2 DEF Index, rankingVars
<1>3. ASSUME NEW j \in Jobs, FlushJob(j) \/ UpsertJob(j) \/ CommitJob(j) \/ AbandonJob(j)
      PROVE  UNCHANGED rankingVars /\ row' = row
  BY <1>3 DEF FlushJob, UpsertJob, CommitJob, AbandonJob, JobStep, rankingVars, candidateVars
<1>4. CASE UNCHANGED vars
  BY <1>4 DEF vars, rankingVars, candidateVars
<1> QED
  BY <1>1, <1>2, <1>3, <1>4 DEF Elsewhere

\* They take no name from a candidate either: a row that is parsed stays so.
LEMMA NamesStay ==
  ASSUME TypeOK, Elsewhere
  PROVE  \A c \in Candidates : row[c] = "parsed" => row'[c] = "parsed"
PROOF
<1>1. ASSUME NEW c \in Candidates, Store(c) \/ Parse(c)
      PROVE  \A d \in Candidates : row[d] = "parsed" => row'[d] = "parsed"
  BY <1>1 DEF Store, Parse, Write, TypeOK
<1>2. ASSUME NEW c \in Candidates, Index(c) PROVE row' = row
  BY <1>2 DEF Index
<1>3. ASSUME NEW j \in Jobs, FlushJob(j) \/ UpsertJob(j) \/ CommitJob(j) \/ AbandonJob(j)
      PROVE  row' = row
  BY <1>3 DEF FlushJob, UpsertJob, CommitJob, AbandonJob, JobStep, candidateVars
<1>4. CASE UNCHANGED vars
  BY <1>4 DEF vars, candidateVars
<1> QED
  BY <1>1, <1>2, <1>3, <1>4 DEF Elsewhere

\* Next, with the steps outside the ranking taken together.
LEMMA NextCases ==
  ASSUME [Next]_vars
  PROVE  \/ Elsewhere
         \/ \E i \in DOMAIN calls : Start(i) \/ Answer(i) \/ CallFails(i)
         \/ Ask \/ Query \/ Resolve \/ Submit \/ NoticeFailure \/ Raise \/ Rank
         \/ Record \/ RejectUnnamed \/ Commit \/ Respond \/ Fail
PROOF BY DEF Next, Environment, Progress, Elsewhere

(***************************************************************************)
(* Jobs: the vector is upserted before the row is committed.               *)
(***************************************************************************)
JobInv == \A j \in Jobs : job[j] \in {"upserted", "stored"} => j \in jobVectors

\* For any interleaving of create_job calls and failures, a job in Postgres has its
\* vector in the namespace.
THEOREM StoredJobsAreIndexed == Spec => []JobIsIndexed
PROOF
<1>1. Init => JobInv
  BY DEF Init, JobInv
<1>2. TypeInv /\ JobInv /\ [Next]_vars => JobInv'
  <2> SUFFICES ASSUME TypeInv, JobInv, [Next]_vars PROVE JobInv'
    OBVIOUS
  <2>1. ASSUME NEW j \in Jobs, FlushJob(j) \/ UpsertJob(j) \/ CommitJob(j) \/ AbandonJob(j)
        PROVE  JobInv'
    BY <2>1 DEF FlushJob, UpsertJob, CommitJob, AbandonJob, JobStep, JobInv, TypeInv, TypeOK
  <2>2. ASSUME UNCHANGED jobVars PROVE JobInv'
    BY <2>2 DEF jobVars, JobInv
  <2>3. ASSUME NEW c \in Candidates, Store(c) \/ Parse(c) \/ Index(c) PROVE UNCHANGED jobVars
    BY <2>3 DEF Store, Parse, Index, Write, jobVars
  <2>4. ASSUME NEW i \in DOMAIN calls, Start(i) \/ Answer(i) \/ CallFails(i)
        PROVE  UNCHANGED jobVars
    BY <2>4 DEF Start, Answer, CallFails, EvalStep
  <2>5. CASE Ask \/ Query \/ Resolve \/ Submit \/ NoticeFailure \/ Raise \/ Rank
    BY <2>5, <2>2 DEF Ask, Query, Resolve, Submit, NoticeFailure, Raise, Rank, EvalStep
  <2>6. CASE Record \/ RejectUnnamed \/ Commit \/ Respond \/ Fail
    BY <2>6, <2>2 DEF Record, RejectUnnamed, Commit, Respond, Fail, RecordStep
  <2>7. CASE UNCHANGED vars
    BY <2>7, <2>2 DEF vars, jobVars
  <2> QED
    BY <2>1, <2>2, <2>3, <2>4, <2>5, <2>6, <2>7 DEF Next, Environment, Progress
<1>3. JobInv => JobIsIndexed
  BY DEF JobInv, JobIsIndexed
<1> QED
  BY <1>1, <1>2, <1>3, TypeInvariant, PTL DEF Spec

(***************************************************************************)
(* Tenants: what is resolved is the tenant's, what is recorded was         *)
(* resolved, and what is saved was recorded.                               *)
(***************************************************************************)

\* No match in the namespace, whoever's it is, makes a ranking evaluate, record or
\* save a candidate of another tenant.
THEOREM TenantsAreIsolated == Spec => []TenantIsolation
PROOF
<1>1. Init => TenantIsolation
  BY DEF Init, TenantIsolation
<1>2. TypeInv /\ TenantIsolation /\ [Next]_vars => TenantIsolation'
  <2> SUFFICES ASSUME TypeInv, TenantIsolation, [Next]_vars PROVE TenantIsolation'
    OBVIOUS
  <2>1. ASSUME resolved' = resolved, pending' = pending \/ pending' = <<>>,
               saved' \in {saved, pending, <<>>}
        PROVE  TenantIsolation'
    BY <2>1 DEF TenantIsolation
  <2>2. CASE Elsewhere
    BY <2>1, <2>2, ElsewhereFrame DEF rankingVars, TypeInv
  <2>3. ASSUME NEW i \in DOMAIN calls, Start(i) \/ Answer(i) \/ CallFails(i)
        PROVE  TenantIsolation'
    BY <2>1, <2>3 DEF Start, Answer, CallFails, EvalStep
  <2>4. CASE Ask
    BY <2>4 DEF Ask, TenantIsolation
  <2>5. CASE Query \/ Submit \/ NoticeFailure \/ Raise \/ Rank
    BY <2>1, <2>5 DEF Query, Submit, NoticeFailure, Raise, Rank, EvalStep
  <2>6. CASE Resolve
    <3>1. CASE IsTheTenants(matches[next])
      <4> DEFINE new == [candidate |-> matches[next], named |-> row[matches[next]] = "parsed"]
      <4>1. resolved' = Append(resolved, new) /\ new.candidate \in Own
        BY <2>6, <3>1 DEF Resolve, IsTheTenants
      <4>2. resolved \in Seq(Resolved) /\ pending' = pending /\ saved' = saved
        BY <2>6 DEF Resolve, TypeInv, TypeOK
      <4> HIDE DEF new
      <4>3. \A k \in DOMAIN resolved' : resolved'[k].candidate \in Own
        BY <4>1, <4>2 DEF TenantIsolation
      <4> QED
        BY <4>2, <4>3 DEF TenantIsolation
    <3>2. CASE ~IsTheTenants(matches[next])
      BY <2>1, <2>6, <3>2 DEF Resolve
    <3> QED
      BY <3>1, <3>2
  <2>7. CASE Record
    <3> DEFINE new == MatchOf(entry, Len(pending) + 1)
    <3>1. entry \in DOMAIN resolved
      BY <2>7, EntryType DEF Record
    <3>2. new.candidate \in Own
      BY <3>1 DEF MatchOf, TenantIsolation
    <3>3. pending \in Seq(Match) /\ pending' = Append(pending, new)
      BY <2>7 DEF Record, TypeInv, TypeOK
    <3> HIDE DEF new
    <3>4. \A p \in DOMAIN pending' : pending'[p].candidate \in Own
      BY <3>2, <3>3 DEF TenantIsolation
    <3> QED
      BY <2>7, <3>4 DEF Record, RecordStep, TenantIsolation
  <2>8. CASE RejectUnnamed \/ Commit \/ Respond \/ Fail
    BY <2>1, <2>8 DEF RejectUnnamed, Commit, Respond, Fail, RecordStep
  <2> QED
    BY <2>2, <2>3, <2>4, <2>5, <2>6, <2>7, <2>8, NextCases
<1> QED
  BY <1>1, <1>2, TypeInvariant, PTL DEF Spec

(***************************************************************************)
(* Failures: the pool is drained only after a call failed.                 *)
(***************************************************************************)
FaultInv == pc = "drain" \/ CallsIn("failed") # {} => fault

\* Without a fault of a service and with a top_k that is not negative, a ranking
\* fails only on a shortlisted candidate without full_name.
THEOREM FailuresHaveReasons == Spec => []FailsForAReason
PROOF
<1> DEFINE Inv == FaultInv /\ FailsForAReason
<1>1. Init => Inv
  BY DEF Init, FaultInv, FailsForAReason, CallsIn
<1>2. TypeInv /\ Inv /\ [Next]_vars => Inv'
  <2> SUFFICES ASSUME TypeInv, Inv, [Next]_vars PROVE Inv'
    OBVIOUS
  <2>1. ASSUME UNCHANGED <<calls, fault>>, pc' # "drain" PROVE FaultInv'
    BY <2>1 DEF FaultInv, CallsIn
  <2>2. ASSUME pc' # "failed" PROVE FailsForAReason'
    BY <2>2 DEF FailsForAReason
  <2>3. CASE Elsewhere
    BY <2>3, ElsewhereFrame
    DEF rankingVars, TypeInv, FaultInv, FailsForAReason, CallsIn, inputVars, evalVars
  <2>4. ASSUME NEW i \in DOMAIN calls, Start(i) \/ Answer(i) PROVE Inv'
    <3>1. CallsIn("failed")' \subseteq CallsIn("failed") /\ UNCHANGED <<pc, fault>>
      BY <2>4, CallChanges DEF Start, Answer, CallsIn, TypeInv, TypeOK, CallStates
    <3>2. UNCHANGED <<top_k, shortlist, resolved>>
      BY <2>4 DEF Start, Answer, EvalStep, inputVars
    <3> QED
      BY <3>1, <3>2 DEF FaultInv, FailsForAReason
  <2>5. ASSUME NEW i \in DOMAIN calls, CallFails(i) PROVE Inv'
    BY <2>5 DEF CallFails, FaultInv, FailsForAReason
  <2>6. CASE Ask
    BY <2>6 DEF Ask, FaultInv, FailsForAReason, CallsIn
  <2>7. CASE Query
    <3>1. FaultInv'
      BY <2>7, <2>1 DEF Query, evalVars
    <3>2. CASE limit > 0
      BY <2>7, <2>2, <3>1, <3>2 DEF Query
    <3>3. CASE ~(limit > 0)
      <4>1. top_k \in Int
        BY ScreeningAssumption DEF TypeInv, TypeOK
      <4>2. top_k < 0
        BY <3>3, <4>1, ScreeningAssumption DEF limit
      <4> QED
        BY <2>7, <3>1, <4>2 DEF Query, inputVars, FailsForAReason
    <3> QED
      BY <3>1, <3>2, <3>3
  <2>8. CASE Resolve
    BY <2>8, <2>1, <2>2 DEF Resolve, evalVars
  <2>9. CASE Submit
    BY <2>9, <2>2 DEF Submit, FaultInv, CallsIn
  <2>10. CASE NoticeFailure
    <3>1. fault' = TRUE
      BY <2>10 DEF NoticeFailure, FaultInv, TypeInv, TypeOK
    <3> QED
      BY <2>2, <2>10, <3>1 DEF NoticeFailure, FaultInv
  <2>11. CASE Raise
    BY <2>11, <2>1 DEF Raise, FaultInv, FailsForAReason, evalVars
  <2>12. CASE Rank
    BY <2>12, <2>1, <2>2 DEF Rank, evalVars
  <2>13. CASE Record \/ Commit \/ Respond
    BY <2>13, <2>1, <2>2 DEF Record, Commit, Respond, RecordStep, evalVars
  <2>14. CASE RejectUnnamed
    <3>1. FaultInv'
      BY <2>14, <2>1 DEF RejectUnnamed, RecordStep, evalVars
    <3>2. /\ Len(pending) + 1 \in DOMAIN shortlist
          /\ ~resolved[shortlist[Len(pending) + 1]].named
      BY <2>14, LenProperties DEF RejectUnnamed, entry, TypeInv, TypeOK
    <3>3. UNCHANGED <<shortlist, resolved>>
      BY <2>14 DEF RejectUnnamed, RecordStep
    <3> QED
      BY <3>1, <3>2, <3>3 DEF FailsForAReason
  <2>15. CASE Fail
    BY <2>15 DEF Fail, FaultInv, FailsForAReason
  <2> QED
    BY <2>3, <2>4, <2>5, <2>6, <2>7, <2>8, <2>9, <2>10, <2>11, <2>12, <2>13, <2>14, <2>15,
       NextCases
<1>3. Inv => FailsForAReason
  OBVIOUS
<1> QED
  BY <1>1, <1>2, <1>3, TypeInvariant, PTL DEF Spec

(***************************************************************************)
(* match_results: the session holds the first entries of the shortlist,    *)
(* and nothing is saved before the commit that saves them all.             *)
(***************************************************************************)
MatchesOf == [p \in DOMAIN shortlist |-> MatchOf(shortlist[p], p)]

SavedInv ==
  /\ pc \in {"idle", "query", "resolve", "evaluate", "drain"} => pending = <<>>
  /\ pc \notin {"committed", "answered"} => saved = <<>> \/ (pc = "failed" /\ fault)
  /\ pc = "record" => /\ Len(pending) <= Len(shortlist)
                      /\ \A p \in DOMAIN pending : pending[p] = MatchOf(shortlist[p], p)
  /\ pc \in {"committed", "answered"} => saved = MatchesOf

\* SavedInv holds throughout.
LEMMA SavedInvariant == Spec => []SavedInv
PROOF
<1>1. Init => SavedInv
  BY DEF Init, SavedInv
<1>2. TypeInv /\ SavedInv /\ [Next]_vars => SavedInv'
  <2> SUFFICES ASSUME TypeInv, SavedInv, [Next]_vars PROVE SavedInv'
    OBVIOUS
  <2>1. ASSUME UNCHANGED <<pending, saved>>, fault => fault',
               pc \notin {"record", "committed", "answered"},
               pc' \notin {"record", "committed", "answered"},
               pc = "failed" => pc' = "failed",
               pc' \in {"failed"} \/ pc \in {"idle", "query", "resolve", "evaluate", "drain"}
        PROVE  SavedInv'
    BY <2>1 DEF SavedInv
  <2>2. CASE Elsewhere
    <3>1. UNCHANGED <<pc, pending, saved, fault, shortlist, resolved, scores>>
      BY <2>2, ElsewhereFrame DEF rankingVars, TypeInv, evalVars
    <3>2. MatchesOf' = MatchesOf /\ \A i, p : MatchOf(i, p)' = MatchOf(i, p)
      BY <3>1 DEF MatchesOf, MatchOf
    <3> QED
      BY <3>1, <3>2 DEF SavedInv, MatchOf
  <2>3. ASSUME NEW i \in DOMAIN calls, Start(i) \/ Answer(i) \/ CallFails(i)
        PROVE  SavedInv'
    <3>1. pc \notin {"record", "committed", "answered"}
      BY <2>3, CallsAreOver DEF Start, Answer, CallFails, CallsIn
    <3>2. UNCHANGED <<pc, pending, saved>> /\ (fault => fault')
      BY <2>3 DEF Start, Answer, CallFails, EvalStep
    <3>3. pc \in {"idle", "query", "resolve", "evaluate", "drain", "failed"}
      BY <3>1 DEF TypeInv, TypeOK, Pcs
    <3> QED
      BY <2>1, <3>1, <3>2, <3>3
  <2>4. CASE Ask
    BY <2>4 DEF Ask, SavedInv
  <2>5. CASE Query \/ Resolve \/ Submit \/ NoticeFailure \/ Raise
    BY <2>5, <2>1 DEF Query, Resolve, Submit, NoticeFailure, Raise, EvalStep
  <2>6. CASE Rank
    <3>1. pending' = <<>> /\ saved' = <<>> /\ pc' = "record"
      BY <2>6 DEF Rank, SavedInv
    <3>2. Len(shortlist') \in Nat
      BY <2>6, RankType, LenProperties DEF TypeInv, TypeOK
    <3> QED
      BY <3>1, <3>2 DEF SavedInv
  <2>7. ASSUME RecordStep
        PROVE  MatchesOf' = MatchesOf /\ shortlist' = shortlist /\ resolved' = resolved
               /\ scores' = scores
    BY <2>7 DEF RecordStep, evalVars, MatchesOf, MatchOf
  <2>8. CASE Record
    <3> DEFINE new == MatchOf(entry, Len(pending) + 1)
    <3>1. /\ pending \in Seq(Match) /\ pending' = Append(pending, new) /\ Len(pending) \in Nat
          /\ DOMAIN pending = 1..Len(pending) /\ Len(shortlist) \in Nat
          /\ Len(pending) < Len(shortlist)
      BY <2>8, LenProperties DEF Record, TypeInv, TypeOK
    <3>2. new = MatchOf(shortlist[Len(pending) + 1], Len(pending) + 1)
      BY DEF entry
    <3>3. \A p \in DOMAIN pending : pending[p] = MatchOf(shortlist[p], p)
      BY <2>8 DEF Record, SavedInv
    <3> HIDE DEF new
    <3>4. new \in Match
      BY <2>8, EntryType DEF Record, new
    <3>5. Len(pending') = Len(pending) + 1 /\ DOMAIN pending' = 1..Len(pending) + 1
          /\ (\A p \in 1..Len(pending) : pending'[p] = pending[p])
          /\ pending'[Len(pending) + 1] = new
      BY <3>1, <3>4
    <3>6. \A p \in DOMAIN pending' : pending'[p] = MatchOf(shortlist[p], p)
      BY <3>1, <3>2, <3>3, <3>5
    <3>7. \A p \in DOMAIN pending' : pending'[p] = (MatchOf(shortlist[p], p))'
      BY <2>7, <2>8, <3>6 DEF Record, MatchOf
    <3>8. pc = "record" /\ pc' = "record" /\ saved' = saved
          /\ Len(pending') <= Len(shortlist')
      BY <2>7, <2>8, <3>1, <3>5 DEF Record
    <3> QED
      BY <3>7, <3>8 DEF SavedInv
  <2>9. CASE RejectUnnamed \/ Fail
    BY <2>9 DEF RejectUnnamed, Fail, SavedInv
  <2>10. CASE Commit
    <3>1. /\ DOMAIN pending = 1..Len(pending) /\ DOMAIN shortlist = 1..Len(shortlist)
          /\ pending \in [1..Len(pending) -> Match]
      BY LenProperties DEF TypeInv, TypeOK
    <3>2. pending = MatchesOf
      BY <2>10, <3>1 DEF Commit, SavedInv, MatchesOf
    <3> QED
      BY <2>7, <2>10, <3>2 DEF Commit, SavedInv
  <2>11. CASE Respond
    BY <2>7, <2>11 DEF Respond, SavedInv
  <2> QED
    BY <2>2, <2>3, <2>4, <2>5, <2>6, <2>8, <2>9, <2>10, <2>11, NextCases
<1> QED
  BY <1>1, <1>2, TypeInvariant, PTL DEF Spec

\* Nothing but the whole answer is saved, whatever fails and whenever.
THEOREM SavedAsAWhole == Spec => []SavedIsWhole
PROOF
<1>1. SavedInv => SavedIsWhole
  BY DEF SavedInv, SavedIsWhole, MatchesOf
<1> QED
  BY <1>1, SavedInvariant, PTL

(***************************************************************************)
(* The shortlist: its p-th entry is the candidate whose place is p.        *)
(***************************************************************************)
BestInv ==
  pc \in {"record", "committed", "answered"} =>
    \A p \in DOMAIN shortlist : Place(shortlist[p]) = p

\* If every candidate of the shortlist is at its place, the shortlist is the best.
LEMMA BestIsBest ==
  ASSUME TypeInv, BestInv
  PROVE  ShortlistIsBest
PROOF
<1> SUFFICES ASSUME pc \in {"record", "committed", "answered"} PROVE ShortlistIsBest
  BY DEF ShortlistIsBest
<1> DEFINE D == DOMAIN resolved
           Listed == {shortlist[p] : p \in DOMAIN shortlist}
<1>1. /\ resolved \in Seq(Resolved) /\ D = 1..Len(resolved) /\ Len(resolved) \in Nat
      /\ DOMAIN shortlist = 1..Len(shortlist) /\ Len(shortlist) \in Nat
      /\ shortlist \in [1..Len(shortlist) -> D]
  BY LenProperties DEF TypeInv, TypeOK
<1>2. \A i \in D : scores[i] \in Int
  BY ScreeningAssumption DEF TypeInv, TypeOK, Stages, CallsIn
<1>3. /\ \A i \in D : Place(i) \in 1..Len(resolved)
      /\ \A i, k \in D : Precedes(i, k) => Place(i) < Place(k)
  BY <1>1, <1>2, PlaceIsAPermutation
<1>4. ASSUME NEW i \in D, NEW k \in D, Place(i) < Place(k) PROVE Precedes(i, k)
  <2>1. Place(i) \in Int /\ Place(k) \in Int /\ i # k /\ i \in Int /\ k \in Int
    BY <1>1, <1>3, <1>4
  <2>2. Precedes(i, k) \/ Precedes(k, i)
    BY <1>2, <2>1 DEF Precedes
  <2> QED
    BY <1>3, <1>4, <2>1, <2>2
<1>5. ASSUME NEW p \in DOMAIN shortlist, NEW q \in DOMAIN shortlist, p < q
      PROVE  Precedes(shortlist[p], shortlist[q])
  <2>1. shortlist[p] \in D /\ shortlist[q] \in D
    BY <1>1
  <2>2. Place(shortlist[p]) = p /\ Place(shortlist[q]) = q
    BY DEF BestInv
  <2> QED
    BY <1>4, <1>5, <2>1, <2>2
<1>6. ASSUME NEW i \in Listed, NEW k \in D \ Listed PROVE Precedes(i, k)
  <2>1. PICK p \in DOMAIN shortlist : i = shortlist[p]
    OBVIOUS
  <2>2. i \in D /\ Place(i) = p /\ p \in 1..Len(shortlist)
    BY <1>1, <2>1 DEF BestInv
  <2>3. Place(k) \notin 1..Len(shortlist)
    <3> SUFFICES ASSUME Place(k) \in DOMAIN shortlist PROVE FALSE
      BY <1>1
    <3> DEFINE m == shortlist[Place(k)]
    <3>1. m \in D /\ m \in Listed /\ Place(m) = Place(k)
      BY <1>1 DEF BestInv
    <3>2. m # k /\ m \in Int /\ k \in Int /\ Place(k) \in Int
      BY <1>1, <1>3, <3>1
    <3>3. Precedes(m, k) \/ Precedes(k, m)
      <4> HIDE DEF m
      <4> QED
        BY <1>2, <3>1, <3>2 DEF Precedes
    <3> QED
      BY <1>3, <3>1, <3>2, <3>3
  <2>4. Place(k) \in 1..Len(resolved)
    BY <1>3
  <2>5. Place(i) < Place(k)
    BY <1>1, <2>2, <2>3, <2>4
  <2> QED
    BY <1>4, <2>2, <2>5
<1> QED
  BY <1>5, <1>6 DEF ShortlistIsBest, Precedes

\* BestInv holds throughout.
LEMMA BestInvariant == Spec => []BestInv
PROOF
<1>1. Init => BestInv
  BY DEF Init, BestInv
<1>2. TypeInv /\ BestInv /\ [Next]_vars => BestInv'
  <2> SUFFICES ASSUME TypeInv, BestInv, [Next]_vars PROVE BestInv'
    OBVIOUS
  <2>1. ASSUME pc' \notin {"record", "committed", "answered"} PROVE BestInv'
    BY <2>1 DEF BestInv
  <2>2. ASSUME UNCHANGED <<shortlist, resolved, scores>>,
               pc' \in {"record", "committed", "answered"} =>
                 pc \in {"record", "committed", "answered"}
        PROVE  BestInv'
    BY <2>2 DEF BestInv, Place, Precedes
  <2>3. CASE Elsewhere
    BY <2>2, <2>3, ElsewhereFrame DEF rankingVars, TypeInv, evalVars
  <2>4. ASSUME NEW i \in DOMAIN calls, Start(i) \/ Answer(i) \/ CallFails(i) PROVE BestInv'
    BY <2>1, <2>4, CallsAreOver DEF Start, Answer, CallFails, CallsIn
  <2>5. CASE Ask \/ Query \/ Resolve \/ Submit \/ NoticeFailure \/ Raise
    BY <2>1, <2>5 DEF Ask, Query, Resolve, Submit, NoticeFailure, Raise
  <2>6. CASE Rank
    <3>1. /\ shortlist' \in [1..Sliced -> DOMAIN resolved]
          /\ \A p \in 1..Sliced : Place(shortlist'[p]) = p
      BY <2>6, RankShortlist
    <3>2. UNCHANGED <<resolved, scores>>
      BY <2>6 DEF Rank, evalVars
    <3>3. \A p \in DOMAIN shortlist' : (Place(shortlist[p]))' = p
      BY <3>1, <3>2 DEF Place, Precedes
    <3> QED
      BY <3>3 DEF BestInv
  <2>7. CASE Record \/ Commit \/ Respond
    BY <2>2, <2>7 DEF Record, Commit, Respond, RecordStep, evalVars
  <2>8. CASE RejectUnnamed \/ Fail
    BY <2>1, <2>8 DEF RejectUnnamed, Fail
  <2> QED
    BY <2>3, <2>4, <2>5, <2>6, <2>7, <2>8, NextCases
<1> QED
  BY <1>1, <1>2, TypeInvariant, PTL DEF Spec

\* The shortlist of every ranking is the best of what was evaluated, in order.
THEOREM ShortlistsAreBest == Spec => []ShortlistIsBest
PROOF
<1>1. TypeInv /\ BestInv => ShortlistIsBest
  BY BestIsBest
<1> QED
  BY <1>1, TypeInvariant, BestInvariant, PTL

(***************************************************************************)
(* Known candidates.  A query for at least as many as there are is an      *)
(* injection of 1..n in a set of n: it returns them all.  From then on a   *)
(* known candidate is among the matches to come or has been resolved, and  *)
(* its row stays.                                                          *)
(***************************************************************************)
AheadOf(c) == \E k \in DOMAIN matches : k >= next /\ matches[k] = c

KnownInv ==
  pc \in {"resolve", "evaluate", "record", "committed", "answered"}
      /\ Cardinality(indexed) <= limit =>
    \A c \in known : /\ row[c] # "none"
                     /\ c \in Evaluated \/ (pc = "resolve" /\ AheadOf(c))

\* A query that asks for as many as there are returns them all: its matches are an
\* injection between sets of one size.
LEMMA QueryFindsAll ==
  ASSUME TypeInv, Query, limit > 0, Cardinality(vectors) <= limit
  PROVE  \A c \in vectors : \E k \in DOMAIN matches' : matches'[k] = c
PROOF
<1>1. IsFiniteSet(vectors) /\ Cardinality(vectors) \in Nat
  BY VectorsAreFinite DEF TypeInv, TypeOK
<1>2. limit \in Int
  BY ScreeningAssumption DEF limit, TypeInv, TypeOK
<1> DEFINE n == Cardinality(vectors)
<1>3. Least(limit, n) = n
  BY <1>1, <1>2 DEF Least
<1>4. matches' \in [1..n -> vectors] /\ \A a, b \in 1..n : matches'[a] = matches'[b] => a = b
  BY <1>3 DEF Query, TopOf, Eligible
<1>5. matches' \in Injection(1..n, vectors)
  BY <1>4 DEF Injection, IsInjective
<1>6. Cardinality(1..n) = Cardinality(vectors)
  BY <1>1, UpTo
<1>7. matches' \in Surjection(1..n, vectors)
  BY <1>1, <1>5, <1>6, FS_Injection
<1> QED
  BY <1>4, <1>7 DEF Surjection

\* Whatever else is in the namespace and whatever is written meanwhile, a ranking that
\* asks for enough evaluates every candidate of the tenant it could know of.
THEOREM KnownCandidatesAreEvaluated == Spec => []KnownAreEvaluated
PROOF
<1>1. Init => KnownInv
  BY DEF Init, KnownInv
<1>2. TypeInv /\ KnownInv /\ [Next]_vars => KnownInv'
  <2> SUFFICES ASSUME TypeInv, KnownInv, [Next]_vars PROVE KnownInv'
    OBVIOUS
  <2>1. ASSUME pc' \notin {"resolve", "evaluate", "record", "committed", "answered"}
        PROVE  KnownInv'
    BY <2>1 DEF KnownInv
  <2>2. ASSUME UNCHANGED <<inputVars, queryVars, next, resolved>>,
               \A c \in Candidates : row[c] # "none" => row'[c] # "none",
               \/ pc' = pc
               \/ pc # "resolve" /\ pc' # "resolve"
                  /\ (pc' \in {"evaluate", "record", "committed", "answered"} =>
                        pc \in {"evaluate", "record", "committed", "answered"})
        PROVE  KnownInv'
    <3>1. known \subseteq Candidates /\ known' = known
      BY <2>2, ScreeningAssumption DEF TypeInv, TypeOK, queryVars
    <3>2. limit' = limit /\ indexed' = indexed /\ Evaluated' = Evaluated
          /\ \A c \in known : (AheadOf(c))' = AheadOf(c)
      BY <2>2 DEF limit, inputVars, queryVars, Evaluated, AheadOf
    <3> QED
      BY <2>2, <3>1, <3>2 DEF KnownInv
  <2>3. CASE Elsewhere
    BY <2>2, <2>3, ElsewhereFrame DEF rankingVars, TypeInv
  <2>4. ASSUME NEW i \in DOMAIN calls, Start(i) \/ Answer(i) \/ CallFails(i) PROVE KnownInv'
    BY <2>2, <2>4 DEF Start, Answer, CallFails, EvalStep, candidateVars
  <2>5. CASE Ask \/ NoticeFailure \/ Raise \/ RejectUnnamed \/ Fail
    BY <2>1, <2>5 DEF Ask, NoticeFailure, Raise, RejectUnnamed, Fail
  <2>6. CASE Query
    <3>1. CASE limit > 0 /\ Cardinality(vectors) <= limit
      <4>1. \A c \in vectors : \E k \in DOMAIN matches' : matches'[k] = c
        BY <2>6, <3>1, QueryFindsAll
      <4>2. /\ matches' \in Seq(Candidates \cup Jobs) /\ next' = next /\ next = 1
            /\ row' = row
        BY <2>6, QueryType DEF Query, TypeInv, TypeOK, Stages, candidateVars
      <4>3. DOMAIN matches' \subseteq Nat \ {0}
        BY <4>2, LenProperties
      <4>4. \A c \in known' : c \in vectors /\ row[c] # "none"
        BY <2>6, <3>1 DEF Query
      <4>5. \A c \in known' : (AheadOf(c))'
        BY <4>1, <4>2, <4>3, <4>4 DEF AheadOf
      <4>6. pc' = "resolve"
        BY <2>6, <3>1 DEF Query
      <4> QED
        BY <4>2, <4>4, <4>5, <4>6 DEF KnownInv
    <3>2. CASE ~(limit > 0)
      BY <2>1, <2>6, <3>2 DEF Query
    <3>3. CASE limit > 0 /\ ~(Cardinality(vectors) <= limit)
      <4>1. indexed' = vectors /\ limit' = limit
        BY <2>6, <3>3 DEF Query, inputVars, limit
      <4> QED
        BY <3>3, <4>1 DEF KnownInv
    <3> QED
      BY <3>1, <3>2, <3>3
  <2>7. CASE Resolve
    <3> SUFFICES ASSUME Cardinality(indexed) <= limit, NEW c \in known
                 PROVE  row[c] # "none" /\ (c \in Evaluated' \/ (AheadOf(c))')
      BY <2>7 DEF Resolve, KnownInv, limit, inputVars, queryVars, candidateVars
    <3>1. row[c] # "none" /\ (c \in Evaluated \/ AheadOf(c)) /\ c \in Own
      BY <2>7 DEF Resolve, KnownInv, TypeInv, TypeOK
    <3>2. resolved \in Seq(Resolved) /\ matches \in Seq(Candidates \cup Jobs)
          /\ next \in Nat /\ matches' = matches /\ next' = next + 1
      BY <2>7 DEF Resolve, TypeInv, TypeOK, queryVars
    <3>3. CASE c \in Evaluated
      <4>1. \A i \in DOMAIN resolved : i \in DOMAIN resolved' /\ resolved'[i] = resolved[i]
        BY <2>7, <3>2 DEF Resolve
      <4> QED
        BY <3>1, <3>3, <4>1 DEF Evaluated
    <3>4. CASE AheadOf(c) /\ matches[next] = c
      <4> DEFINE new == [candidate |-> c, named |-> row[c] = "parsed"]
      <4>1. resolved' = Append(resolved, new) /\ new.candidate = c
        BY <2>7, <3>1, <3>4 DEF Resolve, IsTheTenants
      <4> HIDE DEF new
      <4>2. Len(resolved) + 1 \in DOMAIN resolved' /\ resolved'[Len(resolved) + 1] = new
        BY <3>2, <4>1
      <4> QED
        BY <3>1, <4>1, <4>2 DEF Evaluated
    <3>5. CASE AheadOf(c) /\ matches[next] # c
      <4>1. PICK k \in DOMAIN matches : k >= next /\ matches[k] = c
        BY <3>5 DEF AheadOf
      <4>2. k \in Nat /\ k # next
        BY <3>2, <3>5, <4>1, LenProperties
      <4>3. k >= next'
        BY <3>2, <4>1, <4>2
      <4> QED
        BY <3>1, <3>2, <4>1, <4>3 DEF AheadOf
    <3> QED
      BY <3>1, <3>3, <3>4, <3>5
  <2>8. CASE Submit
    <3>1. /\ UNCHANGED <<row, top_k, indexed, known, resolved>>
          /\ pc = "resolve" /\ pc' = "evaluate"
      BY <2>8 DEF Submit, EvalStep, candidateVars, inputVars, queryVars
    <3>2. \A c \in known : ~AheadOf(c)
      <4>1. DOMAIN matches = 1..Len(matches) /\ Len(matches) \in Nat /\ next \in Nat
        BY LenProperties DEF TypeInv, TypeOK
      <4>2. next > Len(matches)
        BY <2>8 DEF Submit
      <4> QED
        BY <4>1, <4>2 DEF AheadOf
    <3>3. limit' = limit /\ Evaluated' = Evaluated
      BY <3>1 DEF limit, Evaluated
    <3> QED
      BY <3>1, <3>2, <3>3 DEF KnownInv
  <2>9. CASE Rank
    <3>1. UNCHANGED <<row, top_k, indexed, known, resolved>> /\ pc' = "record" /\ pc = "evaluate"
      BY <2>9 DEF Rank, candidateVars, inputVars, queryVars
    <3>2. limit' = limit /\ Evaluated' = Evaluated
      BY <3>1 DEF limit, Evaluated
    <3> QED
      BY <3>1, <3>2 DEF KnownInv
  <2>10. CASE Record \/ Commit \/ Respond
    BY <2>2, <2>10 DEF Record, Commit, Respond, RecordStep, candidateVars
  <2> QED
    BY <2>3, <2>4, <2>5, <2>6, <2>7, <2>8, <2>9, <2>10, NextCases
<1>3. KnownInv => KnownAreEvaluated
  BY DEF KnownInv, KnownAreEvaluated, Evaluated
<1> QED
  BY <1>1, <1>2, <1>3, TypeInvariant, PTL DEF Spec

(***************************************************************************)
(* Refinement.  What is resolved is a part of the matches, so that nobody  *)
(* is judged twice, and a name that was read is still there at the commit; *)
(* the shortlist is as long as was asked for, and of those recorded        *)
(* everybody has a name.                                                   *)
(***************************************************************************)
ResolvedInv ==
  /\ \A a, b \in DOMAIN matches : matches[a] = matches[b] => a = b
  /\ \A i \in DOMAIN resolved :
       /\ resolved[i].candidate \in Own
       /\ resolved[i].named => row[resolved[i].candidate] = "parsed"
       /\ \E m \in DOMAIN matches : m < next /\ matches[m] = resolved[i].candidate
  /\ \A i, k \in DOMAIN resolved : resolved[i].candidate = resolved[k].candidate => i = k

ListInv ==
  /\ pc \in {"record", "committed", "answered"} => Len(shortlist) = Sliced
  /\ pc = "record" => \A p \in DOMAIN pending : resolved[shortlist[p]].named

\* Resolving the next match adds nobody a second time.
LEMMA ResolveStep ==
  ASSUME TypeInv, ResolvedInv, Resolve
  PROVE  ResolvedInv'
PROOF
<1>1. /\ resolved \in Seq(Resolved) /\ matches \in Seq(Candidates \cup Jobs) /\ next \in Nat
      /\ next' = next + 1 /\ matches' = matches /\ row' = row
      /\ next \in DOMAIN matches /\ DOMAIN matches = 1..Len(matches) /\ Len(matches) \in Nat
      /\ DOMAIN resolved = 1..Len(resolved) /\ Len(resolved) \in Nat
  BY LenProperties DEF Resolve, TypeInv, TypeOK, queryVars, candidateVars
<1>2. CASE ~IsTheTenants(matches[next])
  <2>1. resolved' = resolved
    BY <1>2 DEF Resolve
  <2>2. \A m \in DOMAIN matches : m < next => m < next'
    BY <1>1
  <2> QED
    BY <1>1, <2>1, <2>2 DEF ResolvedInv
<1>3. CASE IsTheTenants(matches[next])
  <2> DEFINE c == matches[next]
             new == [candidate |-> c, named |-> row[c] = "parsed"]
             n == Len(resolved)
  <2>1. resolved' = Append(resolved, new) /\ c \in Own
    BY <1>3 DEF Resolve, IsTheTenants
  <2>2. new.candidate = c /\ (new.named => row[c] = "parsed")
    OBVIOUS
  <2> HIDE DEF new
  <2>3. /\ DOMAIN resolved' = 1..n + 1 /\ resolved'[n + 1] = new
        /\ \A i \in 1..n : resolved'[i] = resolved[i]
    BY <1>1, <2>1
  <2>4. \A i \in 1..n : resolved[i].candidate # c
    BY <1>1 DEF ResolvedInv
  <2>5. \A m \in DOMAIN matches : m < next => m < next'
    BY <1>1
  <2>6. next < next' /\ matches[next] = c
    BY <1>1
  <2>7. ASSUME NEW i \in 1..n + 1
        PROVE  /\ resolved'[i].candidate \in Own
               /\ resolved'[i].named => row[resolved'[i].candidate] = "parsed"
               /\ \E m \in DOMAIN matches : m < next' /\ matches[m] = resolved'[i].candidate
    <3>1. CASE i = n + 1
      BY <1>1, <2>1, <2>2, <2>3, <2>6, <3>1
    <3>2. CASE i \in 1..n
      BY <1>1, <2>3, <2>5, <3>2 DEF ResolvedInv
    <3> QED
      BY <1>1, <3>1, <3>2
  <2>8. ASSUME NEW i \in 1..n + 1, NEW k \in 1..n + 1,
               resolved'[i].candidate = resolved'[k].candidate
        PROVE  i = k
    <3>1. CASE i \in 1..n /\ k \in 1..n
      BY <1>1, <2>3, <2>8, <3>1 DEF ResolvedInv
    <3>2. CASE ~(i \in 1..n /\ k \in 1..n)
      BY <1>1, <2>2, <2>3, <2>4, <2>8, <3>2
    <3> QED
      BY <3>1, <3>2
  <2> QED
    BY <1>1, <2>3, <2>7, <2>8 DEF ResolvedInv
<1> QED
  BY <1>2, <1>3

\* Before the first match is resolved nobody is.
LEMMA NobodyYet ==
  ASSUME TypeInv, ResolvedInv, next = 1
  PROVE  DOMAIN resolved = {}
PROOF
<1>1. DOMAIN matches = 1..Len(matches) /\ Len(matches) \in Nat
  BY LenProperties DEF TypeInv, TypeOK
<1> SUFFICES ASSUME NEW i \in DOMAIN resolved PROVE FALSE
  OBVIOUS
<1>2. PICK m \in DOMAIN matches : m < next
  BY DEF ResolvedInv
<1> QED
  BY <1>1, <1>2

\* ResolvedInv holds throughout.
LEMMA ResolvedInvariant == Spec => []ResolvedInv
PROOF
<1>1. Init => ResolvedInv
  BY DEF Init, ResolvedInv
<1>2. TypeInv /\ ResolvedInv /\ [Next]_vars => ResolvedInv'
  <2> SUFFICES ASSUME TypeInv, ResolvedInv, [Next]_vars PROVE ResolvedInv'
    OBVIOUS
  <2>1. ASSUME UNCHANGED <<matches, next, resolved>>,
               \A c \in Candidates : row[c] = "parsed" => row'[c] = "parsed"
        PROVE  ResolvedInv'
    BY <2>1, ScreeningAssumption DEF ResolvedInv
  <2>2. CASE Elsewhere
    BY <2>1, <2>2, ElsewhereFrame, NamesStay DEF TypeInv, rankingVars, queryVars
  <2>3. ASSUME NEW i \in DOMAIN calls, Start(i) \/ Answer(i) \/ CallFails(i)
        PROVE  ResolvedInv'
    BY <2>1, <2>3 DEF Start, Answer, CallFails, EvalStep, queryVars, candidateVars
  <2>4. CASE Ask
    BY <2>4 DEF Ask, ResolvedInv
  <2>5. CASE Query
    <3>1. DOMAIN resolved = {} /\ resolved' = resolved /\ row' = row /\ next' = next
      BY <2>5, NobodyYet DEF Query, TypeInv, Stages, candidateVars
    <3>2. \A a, b \in DOMAIN matches' : matches'[a] = matches'[b] => a = b
      <4>1. CASE limit > 0
        BY <2>5, <4>1 DEF Query, TopOf
      <4>2. CASE ~(limit > 0)
        BY <2>5, <4>2 DEF Query, queryVars, ResolvedInv
      <4> QED
        BY <4>1, <4>2
    <3> QED
      BY <3>1, <3>2 DEF ResolvedInv
  <2>6. CASE Resolve
    BY <2>6, ResolveStep
  <2>7. CASE Submit \/ NoticeFailure \/ Raise \/ Rank
    BY <2>1, <2>7 DEF Submit, NoticeFailure, Raise, Rank, EvalStep, queryVars, candidateVars
  <2>8. CASE Record \/ RejectUnnamed \/ Commit \/ Respond \/ Fail
    BY <2>1, <2>8 DEF Record, RejectUnnamed, Commit, Respond, Fail, RecordStep, queryVars,
                      candidateVars
  <2> QED
    BY <2>2, <2>3, <2>4, <2>5, <2>6, <2>7, <2>8, NextCases
<1> QED
  BY <1>1, <1>2, TypeInvariant, PTL DEF Spec

\* ListInv holds throughout.
LEMMA ListInvariant == Spec => []ListInv
PROOF
<1>1. Init => ListInv
  BY DEF Init, ListInv
<1>2. TypeInv /\ SavedInv /\ ListInv /\ [Next]_vars => ListInv'
  <2> SUFFICES ASSUME TypeInv, SavedInv, ListInv, [Next]_vars PROVE ListInv'
    OBVIOUS
  <2>1. ASSUME pc' \notin {"record", "committed", "answered"} PROVE ListInv'
    BY <2>1 DEF ListInv
  <2>2. ASSUME UNCHANGED <<shortlist, resolved, inputVars>>, pc' = pc, pending' = pending
        PROVE  ListInv'
    BY <2>2 DEF ListInv, Sliced, cut, inputVars
  <2>3. CASE Elsewhere
    BY <2>2, <2>3, ElsewhereFrame DEF rankingVars, TypeInv
  <2>4. ASSUME NEW i \in DOMAIN calls, Start(i) \/ Answer(i) \/ CallFails(i) PROVE ListInv'
    BY <2>2, <2>4 DEF Start, Answer, CallFails, EvalStep
  <2>5. CASE Ask \/ Query \/ Resolve \/ Submit \/ NoticeFailure \/ Raise
    BY <2>1, <2>2, <2>5 DEF Ask, Query, Resolve, Submit, NoticeFailure, Raise
  <2>6. CASE Rank
    <3>1. Sliced \in Nat /\ shortlist' \in [1..Sliced -> DOMAIN resolved]
      BY <2>6, RankShortlist
    <3>2. Len(shortlist') = Sliced
      BY <3>1, IsSequence
    <3>3. pending' = <<>> /\ Sliced' = Sliced
      BY <2>6 DEF Rank, SavedInv, Sliced, cut, inputVars
    <3> QED
      BY <3>2, <3>3 DEF ListInv
  <2>7. CASE Record
    <3>1. /\ pending \in Seq(Match) /\ Len(pending) \in Nat
          /\ pending' = Append(pending, MatchOf(entry, Len(pending) + 1))
          /\ DOMAIN pending = 1..Len(pending)
      BY <2>7, LenProperties DEF Record, TypeInv, TypeOK
    <3>2. DOMAIN pending' = 1..Len(pending) + 1
      BY <3>1
    <3>3. resolved[shortlist[Len(pending) + 1]].named
      BY <2>7 DEF Record, entry
    <3>4. UNCHANGED <<shortlist, resolved, inputVars, pc>> /\ pc = "record"
      BY <2>7 DEF Record, RecordStep
    <3>5. Sliced' = Sliced
      BY <3>4 DEF Sliced, cut, inputVars
    <3> QED
      BY <3>1, <3>2, <3>3, <3>4, <3>5 DEF ListInv
  <2>8. CASE Commit \/ Respond
    <3>1. UNCHANGED <<shortlist, resolved, inputVars>>
      BY <2>8 DEF Commit, Respond, RecordStep
    <3>2. Sliced' = Sliced
      BY <3>1 DEF Sliced, cut, inputVars
    <3> QED
      BY <2>8, <3>1, <3>2 DEF Commit, Respond, ListInv
  <2>9. CASE RejectUnnamed \/ Fail
    BY <2>1, <2>9 DEF RejectUnnamed, Fail
  <2> QED
    BY <2>3, <2>4, <2>5, <2>6, <2>7, <2>8, <2>9, NextCases
<1> QED
  BY <1>1, <1>2, TypeInvariant, SavedInvariant, PTL DEF Spec

\* Everybody resolved is evaluated at one index, so that as many are judged as were
\* resolved, each with the score of its one call.
LEMMA JudgedOnce ==
  ASSUME TypeInv, ResolvedInv, pc \in {"record", "committed", "answered"}
  PROVE  /\ DOMAIN Judged = Evaluated
         /\ Cardinality(Evaluated) = Len(resolved)
         /\ \A i \in DOMAIN resolved :
              /\ resolved[i].candidate \in Evaluated
              /\ Judged[resolved[i].candidate] = scores[i]
PROOF
<1> DEFINE n == Len(resolved)
           f == [i \in 1..n |-> resolved[i].candidate]
<1>1. n \in Nat /\ DOMAIN resolved = 1..n
  BY LenProperties DEF TypeInv, TypeOK
<1>2. Judged = [c \in Evaluated |-> scores[EvaluationOf(c)]]
  BY DEF Judged
<1>3. ASSUME NEW i \in DOMAIN resolved
      PROVE  resolved[i].candidate \in Evaluated /\ EvaluationOf(resolved[i].candidate) = i
  <2>1. EvaluationOf(resolved[i].candidate) \in DOMAIN resolved
        /\ resolved[EvaluationOf(resolved[i].candidate)].candidate = resolved[i].candidate
    BY DEF EvaluationOf
  <2> QED
    BY <2>1 DEF ResolvedInv, Evaluated
<1>4. f \in Bijection(1..n, Evaluated)
  <2>1. f \in [1..n -> Evaluated] /\ \A c \in Evaluated : \E i \in 1..n : f[i] = c
    BY <1>1 DEF Evaluated
  <2>2. \A i, k \in 1..n : f[i] = f[k] => i = k
    BY <1>1 DEF ResolvedInv
  <2> QED
    BY <2>1, <2>2 DEF Bijection, Injection, Surjection, IsInjective
<1>5. IsFiniteSet(1..n) /\ Cardinality(1..n) = n
  BY <1>1, UpTo
<1>6. Cardinality(Evaluated) = n
  BY <1>4, <1>5, FS_Bijection DEF ExistsBijection
<1> QED
  BY <1>2, <1>3, <1>6

\* The commit saves the best of those judged: BestIsBest has the order, ListInv the
\* length and the names.
LEMMA CommitSaves ==
  ASSUME TypeInv, SavedInv, BestInv, ResolvedInv, ListInv, Commit
  PROVE  Service!Save
PROOF
<1> DEFINE list == [p \in 1..Sliced |-> resolved[shortlist[p]].candidate]
           n == Len(resolved)
<1>1. /\ n \in Nat /\ DOMAIN resolved = 1..n /\ DOMAIN shortlist = 1..Len(shortlist)
      /\ Len(shortlist) \in Nat /\ Len(shortlist) = Sliced
      /\ \A p \in 1..Sliced : shortlist[p] \in DOMAIN resolved
  BY LenProperties DEF Commit, ListInv, TypeInv, TypeOK
<1>2. /\ DOMAIN Judged = Evaluated /\ Cardinality(Evaluated) = n
      /\ \A i \in DOMAIN resolved : /\ resolved[i].candidate \in Evaluated
                                    /\ Judged[resolved[i].candidate] = scores[i]
  BY JudgedOnce DEF Commit
<1>3. \A i \in DOMAIN resolved : scores[i] \in Int
  BY ScreeningAssumption DEF TypeInv, TypeOK, Stages, CallsIn, Commit
<1>4. Phase = "judged" /\ Phase' = "saved"
  BY DEF Commit, Phase
<1>5. UNCHANGED <<row, top_n, resolved, scores, shortlist>> /\ saved' = pending
  BY DEF Commit, RecordStep, candidateVars, inputVars, evalVars
<1>6. Judged' = Judged
  BY <1>5 DEF Commit, Judged, Evaluated, EvaluationOf
<1>7. Service!Wanted(Service!Cardinality(DOMAIN Judged)) = Sliced
  <2>1. Service!Wanted(n) = Sliced
    BY DEF Service!Wanted, Sliced, Least, cut
  <2>2. Service!Cardinality(Evaluated) = Cardinality(Evaluated)
    BY DEF Service!Cardinality, Cardinality
  <2> QED
    BY <1>2, <2>1, <2>2
<1>8. list \in [1..Sliced -> DOMAIN Judged]
  BY <1>1, <1>2
<1>9. saved' = [p \in 1..Sliced |->
                  [candidate |-> list[p], score |-> Judged[list[p]], rank |-> p]]
  <2>1. /\ DOMAIN pending = 1..Sliced /\ pending \in Seq(Match)
        /\ \A p \in 1..Sliced : pending[p] = MatchOf(shortlist[p], p)
    BY <1>1, LenProperties DEF Commit, SavedInv, TypeInv, TypeOK
  <2>2. pending = [p \in 1..Sliced |-> pending[p]]
    BY <2>1, LenProperties
  <2>3. \A p \in 1..Sliced :
          MatchOf(shortlist[p], p) = [candidate |-> list[p], score |-> Judged[list[p]], rank |-> p]
    BY <1>1, <1>2 DEF MatchOf
  <2> QED
    BY <1>5, <2>1, <2>2, <2>3
<1>10. Service!IsBest(list)
  <2> DEFINE Better(i, k) == scores[i] > scores[k] \/ (scores[i] = scores[k] /\ i < k)
             Listed == {shortlist[p] : p \in DOMAIN shortlist}
  <2>1. /\ \A p, q \in DOMAIN shortlist : p < q => Better(shortlist[p], shortlist[q])
        /\ \A i \in Listed, k \in DOMAIN resolved \ Listed : Better(i, k)
    BY BestIsBest DEF ShortlistIsBest, Commit
  <2>2. ASSUME NEW p \in 1..Sliced
        PROVE  list[p] \in {c \in Own : row[c] = "parsed"}
    <3>1. p \in DOMAIN pending
      BY <1>1, LenProperties DEF Commit, TypeInv, TypeOK
    <3>2. resolved[shortlist[p]].named
      BY <3>1 DEF ListInv, Commit
    <3> QED
      BY <1>1, <3>2 DEF ResolvedInv
  <2>3. ASSUME NEW p \in 1..Sliced, NEW q \in 1..Sliced, p < q
        PROVE  list[p] # list[q] /\ Judged[list[p]] >= Judged[list[q]]
    <3>1. Better(shortlist[p], shortlist[q])
      BY <1>1, <2>1, <2>3
    <3>2. shortlist[p] # shortlist[q] /\ scores[shortlist[p]] >= scores[shortlist[q]]
      BY <1>1, <1>3, <3>1
    <3>3. list[p] # list[q]
      BY <1>1, <3>2 DEF ResolvedInv
    <3> QED
      BY <1>1, <1>2, <3>2, <3>3
  <2>4. ASSUME NEW p \in 1..Sliced, NEW c \in DOMAIN Judged, Judged[c] > Judged[list[p]]
        PROVE  \E q \in 1..Sliced : list[q] = c
    <3>1. PICK k \in DOMAIN resolved : resolved[k].candidate = c
      BY <1>2 DEF Evaluated
    <3>2. scores[k] > scores[shortlist[p]]
      BY <1>1, <1>2, <2>4, <3>1
    <3>3. ~Better(shortlist[p], k)
      BY <1>1, <1>3, <3>2
    <3>4. shortlist[p] \in Listed
      BY <1>1
    <3>5. k \in Listed
      BY <2>1, <3>3, <3>4
    <3>6. PICK q \in DOMAIN shortlist : shortlist[q] = k
      BY <3>5
    <3> QED
      BY <1>1, <3>1, <3>6
  <2>5. DOMAIN list = 1..Sliced
    OBVIOUS
  <2> HIDE DEF list
  <2> QED
    BY <2>2, <2>3, <2>4, <2>5 DEF Service!IsBest
<1> HIDE DEF list
<1>11. \E l \in [1..Sliced -> DOMAIN Judged] :
         /\ Service!IsBest(l)
         /\ saved' = [p \in 1..Sliced |->
                        [candidate |-> l[p], score |-> Judged[l[p]], rank |-> p]]
  BY <1>8, <1>9, <1>10
<1>12. {c \in Own : row[c] = "parsed"}' = {c \in Own : row[c] = "parsed"}
  BY <1>5
<1> QED
  BY <1>4, <1>5, <1>6, <1>7, <1>11, <1>12 DEF Service!Save

Names == {c \in Own : row[c] = "parsed"}

\* The initial state is one of RankingService.
LEMMA InitServes == Init => Service!Init
PROOF
<1> SUFFICES ASSUME Init PROVE Service!Init
  OBVIOUS
<1>1. Phase = "idle" /\ Judged = Service!Unjudged
  BY DEF Init, Phase, Judged, Service!Unjudged
<1>2. Names = {}
  BY ScreeningAssumption DEF Init, Names
<1> QED
  BY <1>1, <1>2 DEF Init, Service!Init, Names

\* A step outside the ranking gives an applicant its name, or is nothing to a client.
LEMMA ElsewhereServes ==
  ASSUME TypeOK, Elsewhere
  PROVE  (\E c \in Own : Service!Name(c)) \/ UNCHANGED Service!vars
PROOF
<1>1. UNCHANGED <<Phase, top_n, Judged, saved>>
  BY ElsewhereFrame DEF rankingVars, Phase, Judged, Evaluated, EvaluationOf, inputVars, evalVars
<1>2. ASSUME Names' = Names PROVE UNCHANGED Service!vars
  BY <1>1, <1>2 DEF Service!vars, Names
<1>3. ASSUME NEW c \in Candidates, Store(c) \/ Parse(c)
      PROVE  (\E d \in Own : Service!Name(d)) \/ UNCHANGED Service!vars
  <2>1. \/ row' = [row EXCEPT ![c] = "parsed"]
        \/ row[c] = "none" /\ row' = [row EXCEPT ![c] = "unparsed"]
    BY <1>3 DEF Store, Parse, Write
  <2>2. row \in [Candidates -> {"none", "unparsed", "parsed"}] /\ Own \subseteq Candidates
    BY ScreeningAssumption DEF TypeOK
  <2>3. CASE c \in Own /\ row' = [row EXCEPT ![c] = "parsed"]
    <3>1. Names' = Names \cup {c}
      BY <2>2, <2>3 DEF Names
    <3>2. Service!Name(c)
      BY <1>1, <3>1 DEF Service!Name, Names
    <3> QED
      BY <2>3, <3>2
  <2>4. CASE c \notin Own
    <3>1. Names' = Names
      BY <2>1, <2>2, <2>4 DEF Names
    <3> QED
      BY <1>2, <3>1
  <2>5. CASE row[c] = "none" /\ row' = [row EXCEPT ![c] = "unparsed"]
    <3>1. Names' = Names
      BY <2>2, <2>5 DEF Names
    <3> QED
      BY <1>2, <3>1
  <2> QED
    BY <2>1, <2>3, <2>4, <2>5
<1>4. ASSUME NEW c \in Candidates, Index(c) PROVE Names' = Names
  BY <1>4 DEF Index, Names
<1>5. ASSUME NEW j \in Jobs, FlushJob(j) \/ UpsertJob(j) \/ CommitJob(j) \/ AbandonJob(j)
      PROVE  Names' = Names
  BY <1>5 DEF FlushJob, UpsertJob, CommitJob, AbandonJob, JobStep, candidateVars, Names
<1>6. CASE UNCHANGED vars
  BY <1>2, <1>6 DEF vars, candidateVars, Names
<1> QED
  BY <1>2, <1>3, <1>4, <1>5, <1>6 DEF Elsewhere

\* Every step of a ranking is one of RankingService or nothing to a client.
LEMMA StepServes ==
  TypeInv /\ SavedInv /\ BestInv /\ ResolvedInv /\ ListInv /\ [Next]_vars
    => [Service!Next]_(Service!vars)
PROOF
<1> SUFFICES ASSUME TypeInv, SavedInv, BestInv, ResolvedInv, ListInv, [Next]_vars
             PROVE  Service!Next \/ UNCHANGED Service!vars
  OBVIOUS
<1>1. ASSUME UNCHANGED <<row, top_n, saved, Phase, Judged>> PROVE UNCHANGED Service!vars
  BY <1>1 DEF Service!vars
<1>2. ASSUME UNCHANGED <<row, top_n, saved>>, Phase \in {"asked", "judged", "saved"},
             pc' = "failed"
      PROVE  Service!Next
  <2>1. Phase' = "failed" /\ Judged' = Service!Unjudged
    BY <1>2 DEF Phase, Judged, Service!Unjudged
  <2> QED
    BY <1>2, <2>1 DEF Service!Fail, Service!Next
<1>3. CASE Elsewhere
  BY <1>3, ElsewhereServes DEF TypeInv, Service!Next
<1>4. ASSUME NEW i \in DOMAIN calls, Start(i) \/ Answer(i) \/ CallFails(i)
      PROVE  UNCHANGED Service!vars
  <2>1. pc \notin {"record", "committed", "answered"}
    BY <1>4, CallsAreOver DEF Start, Answer, CallFails, CallsIn
  <2>2. UNCHANGED <<row, top_n, saved, pc>>
    BY <1>4 DEF Start, Answer, CallFails, EvalStep, candidateVars, inputVars
  <2> QED
    BY <1>1, <2>1, <2>2 DEF Phase, Judged
<1>5. CASE Ask
  <2>1. Phase \in {"idle", "answered", "failed"} /\ Phase' = "asked"
    BY <1>5 DEF Ask, Phase
  <2>2. Judged' = Service!Unjudged
    BY <1>5 DEF Ask, Judged, Service!Unjudged
  <2>3. top_n' \in Counts /\ saved' = <<>> /\ row' = row
    BY <1>5 DEF Ask, candidateVars
  <2> QED
    BY <2>1, <2>2, <2>3 DEF Service!Ask, Service!Next
<1>6. CASE Query
  <2>1. UNCHANGED <<row, top_n, saved>> /\ pc = "query"
    BY <1>6 DEF Query, candidateVars, inputVars
  <2>2. CASE limit > 0
    <3>1. pc' = "resolve"
      BY <1>6, <2>2 DEF Query
    <3> QED
      BY <1>1, <2>1, <3>1 DEF Phase, Judged
  <2>3. CASE ~(limit > 0)
    <3>1. pc' = "failed"
      BY <1>6, <2>3 DEF Query
    <3> QED
      BY <1>2, <2>1, <3>1 DEF Phase
  <2> QED
    BY <2>2, <2>3
<1>7. CASE Resolve \/ Submit \/ NoticeFailure
  <2>1. /\ UNCHANGED <<row, top_n, saved>>
        /\ pc \in {"resolve", "evaluate"} /\ pc' \in {"resolve", "evaluate", "drain"}
    BY <1>7 DEF Resolve, Submit, NoticeFailure, EvalStep, candidateVars, inputVars
  <2> QED
    BY <1>1, <2>1 DEF Phase, Judged
<1>8. CASE Raise
  <2>1. UNCHANGED <<row, top_n, saved>> /\ Phase = "asked" /\ pc' = "failed"
    BY <1>8 DEF Raise, EvalStep, candidateVars, inputVars, Phase
  <2> QED
    BY <1>2, <2>1
<1>9. CASE Rank
  <2>1. UNCHANGED <<row, top_n, saved, resolved>> /\ Phase = "asked" /\ Phase' = "judged"
    BY <1>9 DEF Rank, candidateVars, inputVars, Phase
  <2>2. \A i \in DOMAIN resolved : scores[i] \in Scores /\ scores' = scores
    BY <1>9, RankShortlist DEF Rank, evalVars
  <2>3. Judged' = [c \in Evaluated |-> scores[EvaluationOf(c)]]
    BY <1>9, <2>1 DEF Rank, evalVars, Judged, Evaluated, EvaluationOf
  <2>4. \A c \in Evaluated : EvaluationOf(c) \in DOMAIN resolved
    BY DEF Evaluated, EvaluationOf
  <2>5. Judged' \in [Evaluated -> Scores]
    BY <2>2, <2>3, <2>4
  <2>6. Evaluated \in SUBSET Own
    BY DEF Evaluated, ResolvedInv
  <2> QED
    BY <2>1, <2>5, <2>6 DEF Service!Judge, Service!Next
<1>10. CASE Record
  <2>1. UNCHANGED <<row, top_n, saved, pc, resolved, scores>>
    BY <1>10 DEF Record, RecordStep, candidateVars, inputVars, evalVars
  <2> QED
    BY <1>1, <2>1 DEF Phase, Judged, Evaluated, EvaluationOf
<1>11. CASE RejectUnnamed \/ Fail
  <2>1. /\ UNCHANGED <<row, top_n, saved>> /\ pc' = "failed"
        /\ pc \in {"query", "resolve", "record", "committed"}
    BY <1>11 DEF RejectUnnamed, Fail, RecordStep, candidateVars, inputVars
  <2> QED
    BY <1>2, <2>1 DEF Phase
<1>12. CASE Commit
  BY <1>12, CommitSaves DEF Service!Next
<1>13. CASE Respond
  <2>1. UNCHANGED <<row, top_n, saved, resolved, scores>>
    BY <1>13 DEF Respond, RecordStep, candidateVars, inputVars, evalVars
  <2>2. Phase = "saved" /\ Phase' = "answered" /\ Judged' = Judged
    BY <1>13, <2>1 DEF Respond, Phase, Judged, Evaluated, EvaluationOf
  <2> QED
    BY <2>1, <2>2 DEF Service!Reply, Service!Next
<1> QED
  BY <1>3, <1>4, <1>5, <1>6, <1>7, <1>8, <1>9, <1>10, <1>11, <1>12, <1>13, NextCases

\* Every answer is the best of the tenant's candidates judged for it, as long as was
\* wanted, each listed once and with a name, saved whole before it is given: Screening
\* implements RankingService.
THEOREM ScreeningImplementsService == Spec => ImplementsService
PROOF
<1>1. Spec => [](TypeInv /\ SavedInv /\ BestInv /\ ResolvedInv /\ ListInv)
  BY TypeInvariant, SavedInvariant, BestInvariant, ResolvedInvariant, ListInvariant, PTL
<1> QED
  BY <1>1, InitServes, StepServes, PTL DEF Spec, ImplementsService, Service!Spec
=============================================================================
