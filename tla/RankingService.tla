--------------------------- MODULE RankingService ---------------------------
(***************************************************************************)
(* What POST /screening/rank promises a tenant: candidates of the tenant   *)
(* are judged, each once, and the answer is the best of them, as many as   *)
(* are wanted, ranked from 1.  It is saved whole or not at all, before it  *)
(* is given.  The query, the thread pool, the sort and the session are     *)
(* Screening's.                                                            *)
(***************************************************************************)
EXTENDS Integers, Sequences, FiniteSets

CONSTANTS Applicants,     \* the tenant's candidates
          Scores,
          Counts,         \* how many a request can want; 0 when it does not say
          ranking_top_n   \* how many are wanted then

VARIABLES phase,
          named,          \* the applicants with a full_name
          top_n,          \* how many are wanted
          judged,         \* judged[c]: the score of c
          saved           \* match_results of the request

vars == <<phase, named, top_n, judged, saved>>

Unjudged == [c \in {} |-> 0]

Init ==
  /\ phase = "idle"
  /\ named = {} /\ top_n = 0
  /\ judged = Unjudged /\ saved = <<>>

\* A name, once there, stays.
Name(c) ==
  /\ named' = named \cup {c}
  /\ UNCHANGED <<phase, top_n, judged, saved>>

Ask ==
  /\ phase \in {"idle", "answered", "failed"}
  /\ phase' = "asked"
  /\ top_n' \in Counts
  /\ judged' = Unjudged /\ saved' = <<>>
  /\ UNCHANGED named

Judge ==
  /\ phase = "asked"
  /\ phase' = "judged"
  /\ \E pool \in SUBSET Applicants : judged' \in [pool -> Scores]
  /\ UNCHANGED <<named, top_n, saved>>

\* How many of n are wanted; a negative top_n says how many are not.
Wanted(n) ==
  LET cut == IF top_n = 0 THEN ranking_top_n ELSE top_n
  IN  IF cut > 0 THEN (IF cut < n THEN cut ELSE n)
      ELSE IF n + cut > 0 THEN n + cut ELSE 0

\* Everybody listed has a name and is listed once; nobody listed later and nobody
\* left out has a higher score.
IsBest(list) ==
  /\ \A p \in DOMAIN list : list[p] \in named
  /\ \A p, q \in DOMAIN list :
       p < q => list[p] # list[q] /\ judged[list[p]] >= judged[list[q]]
  /\ \A p \in DOMAIN list, c \in DOMAIN judged :
       judged[c] > judged[list[p]] => \E q \in DOMAIN list : list[q] = c

Save ==
  /\ phase = "judged"
  /\ phase' = "saved"
  /\ LET places == 1..Wanted(Cardinality(DOMAIN judged))
     IN  \E list \in [places -> DOMAIN judged] :
           /\ IsBest(list)
           /\ saved' = [p \in places |->
                          [candidate |-> list[p], score |-> judged[list[p]], rank |-> p]]
  /\ UNCHANGED <<named, top_n, judged>>

Reply ==
  /\ phase = "saved"
  /\ phase' = "answered"
  /\ UNCHANGED <<named, top_n, judged, saved>>

\* What is saved stays, also when the client is not told of it.
Fail ==
  /\ phase \in {"asked", "judged", "saved"}
  /\ phase' = "failed"
  /\ judged' = Unjudged
  /\ UNCHANGED <<named, top_n, saved>>

Next == (\E c \in Applicants : Name(c)) \/ Ask \/ Judge \/ Save \/ Reply \/ Fail

Spec == Init /\ [][Next]_vars
=============================================================================
