------------------------- MODULE CandidateLifecycle -------------------------
(***************************************************************************)
(* What the ingestion pipeline promises of a candidate's `status`, the     *)
(* column clients poll (db.py:71-77, README.md:91-93), with the queue, the *)
(* HTTP handlers and the order of the external calls left out.             *)
(*                                                                         *)
(* A row appears as `pending`, or as `processed` when its vector is        *)
(* already in the index.  From then on only an attempt to process it       *)
(* changes its status: the attempt begins by writing `processing`, and     *)
(* ends by writing one verdict or by giving up and leaving the status to   *)
(* later attempts.  It may only succeed when the candidate is searchable.  *)
(***************************************************************************)
CONSTANTS Candidates,
          Workers,
          None          \* the attempt of a worker that makes none

VARIABLES status,       \* candidates.status, "absent" without a row
          attempt,      \* attempt[w]: the candidate worker w is processing
          searchable    \* candidates with a vector in the index

Init ==
  /\ status = [c \in Candidates |-> "absent"]
  /\ attempt = [w \in Workers |-> None]
  /\ searchable = {}

Accept(c) ==
  /\ status[c] = "absent"
  /\ status' = [status EXCEPT ![c] = "pending"]
  /\ UNCHANGED <<attempt, searchable>>

Import(c) ==
  /\ status[c] = "absent" /\ c \in searchable
  /\ status' = [status EXCEPT ![c] = "processed"]
  /\ UNCHANGED <<attempt, searchable>>

\* Before the row exists (a JSON create) or on behalf of an attempt.
MakeSearchable(c) ==
  /\ status[c] = "absent" \/ \E w \in Workers : attempt[w] = c
  /\ searchable' = searchable \cup {c}
  /\ UNCHANGED <<status, attempt>>

Begin(w, c) ==
  /\ attempt[w] = None /\ status[c] # "absent"
  /\ attempt' = [attempt EXCEPT ![w] = c]
  /\ status' = [status EXCEPT ![c] = "processing"]
  /\ UNCHANGED searchable

End(w, c, verdict) ==
  /\ attempt[w] = c
  /\ attempt' = [attempt EXCEPT ![w] = None]
  /\ status' = [status EXCEPT ![c] = verdict]
  /\ UNCHANGED searchable

Succeed(w, c) == c \in searchable /\ End(w, c, "processed")

Reject(w, c) == End(w, c, "failed")

GiveUp(w) ==
  /\ attempt' = [attempt EXCEPT ![w] = None]
  /\ UNCHANGED <<status, searchable>>

Next ==
  \/ \E c \in Candidates : Accept(c) \/ Import(c) \/ MakeSearchable(c)
  \/ \E w \in Workers, c \in Candidates : Begin(w, c) \/ Succeed(w, c) \/ Reject(w, c)
  \/ \E w \in Workers : GiveUp(w)

Spec == Init /\ [][Next]_<<status, attempt, searchable>>
=============================================================================
