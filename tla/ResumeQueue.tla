---------------------------- MODULE ResumeQueue ----------------------------
(***************************************************************************)
(* The SQS queue `resume-uploaded` and its dead-letter queue, as the       *)
(* redrive policy in infra/terraform/sqs.tf configures them and as         *)
(* app/services/ingestion.py (send) and app/worker.py (receive, delete)    *)
(* use them.  SQS itself is an external service.                           *)
(*                                                                         *)
(* The producer sends exactly one message per candidate, so a message is   *)
(* identified by its candidate.  A receipt handle is the number of the     *)
(* delivery that issued it.                                                *)
(***************************************************************************)
EXTENDS Naturals

CONSTANTS Candidates,        \* the candidate ids uploads can create
          MaxReceiveCount    \* redrive_policy.maxReceiveCount (5 in sqs.tf)

ASSUME MaxReceiveCountAssumption == MaxReceiveCount \in Nat \ {0}

VARIABLES queue,       \* queue[c]: where the message of candidate c is
          receives     \* receives[c]: its ApproximateReceiveCount

queueVars == <<queue, receives>>

Live  == {"visible", "inflight"}
Ended == {"deleted", "dlq", "expired"}

QueueTypeOK ==
  /\ queue    \in [Candidates -> {"none"} \cup Live \cup Ended]
  /\ receives \in [Candidates -> 0..MaxReceiveCount]

QueueInit ==
  /\ queue    = [c \in Candidates |-> "none"]
  /\ receives = [c \in Candidates |-> 0]

(***************************************************************************)
(* What a receipt handle is good for, and which messages a receive request *)
(* hands out rather than moves to the dead-letter queue.                   *)
(***************************************************************************)
Deliveries == [cand : Candidates, receipt : 1..MaxReceiveCount]

Visible == {c \in Candidates : queue[c] = "visible"}

\* A redrive that takes maxReceiveCount for a bound on the failures, and one that is
\* not configured.
DeliverableOnceLess(c) == receives[c] + 1 < MaxReceiveCount
DeliverableForEver(c) == TRUE
Deliverable(c) == receives[c] < MaxReceiveCount

Delivered(S) == {[cand |-> c, receipt |-> receives[c] + 1] : c \in {x \in S : Deliverable(x)}}

(***************************************************************************)
(* The operations.                                                         *)
(***************************************************************************)
Send(c) ==
  /\ queue' = [queue EXCEPT ![c] = "visible"]
  /\ UNCHANGED receives

\* One receive request that finds the messages S: each becomes invisible for
\* the visibility timeout, or goes to the dead-letter queue when it has been
\* received MaxReceiveCount times already.
Receive(S) ==
  /\ queue' = [c \in Candidates |->
                 IF c \notin S THEN queue[c]
                 ELSE IF Deliverable(c) THEN "inflight" ELSE "dlq"]
  /\ receives' = [c \in Candidates |->
                    IF c \in S /\ Deliverable(c) THEN receives[c] + 1 ELSE receives[c]]

\* Deleting with the latest receipt handle removes the message.  A handle of an
\* earlier delivery may or may not, and a handle of a message that has left
\* the queue does nothing.
Removes(c) ==
  /\ queue[c] \in Live
  /\ queue' = [queue EXCEPT ![c] = "deleted"]

Delete(d) ==
  /\ \/ Removes(d.cand)
     \/ /\ queue[d.cand] \notin Live \/ d.receipt # receives[d.cand]
        /\ UNCHANGED queue
  /\ UNCHANGED receives

\* The visibility timeout of a delivery runs out.
Reappear(c) ==
  /\ queue[c] = "inflight"
  /\ queue' = [queue EXCEPT ![c] = "visible"]
  /\ UNCHANGED receives

\* message_retention_seconds runs out.
Expire(c) ==
  /\ queue[c] \in Live
  /\ queue' = [queue EXCEPT ![c] = "expired"]
  /\ UNCHANGED receives
=============================================================================
