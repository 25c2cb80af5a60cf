--------------------------- MODULE StatusNotifier ---------------------------
(***************************************************************************)
(* What happens after _mark_status: the DynamoDB status table has a stream *)
(* (infra/terraform/dynamodb.tf), an event source mapping reads it in      *)
(* batches (lambda.tf) and invokes the notifier (lambda/notifier/          *)
(* handler.py), which tells the recruiter's product of each record.        *)
(* Composed with ResumeIngestion, whose workers write the table.           *)
(*                                                                         *)
(* Every update changes updated_at, so each one, a repeated one too, puts  *)
(* a record on the stream.  A failed invocation is repeated with the same  *)
(* batch: lambda.tf sets neither a limit on the retries nor an on-failure  *)
(* destination.  That records expire, after a day, is left out.            *)
(***************************************************************************)
EXTENDS ResumeIngestion, Sequences

CONSTANTS BatchRecords,  \* batch_size of the event source mapping (10)
          MaxRetries     \* bound on retries

ASSUME NotifierAssumption == BatchRecords \in Nat \ {0} /\ MaxRetries \in Nat

VARIABLES
  stream,     \* the stream's records, each the delivery its update was made for
  told,       \* told[i]: how often the recruiter was told of record i
  position,   \* the first record the mapping has not finished; 0 before it exists
  upto,       \* the last record of the batch in progress, 0 when there is none
  cursor,     \* the record of the batch the handler is at
  retries     \* invocations that failed

tableVars  == <<stream, told>>
lambdaVars == <<position, upto, cursor, retries>>
allVars    == <<vars, tableVars, lambdaVars>>

NotifierTypeOK ==
  /\ stream \in Seq(Deliveries)
  /\ told \in Seq(Nat) /\ Len(told) = Len(stream)
  /\ position \in 0..(Len(stream) + 1)
  /\ upto \in 0..Len(stream)
  /\ cursor \in 0..(Len(stream) + 1)
  /\ upto # 0 => position \in 1..upto /\ cursor \in position..(upto + 1)
  /\ retries \in 0..MaxRetries

NotifierInit ==
  /\ Init
  /\ stream = <<>> /\ told = <<>>
  /\ position = 0 /\ upto = 0 /\ cursor = 0 /\ retries = 0

\* A step of the service; an update of the status table appends to the stream.
Ingest ==
  /\ Next
  /\ LET marking == {w \in Workers : pc[w] = "mark" /\ pc'[w] = "delete"} IN
     IF marking = {} THEN UNCHANGED tableVars
     ELSE \E w \in marking : stream' = Append(stream, job[w]) /\ told' = Append(told, 0)
  /\ UNCHANGED lambdaVars

\* terraform creates the mapping.  It starts at LATEST: what is on the stream already
\* is never read.
CreateMapping ==
  /\ position = 0
  /\ position' = Len(stream) + 1
  /\ UNCHANGED <<vars, tableVars, upto, cursor, retries>>

Take(n) ==
  /\ position > 0 /\ upto = 0 /\ position + n - 1 <= Len(stream)
  /\ upto' = position + n - 1
  /\ cursor' = position
  /\ UNCHANGED <<vars, tableVars, position, retries>>

\* A mapping that waits for a full batch.
InvokeWhenFull == Take(BatchRecords)

Invoke == \E n \in 1..BatchRecords : Take(n)

\* One turn of the handler's loop: the record is an INSERT or a MODIFY, and its new
\* image says ai-processed, the only status the worker writes.
Notify ==
  /\ upto # 0 /\ cursor <= upto
  /\ told' = [told EXCEPT ![cursor] = @ + 1]
  /\ cursor' = cursor + 1
  /\ UNCHANGED <<vars, stream, position, upto, retries>>

\* A return that is not checkpointed.
ReturnUnnoticed ==
  /\ upto # 0 /\ cursor = upto + 1
  /\ upto' = 0
  /\ UNCHANGED <<vars, tableVars, position, cursor, retries>>

Return ==
  /\ upto # 0 /\ cursor = upto + 1
  /\ position' = cursor
  /\ upto' = 0
  /\ UNCHANGED <<vars, tableVars, cursor, retries>>

\* A failed batch that is given up.
BatchGivenUp ==
  /\ upto # 0 /\ retries < MaxRetries
  /\ retries' = retries + 1
  /\ position' = upto + 1
  /\ upto' = 0
  /\ UNCHANGED <<vars, tableVars, cursor>>

\* The invocation raises, is killed or takes more than 30 seconds, at any record or
\* after the last: the whole batch is invoked again.
InvocationFails ==
  /\ upto # 0 /\ retries < MaxRetries
  /\ retries' = retries + 1
  /\ cursor' = position
  /\ UNCHANGED <<vars, tableVars, position, upto>>

Lambda == Invoke \/ Notify \/ Return

NotifierNext == Ingest \/ CreateMapping \/ Lambda \/ InvocationFails

NotifierSpec == NotifierInit /\ [][NotifierNext]_allVars

\* Lambda polls the stream for as long as the mapping exists.
NotifierFairSpec == NotifierSpec /\ Fairness /\ WF_allVars(Lambda)

(***************************************************************************)
(* Properties.                                                             *)
(***************************************************************************)
Notified == {stream[i].cand : i \in {j \in DOMAIN told : told[j] > 0}}

\* A recruiter is told only of a candidate that a ranking can find and show: the row
\* has its parsed fields and its vector is in the index, whatever was redelivered,
\* retried or lost between PostgreSQL, DynamoDB and the stream.
NotifiedIsSearchable == Notified \subseteq linked \cap index

\* How often a recruiter can be told of one candidate: once, but for one more record
\* for each fault of the pipeline, and one more notice of a record for each failed
\* invocation.
RepeatedNoticeIsPaidFor ==
  /\ \A c \in Candidates : Cardinality({i \in DOMAIN stream : stream[i].cand = c}) <= faults + 1
  /\ \A i \in DOMAIN told : told[i] <= retries + 1

\* No record is skipped: the mapping leaves behind only records it has told of, in
\* whichever invocation of their batch, although the handler says nothing of what it did.
NoRecordIsSkipped ==
  [][\A i \in DOMAIN told : 0 < position /\ position <= i /\ i < position' => told[i] > 0]_allVars

\* From end to end, with one worker and fewer faults than deliveries: an upload that
\* was answered with 202 while the mapping was there, of a file the pipeline can read,
\* leads to a notice, unless the LLM's answer was refused or the message expired.
AcceptedIsNotified ==
  \A c \in Candidates :
    (request[c] = "accepted" /\ resume[c] = "good" /\ position > 0 /\ c \notin reported) ~>
      (c \in Notified \/ status[c] = "failed" \/ queue[c] = "expired")
=============================================================================
