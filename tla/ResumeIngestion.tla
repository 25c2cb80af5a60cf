-------------------------- MODULE ResumeIngestion --------------------------
(***************************************************************************)
(* How a candidate gets into the service: POST /candidates/upload (the     *)
(* producer: row, S3 object, SQS message), POST /candidates/ (synchronous  *)
(* JSON create) and the worker that consumes the queue (app/worker.py,     *)
(* candidate_service.process_pending_candidate, _index_candidate).         *)
(*                                                                         *)
(* Every step is one effect another process can observe: a database        *)
(* commit, an S3 put, a send, receive or delete on the queue, a Pinecone   *)
(* upsert, a DynamoDB update.  Between two steps any other process may     *)
(* run, fail or crash.                                                     *)
(*                                                                         *)
(* `faults` counts what went wrong around the worker (an unavailable       *)
(* service, a crash, work slower than the visibility timeout).  It is a    *)
(* history variable: MaxFaults bounds it, and properties relate it to what *)
(* became of the message.                                                  *)
(***************************************************************************)
EXTENDS ResumeQueue, FiniteSets

CONSTANTS Workers,      \* processes running app/worker.py
          BatchSize,    \* MaxNumberOfMessages of a receive request (5)
          MaxFaults,    \* bound on faults
          NoJob         \* job of a worker that is processing no message

ASSUME IngestionAssumption ==
  /\ BatchSize \in Nat \ {0}
  /\ MaxFaults \in Nat
  /\ NoJob \notin Deliveries \cup Candidates

VARIABLES
  request,    \* request[c]: progress of the HTTP handler that creates c
  resume,     \* resume[c]: what the uploaded file will do to the parser
  status,     \* candidates.status; "absent" when there is no committed row
  linked,     \* candidates whose committed row has a pinecone_id
  stored,     \* candidates whose PDF is in the S3 bucket
  index,      \* candidates with a vector in Pinecone
  reported,   \* candidates marked ai-processed in DynamoDB
  pc,         \* pc[w]: where worker w is
  job,        \* job[w]: the delivery w is processing
  batch,      \* batch[w]: deliveries of the same receive call still to do
  faults

apiVars    == <<request, resume>>
rowVars    == <<status, linked>>
workerVars == <<pc, job, batch>>
vars == <<queueVars, apiVars, rowVars, stored, index, reported, workerVars, faults>>

(***************************************************************************)
(* The kinds of file, by what parse_resume_pdf does with them: `good` has  *)
(* text the LLM can read; `blank` has no extractable text (ValueError,     *)
(* hence ResumeContentError); `corrupt` makes pypdf raise an exception     *)
(* that is no ValueError (hence ResumeParserUnavailableError).             *)
(***************************************************************************)
Resumes  == {"good", "blank", "corrupt"}
Verdicts == {"processed", "failed"}
Rows     == {c \in Candidates : status[c] # "absent"}

UploadPhases == {"row", "file", "sent", "accepted"}
CreatePhases == {"flushed", "upserted", "committed", "created"}
Working      == {"parse", "index", "commit", "mark", "delete", "drop"}

TypeOK ==
  /\ QueueTypeOK
  /\ request \in [Candidates -> {"none", "error"} \cup UploadPhases \cup CreatePhases]
  /\ resume  \in [Candidates -> {"none", "json"} \cup Resumes]
  /\ status  \in [Candidates -> {"absent", "pending", "processing"} \cup Verdicts]
  /\ linked   \subseteq Candidates
  /\ stored   \subseteq Candidates
  /\ index    \subseteq Candidates
  /\ reported \subseteq Candidates
  /\ pc    \in [Workers -> {"down", "idle"} \cup Working]
  /\ job   \in [Workers -> Deliveries \cup {NoJob}]
  /\ batch \in [Workers -> SUBSET Deliveries]
  /\ faults \in 0..MaxFaults

Init ==
  /\ QueueInit
  /\ request = [c \in Candidates |-> "none"]
  /\ resume  = [c \in Candidates |-> "none"]
  /\ status  = [c \in Candidates |-> "absent"]
  /\ linked = {} /\ stored = {} /\ index = {} /\ reported = {}
  /\ pc    = [w \in Workers |-> "idle"]
  /\ job   = [w \in Workers |-> NoJob]
  /\ batch = [w \in Workers |-> {}]
  /\ faults = 0

(***************************************************************************)
(* The upload handler: candidates.upload_resume, enqueue_resume_upload,    *)
(* upload_resume_and_enqueue.  The row is committed before the file is put *)
(* and the file before the message is sent.                                *)
(***************************************************************************)
Upload(c) ==
  /\ request[c] = "none"
  /\ request' = [request EXCEPT ![c] = "row"]
  /\ \E r \in Resumes : resume' = [resume EXCEPT ![c] = r]
  /\ status' = [status EXCEPT ![c] = "pending"]
  /\ UNCHANGED <<queueVars, linked, stored, index, reported, workerVars, faults>>

PutFile(c) ==
  /\ request[c] = "row"
  /\ request' = [request EXCEPT ![c] = "file"]
  /\ stored' = stored \cup {c}
  /\ UNCHANGED <<queueVars, resume, rowVars, index, reported, workerVars, faults>>

\* A message sent before the file is stored.
SendBeforePut(c) ==
  /\ request[c] = "row"
  /\ request' = [request EXCEPT ![c] = "sent"]
  /\ Send(c)
  /\ UNCHANGED <<resume, rowVars, stored, index, reported, workerVars, faults>>

SendMessage(c) ==
  /\ request[c] = "file"
  /\ request' = [request EXCEPT ![c] = "sent"]
  /\ Send(c)
  /\ UNCHANGED <<resume, rowVars, stored, index, reported, workerVars, faults>>

(***************************************************************************)
(* The JSON create handler: candidates.create_candidate.  The flushed row  *)
(* is visible to nobody before the commit, which follows the upsert.       *)
(***************************************************************************)
Create(c) ==
  /\ request[c] = "none"
  /\ request' = [request EXCEPT ![c] = "flushed"]
  /\ resume' = [resume EXCEPT ![c] = "json"]
  /\ UNCHANGED <<queueVars, rowVars, stored, index, reported, workerVars, faults>>

UpsertCreated(c) ==
  /\ request[c] = "flushed"
  /\ request' = [request EXCEPT ![c] = "upserted"]
  /\ index' = index \cup {c}
  /\ UNCHANGED <<queueVars, resume, rowVars, stored, reported, workerVars, faults>>

CommitCreated(c) ==
  /\ request[c] = "upserted"
  /\ request' = [request EXCEPT ![c] = "committed"]
  /\ status' = [status EXCEPT ![c] = "processed"]
  /\ linked' = linked \cup {c}
  /\ UNCHANGED <<queueVars, resume, stored, index, reported, workerVars, faults>>

\* Either handler answers 202 or 201 ...
Answer(c) ==
  /\ request[c] \in {"sent", "committed"}
  /\ request' = [request EXCEPT ![c] = IF @ = "sent" THEN "accepted" ELSE "created"]
  /\ UNCHANGED <<queueVars, resume, rowVars, stored, index, reported, workerVars, faults>>

\* ... or an exception (an unavailable service, a lost reply, the end of the API
\* process) ends it where it is.  A flushed row is rolled back; what has been
\* committed, put, upserted or sent stays.
RequestFails(c) ==
  /\ request[c] \in {"row", "file", "sent", "flushed", "upserted", "committed"}
  /\ request' = [request EXCEPT ![c] = "error"]
  /\ UNCHANGED <<queueVars, resume, rowVars, stored, index, reported, workerVars, faults>>

(***************************************************************************)
(* The worker.                                                             *)
(***************************************************************************)
Fault == faults < MaxFaults /\ faults' = faults + 1

\* The message loop is done with the current message.
NextMessage(w) ==
  /\ pc'  = [pc EXCEPT ![w] = "idle"]
  /\ job' = [job EXCEPT ![w] = NoJob]

Goto(w, label) ==
  /\ pc' = [pc EXCEPT ![w] = label]
  /\ UNCHANGED job

Poll(w) ==
  /\ pc[w] = "idle" /\ batch[w] = {}
  /\ \E S \in SUBSET Visible :
       /\ S # {} /\ Cardinality(S) <= BatchSize
       /\ batch' = [batch EXCEPT ![w] = Delivered(S)]
       /\ Receive(S)
  /\ UNCHANGED <<apiVars, rowVars, stored, index, reported, pc, job, faults>>

\* _process_message downloads the file, process_pending_candidate finds the row
\* and marks it `processing`, whatever its status was.
Found(c) == c \in stored /\ c \in Rows

\* An attempt that does not commit `processing`.
StartQuietly(w, d) ==
  /\ pc[w] = "idle" /\ d \in batch[w]
  /\ Found(d.cand)
  /\ batch' = [batch EXCEPT ![w] = @ \ {d}]
  /\ job' = [job EXCEPT ![w] = d]
  /\ pc' = [pc EXCEPT ![w] = "parse"]
  /\ UNCHANGED <<queueVars, apiVars, rowVars, stored, index, reported, faults>>

\* process_candidate commits the placeholder's columns again before it parses.
StartAfresh(w, d) ==
  /\ pc[w] = "idle" /\ d \in batch[w]
  /\ Found(d.cand)
  /\ batch' = [batch EXCEPT ![w] = @ \ {d}]
  /\ job' = [job EXCEPT ![w] = d]
  /\ pc' = [pc EXCEPT ![w] = "parse"]
  /\ status' = [status EXCEPT ![d.cand] = "processing"]
  /\ linked' = linked \ {d.cand}
  /\ UNCHANGED <<queueVars, apiVars, stored, index, reported, faults>>

Start(w, d) ==
  /\ pc[w] = "idle" /\ d \in batch[w]
  /\ Found(d.cand)
  /\ batch' = [batch EXCEPT ![w] = @ \ {d}]
  /\ job' = [job EXCEPT ![w] = d]
  /\ pc' = [pc EXCEPT ![w] = "parse"]
  /\ status' = [status EXCEPT ![d.cand] = "processing"]
  /\ UNCHANGED <<queueVars, apiVars, linked, stored, index, reported, faults>>

\* An exception before that commit: the message is left on the queue.
Skip(w, d) ==
  /\ pc[w] = "idle" /\ d \in batch[w]
  /\ IF Found(d.cand) THEN Fault ELSE UNCHANGED faults
  /\ batch' = [batch EXCEPT ![w] = @ \ {d}]
  /\ UNCHANGED <<queueVars, apiVars, rowVars, stored, index, reported, pc, job>>

Parse(w) ==
  /\ pc[w] = "parse"
  /\ resume[job[w].cand] = "good"
  /\ Goto(w, "index")
  /\ UNCHANGED <<queueVars, apiVars, rowVars, stored, index, reported, batch, faults>>

\* A rejection that does not raise, so that _mark_status runs.
RejectContentReported(w) ==
  /\ pc[w] = "parse"
  /\ resume[job[w].cand] = "blank"
  /\ status' = [status EXCEPT ![job[w].cand] = "failed"]
  /\ Goto(w, "mark")
  /\ UNCHANGED <<queueVars, apiVars, linked, stored, index, reported, batch, faults>>

\* `except ValueError`: a blank file always; a good one when the LLM's answer
\* does not fit ParsedResume (pydantic's ValidationError and LangChain's
\* OutputParserException are ValueErrors).
RejectContent(w) ==
  /\ pc[w] = "parse"
  /\ \/ resume[job[w].cand] = "blank" /\ UNCHANGED faults
     \/ resume[job[w].cand] = "good" /\ Fault
  /\ status' = [status EXCEPT ![job[w].cand] = "failed"]
  /\ Goto(w, "drop")
  /\ UNCHANGED <<queueVars, apiVars, linked, stored, index, reported, batch>>

\* A failure of the parser that is retried in a loop, at the same delivery.
ParserRetriedInPlace(w) ==
  /\ pc[w] = "parse"
  /\ resume[job[w].cand] = "corrupt"
  /\ UNCHANGED vars

\* `except Exception`: pypdf cannot read the file.  The status stays `processing`
\* and the message stays on the queue.
ParserUnavailable(w) ==
  /\ pc[w] = "parse"
  /\ resume[job[w].cand] = "corrupt"
  /\ NextMessage(w)
  /\ UNCHANGED <<queueVars, apiVars, rowVars, stored, index, reported, batch, faults>>

\* A parsed resume that is committed without its vector.
UpsertSkipped(w) ==
  /\ pc[w] = "index"
  /\ Goto(w, "commit")
  /\ UNCHANGED <<queueVars, apiVars, rowVars, stored, index, reported, batch, faults>>

Upsert(w) ==
  /\ pc[w] = "index"
  /\ index' = index \cup {job[w].cand}
  /\ Goto(w, "commit")
  /\ UNCHANGED <<queueVars, apiVars, rowVars, stored, reported, batch, faults>>

\* The one commit that writes the parsed fields, the pinecone_id and `processed`.
CommitIndexed(w) ==
  /\ pc[w] = "commit"
  /\ status' = [status EXCEPT ![job[w].cand] = "processed"]
  /\ linked' = linked \cup {job[w].cand}
  /\ Goto(w, "mark")
  /\ UNCHANGED <<queueVars, apiVars, stored, index, reported, batch, faults>>

MarkStatus(w) ==
  /\ pc[w] = "mark"
  /\ reported' = reported \cup {job[w].cand}
  /\ Goto(w, "delete")
  /\ UNCHANGED <<queueVars, apiVars, rowVars, stored, index, batch, faults>>

DeleteMessage(w) ==
  /\ pc[w] \in {"delete", "drop"}
  /\ Delete(job[w])
  /\ NextMessage(w)
  /\ UNCHANGED <<apiVars, rowVars, stored, index, reported, batch, faults>>

\* A failure that is swallowed in _process_message, so that _mark_status runs.
AbandonSwallowed(w) ==
  /\ pc[w] \in {"parse", "index", "commit", "mark", "delete"}
  /\ Fault
  /\ Goto(w, "mark")
  /\ UNCHANGED <<queueVars, apiVars, rowVars, stored, index, reported, batch>>

\* A failure after which the message is deleted all the same.
AbandonDeleting(w) ==
  /\ pc[w] \in {"parse", "index", "commit", "mark", "delete"}
  /\ Fault
  /\ Delete(job[w])
  /\ NextMessage(w)
  /\ UNCHANGED <<apiVars, rowVars, stored, index, reported, batch>>

\* A dependency fails (Ollama, Pinecone, PostgreSQL, DynamoDB, SQS) or the reply
\* to a call that took effect is lost: run() logs it, leaves the message to the
\* visibility timeout and takes the next one.
Abandon(w) ==
  /\ pc[w] \in {"parse", "index", "commit", "mark", "delete"}
  /\ Fault
  /\ NextMessage(w)
  /\ UNCHANGED <<queueVars, apiVars, rowVars, stored, index, reported, batch>>

\* The process ends: killed, or by an exception nothing in run() catches
\* (receive_message, or delete_message inside `except ResumeContentError`).
Crash(w) ==
  /\ pc[w] # "down"
  /\ Fault
  /\ pc' = [pc EXCEPT ![w] = "down"]
  /\ job' = [job EXCEPT ![w] = NoJob]
  /\ batch' = [batch EXCEPT ![w] = {}]
  /\ UNCHANGED <<queueVars, apiVars, rowVars, stored, index, reported>>

Restart(w) ==
  /\ pc[w] = "down"
  /\ Goto(w, "idle")
  /\ UNCHANGED <<queueVars, apiVars, rowVars, stored, index, reported, batch, faults>>

(***************************************************************************)
(* The queue on its own.  A visibility timeout that runs out under a       *)
(* worker still busy with the delivery is a fault: the work took longer    *)
(* than 120 seconds, which the five messages of a batch share.             *)
(***************************************************************************)
LatestDelivery(c) == [cand |-> c, receipt |-> receives[c]]
Held(c) == \E w \in Workers : LatestDelivery(c) \in batch[w] \cup {job[w]}

VisibilityTimeout(c) ==
  /\ Reappear(c)
  /\ IF Held(c) THEN Fault ELSE UNCHANGED faults
  /\ UNCHANGED <<apiVars, rowVars, stored, index, reported, workerVars>>

\* A message nobody deletes in four days is a fault of its environment too.
Retention(c) ==
  /\ Expire(c)
  /\ Fault
  /\ UNCHANGED <<apiVars, rowVars, stored, index, reported, workerVars>>

\* Worker w has committed `processing` for candidate c and not yet a verdict.
Attempts(w, c) == pc[w] \in {"parse", "index", "commit"} /\ job[w].cand = c

(***************************************************************************)
(* The specification.                                                      *)
(***************************************************************************)
ApiStep(c) ==
  \/ Upload(c) \/ PutFile(c) \/ SendMessage(c)
  \/ Create(c) \/ UpsertCreated(c) \/ CommitCreated(c)
  \/ Answer(c) \/ RequestFails(c)

Progress(w) ==
  \/ Poll(w)
  \/ \E d \in batch[w] : Start(w, d)
  \/ Parse(w) \/ RejectContent(w) \/ ParserUnavailable(w)
  \/ Upsert(w) \/ CommitIndexed(w) \/ MarkStatus(w) \/ DeleteMessage(w)

Trouble(w) ==
  \/ \E d \in batch[w] : Skip(w, d)
  \/ Abandon(w) \/ Crash(w)

Next ==
  \/ \E c \in Candidates : ApiStep(c) \/ VisibilityTimeout(c) \/ Retention(c)
  \/ \E w \in Workers : Progress(w) \/ Trouble(w) \/ Restart(w)

Spec == Init /\ [][Next]_vars

Fairness ==
  /\ \A w \in Workers : WF_vars(Progress(w)) /\ WF_vars(Restart(w))
  /\ \A c \in Candidates : WF_vars(~Held(c) /\ VisibilityTimeout(c))

FairSpec == Spec /\ Fairness

(***************************************************************************)
(* Properties.                                                             *)
(***************************************************************************)

\* An upload answered with 202 has its message sent, and a message never names a
\* file or a row that is not there: the worker's get_object and get_by_id find
\* them, so neither NoSuchKey nor "Candidate not found" can poison a message.
UploadIsBacked ==
  \A c \in Candidates :
    /\ request[c] = "accepted" => queue[c] # "none"
    /\ queue[c] # "none" => Found(c)

\* A candidate shown as `processed` has a pinecone_id, and a row has a pinecone_id
\* only when its vector is in the index, whatever failed or was retried before:
\* screening can find it (README.md:393-395).  A vector no row names is that of a
\* create or an attempt between its upsert and its commit, or of one that failed there.
ProcessedIsSearchable ==
  /\ \A c \in Candidates : status[c] = "processed" => c \in linked
  /\ linked \subseteq index
  /\ \A c \in index \ linked :
       \/ request[c] \in {"upserted", "error"}
       \/ \E w \in Workers : pc[w] = "commit" /\ job[w].cand = c
       \/ faults >= 1

\* DynamoDB says ai-processed, which notifies the recruiter, only of a candidate
\* whose parsed fields and vector have been committed, although _mark_status runs
\* after the session is closed and retries may have changed the row in between.
ReportedIsLinked == reported \subseteq linked

\* Dead-lettering a message takes MaxReceiveCount failed deliveries, each with a
\* cause: a file pypdf can read is never given up, whatever the number of workers
\* and however deliveries overlap, unless that many things went wrong (sqs.tf:21-25).
DlqIsPaidFor ==
  \A c \in Candidates :
    (queue[c] = "dlq" /\ resume[c] # "corrupt") => faults >= MaxReceiveCount

\* With one worker, a message is deleted only when its candidate has a verdict
\* that no later delivery revises: `failed`, or `processed` and reported.
DeletedIsSettled ==
  \A c \in Candidates :
    queue[c] = "deleted" =>
      \/ status[c] = "failed"
      \/ status[c] = "processed" /\ c \in linked \cap reported

\* A message that has left the queue has left a verdict behind, or one attempt more
\* that will, or its loss is paid for.  To lose a deleted one takes two faults: the
\* visibility timeout under a busy worker, so that deliveries overlap, and the failure
\* of the attempt whose `processing` has replaced the verdict.  To lose it to the
\* dead-letter queue takes one for every delivery, unless pypdf cannot read the file.
LossCosts(c) ==
  CASE queue[c] = "deleted" -> 2
    [] queue[c] = "dlq"     -> IF resume[c] = "corrupt" THEN 0 ELSE MaxReceiveCount
    [] OTHER                -> 1

LostVerdictIsPaidFor ==
  \A c \in Candidates :
    (queue[c] \in Ended /\ ~ \E w \in Workers : Attempts(w, c)) =>
      status[c] \in Verdicts \/ faults >= LossCosts(c)

\* Nor does one fault alone make the stores disagree about a candidate: reported as
\* ai-processed and linked to a vector, but shown as `failed`.
DisputedVerdictIsPaidFor ==
  \A c \in reported : status[c] = "failed" => faults >= 2

\* candidate_service.py:69-70: a ValueError is a "Permanent failure - the file
\* itself is bad".
FailedMeansBadFile ==
  \A c \in Candidates : status[c] = "failed" => resume[c] # "good"

\* Every message that is sent leaves the queue: it is deleted, dead-lettered or,
\* at worst, expires.  No crash, overlap of deliveries or lost reply makes the
\* workers retry it for ever.
EveryMessageEnds ==
  \A c \in Candidates : queue[c] \in Live ~> queue[c] \in Ended

\* With one worker and fewer faults than deliveries, an accepted upload pypdf can
\* read reaches a verdict for good, and its message is deleted.
LegibleResumeSettles ==
  \A c \in Candidates :
    (request[c] = "accepted" /\ resume[c] # "corrupt") ~>
      [](queue[c] = "expired" \/ (queue[c] = "deleted" /\ status[c] \in Verdicts))

\* README.md:91-93: a client "watches `status` to know when it's done".
AcceptedReachesVerdict ==
  \A c \in Candidates : request[c] = "accepted" ~> status[c] \in Verdicts
=============================================================================
