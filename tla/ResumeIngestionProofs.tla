------------------------ MODULE ResumeIngestionProofs ------------------------
(***************************************************************************)
(* Proofs about ResumeIngestion, for any candidates, workers, batch size,  *)
(* maxReceiveCount and number of faults.                                   *)
(*                                                                         *)
(* None of the safety properties is inductive.  IInv adds what the handler *)
(* and the worker know at each label: how far the upload has got           *)
(* (UploadInv), that a worker past `idle` works on a delivery of a         *)
(* committed row (WorkerInv), what it has made durable (IndexInv), and     *)
(* that every receive but the one in progress has been paid for by a fault *)
(* (ReceiveInv).                                                           *)
(***************************************************************************)
EXTENDS LifecycleRefinement, TLAPS

WorkerInv ==
  \A w \in Workers :
    /\ pc[w] \in Working => job[w] \in Deliveries /\ status[job[w].cand] # "absent"
    /\ pc[w] \notin Working => job[w] = NoJob

UploadInv ==
  \A c \in Candidates :
    /\ request[c] \in {"none", "flushed", "upserted"} => status[c] = "absent" /\ queue[c] = "none"
    /\ request[c] \in {"row", "file"} => status[c] # "absent" /\ queue[c] = "none"
    /\ request[c] = "file" => c \in stored
    /\ request[c] \in {"sent", "accepted"} => queue[c] # "none"
    /\ queue[c] # "none" => Found(c)

IndexInv ==
  /\ ProcessedIsSearchable
  /\ ReportedIsLinked
  /\ \A c \in Candidates : request[c] = "upserted" => c \in index
  /\ \A w \in Workers :
       /\ pc[w] = "commit" => job[w].cand \in index
       /\ pc[w] \in {"mark", "delete"} => job[w].cand \in linked

ReceiveInv ==
  \A c \in Candidates :
    /\ queue[c] = "none" => receives[c] = 0
    /\ queue[c] = "dlq"  => receives[c] = MaxReceiveCount
    /\ queue[c] = "expired" => faults >= 1
    /\ resume[c] # "corrupt" =>
         /\ queue[c] \in {"visible", "dlq"} => receives[c] <= faults
         /\ queue[c] = "inflight" => receives[c] <= IF Held(c) THEN faults + 1 ELSE faults

IInv == TypeOK /\ WorkerInv /\ UploadInv /\ IndexInv /\ ReceiveInv

\* For one worker: what a deleted message and the worker's next steps rest on.
OneWorker == \A v, w \in Workers : v = w

SettledInv ==
  /\ DeletedIsSettled
  /\ \A w \in Workers :
       /\ pc[w] = "drop" => status[job[w].cand] = "failed"
       /\ pc[w] \in {"mark", "delete"} => status[job[w].cand] = "processed"
       /\ pc[w] = "delete" => job[w].cand \in reported
       /\ \A d \in batch[w] : queue[d.cand] \notin {"none", "deleted"}
       /\ \A d, e \in batch[w] : d.cand = e.cand => d = e
       /\ pc[w] \in Working =>
            /\ queue[job[w].cand] \notin {"none", "deleted"}
            /\ \A d \in batch[w] : d.cand # job[w].cand

\* For any number of workers, what overlapping deliveries rest on.  A delivery is
\* with one worker.  One that is not the latest, or whose message is no longer in
\* flight, is with a worker whose visibility timeout has run out.
Holds(w, d) == d \in batch[w] \cup {job[w]}

OverlapInv ==
  /\ \A w \in Workers : job[w] \notin batch[w]
  /\ \A v, w \in Workers : \A d \in Deliveries : Holds(v, d) /\ Holds(w, d) => v = w
  /\ \A w \in Workers : \A d \in Deliveries :
       Holds(w, d) =>
         /\ d.receipt <= receives[d.cand]
         /\ queue[d.cand] # "none"
         /\ (d.receipt # receives[d.cand] \/ queue[d.cand] # "inflight") => faults >= 1

\* A candidate with a verdict keeps one until an overlapping attempt begins.
Settled(c) ==
  \/ status[c] \in Verdicts
  \/ faults >= 1 /\ \E w \in Workers : Attempts(w, c)
  \/ faults >= 2

VerdictInv ==
  /\ \A w \in Workers :
       /\ pc[w] \in Working \ {"parse"} => resume[job[w].cand] # "corrupt"
       /\ pc[w] \in {"mark", "delete", "drop"} => Settled(job[w].cand)
  /\ \A c \in Candidates :
       queue[c] = "deleted" => resume[c] # "corrupt" /\ Settled(c)

\* Once a worker has linked a candidate, whoever else works on it does so because
\* something failed.
DisputeInv ==
  /\ \A w \in Workers :
       pc[w] \in {"index", "commit", "mark", "delete"} => resume[job[w].cand] = "good"
  /\ \A c \in Candidates :
       /\ request[c] = "none" => resume[c] = "none"
       /\ request[c] \in {"flushed", "upserted"} => resume[c] = "json"
       /\ c \in reported => resume[c] = "good"
       /\ c \in linked => resume[c] = "json" \/ (resume[c] = "good" /\ receives[c] >= 1)
       /\ c \in linked /\ resume[c] = "good" /\ status[c] = "failed" => faults >= 2
       /\ c \in linked /\ resume[c] = "good" =>
            \A w \in Workers : \A d \in Deliveries :
              (Holds(w, d) /\ d.cand = c) =>
                faults >= 1 \/ (d = job[w] /\ pc[w] \in {"mark", "delete"})

(***************************************************************************)
(* One step of the system preserves each part of the invariant.            *)
(***************************************************************************)

\* Every step keeps the variables in their types: a delivery never carries a
\* receipt above maxReceiveCount and faults never pass their bound.
LEMMA TypeStep ==
  ASSUME TypeOK, WorkerInv, [Next]_vars
  PROVE  TypeOK'
<1> USE IngestionAssumption, MaxReceiveCountAssumption DEF TypeOK,
          QueueTypeOK, queueVars, apiVars, rowVars, workerVars, Deliveries,
          Working, Live, Found, Rows, WorkerInv, Ended, Verdicts, Resumes,
          UploadPhases, CreatePhases
<1>1. ASSUME NEW c \in Candidates, Upload(c) PROVE TypeOK'
  BY <1>1 DEF Upload
<1>2. ASSUME NEW c \in Candidates, PutFile(c) PROVE TypeOK'
  BY <1>2 DEF PutFile
<1>3. ASSUME NEW c \in Candidates, SendMessage(c) PROVE TypeOK'
  BY <1>3 DEF SendMessage, Send
<1>4. ASSUME NEW c \in Candidates, Create(c) PROVE TypeOK'
  BY <1>4 DEF Create
<1>5. ASSUME NEW c \in Candidates, UpsertCreated(c) PROVE TypeOK'
  BY <1>5 DEF UpsertCreated
<1>6. ASSUME NEW c \in Candidates, CommitCreated(c) PROVE TypeOK'
  BY <1>6 DEF CommitCreated
<1>7. ASSUME NEW c \in Candidates, Answer(c) PROVE TypeOK'
  BY <1>7 DEF Answer
<1>8. ASSUME NEW c \in Candidates, RequestFails(c) PROVE TypeOK'
  BY <1>8 DEF RequestFails
<1>9. ASSUME NEW c \in Candidates, VisibilityTimeout(c) PROVE TypeOK'
  BY <1>9 DEF VisibilityTimeout, Reappear, Fault
<1>10. ASSUME NEW c \in Candidates, Retention(c) PROVE TypeOK'
  BY <1>10 DEF Retention, Expire, Fault
<1>11. ASSUME NEW w \in Workers, Poll(w) PROVE TypeOK'
  BY <1>11 DEF Poll, Receive, Visible, Delivered, Deliverable
<1>12. ASSUME NEW w \in Workers, Parse(w) PROVE TypeOK'
  BY <1>12 DEF Parse, Goto
<1>13. ASSUME NEW w \in Workers, RejectContent(w) PROVE TypeOK'
  BY <1>13 DEF RejectContent, Goto, Fault
<1>14. ASSUME NEW w \in Workers, ParserUnavailable(w) PROVE TypeOK'
  BY <1>14 DEF ParserUnavailable, NextMessage
<1>15. ASSUME NEW w \in Workers, Upsert(w) PROVE TypeOK'
  BY <1>15 DEF Upsert, Goto
<1>16. ASSUME NEW w \in Workers, CommitIndexed(w) PROVE TypeOK'
  BY <1>16 DEF CommitIndexed, Goto
<1>17. ASSUME NEW w \in Workers, MarkStatus(w) PROVE TypeOK'
  BY <1>17 DEF MarkStatus, Goto
<1>18. ASSUME NEW w \in Workers, DeleteMessage(w) PROVE TypeOK'
  BY <1>18 DEF DeleteMessage, Delete, Removes, NextMessage
<1>19. ASSUME NEW w \in Workers, Abandon(w) PROVE TypeOK'
  BY <1>19 DEF Abandon, NextMessage, Fault
<1>20. ASSUME NEW w \in Workers, Crash(w) PROVE TypeOK'
  BY <1>20 DEF Crash, Fault
<1>21. ASSUME NEW w \in Workers, Restart(w) PROVE TypeOK'
  BY <1>21 DEF Restart, Goto
<1>22. ASSUME NEW w \in Workers, NEW d \in batch[w], Start(w, d) PROVE TypeOK'
  BY <1>22 DEF Start
<1>23. ASSUME NEW w \in Workers, NEW d \in batch[w], Skip(w, d) PROVE TypeOK'
  BY <1>23 DEF Skip, Fault
<1>24. CASE UNCHANGED vars
  BY <1>24 DEF vars
<1>25. QED
  BY <1>1, <1>2, <1>3, <1>4, <1>5, <1>6, <1>7, <1>8, <1>9, <1>10, <1>11,
     <1>12, <1>13, <1>14, <1>15, <1>16, <1>17, <1>18, <1>19, <1>20, <1>21,
     <1>22, <1>23, <1>24
  DEF Next, ApiStep, Progress, Trouble

\* A worker past `idle` has a delivery of a committed row, because Start finds
\* the row and no step removes one.
LEMMA WorkerStep ==
  ASSUME TypeOK, WorkerInv, UploadInv, [Next]_vars
  PROVE  WorkerInv'
<1> USE IngestionAssumption, MaxReceiveCountAssumption DEF TypeOK,
          QueueTypeOK, queueVars, apiVars, rowVars, workerVars, Deliveries,
          Working, Live, Found, Rows, WorkerInv, UploadInv
<1>1. ASSUME NEW c \in Candidates, Upload(c) PROVE WorkerInv'
  BY <1>1 DEF Upload
<1>2. ASSUME NEW c \in Candidates, PutFile(c) PROVE WorkerInv'
  BY <1>2 DEF PutFile
<1>3. ASSUME NEW c \in Candidates, SendMessage(c) PROVE WorkerInv'
  BY <1>3 DEF SendMessage, Send
<1>4. ASSUME NEW c \in Candidates, Create(c) PROVE WorkerInv'
  BY <1>4 DEF Create
<1>5. ASSUME NEW c \in Candidates, UpsertCreated(c) PROVE WorkerInv'
  BY <1>5 DEF UpsertCreated
<1>6. ASSUME NEW c \in Candidates, CommitCreated(c) PROVE WorkerInv'
  BY <1>6 DEF CommitCreated
<1>7. ASSUME NEW c \in Candidates, Answer(c) PROVE WorkerInv'
  BY <1>7 DEF Answer
<1>8. ASSUME NEW c \in Candidates, RequestFails(c) PROVE WorkerInv'
  BY <1>8 DEF RequestFails
<1>9. ASSUME NEW c \in Candidates, VisibilityTimeout(c) PROVE WorkerInv'
  BY <1>9 DEF VisibilityTimeout, Reappear, Fault
<1>10. ASSUME NEW c \in Candidates, Retention(c) PROVE WorkerInv'
  BY <1>10 DEF Retention, Expire, Fault
<1>11. ASSUME NEW w \in Workers, Poll(w) PROVE WorkerInv'
  BY <1>11 DEF Poll, Receive, Visible, Delivered, Deliverable
<1>12. ASSUME NEW w \in Workers, Parse(w) PROVE WorkerInv'
  BY <1>12 DEF Parse, Goto
<1>13. ASSUME NEW w \in Workers, RejectContent(w) PROVE WorkerInv'
  BY <1>13 DEF RejectContent, Goto, Fault
<1>14. ASSUME NEW w \in Workers, ParserUnavailable(w) PROVE WorkerInv'
  BY <1>14 DEF ParserUnavailable, NextMessage
<1>15. ASSUME NEW w \in Workers, Upsert(w) PROVE WorkerInv'
  BY <1>15 DEF Upsert, Goto
<1>16. ASSUME NEW w \in Workers, CommitIndexed(w) PROVE WorkerInv'
  BY <1>16 DEF CommitIndexed, Goto
<1>17. ASSUME NEW w \in Workers, MarkStatus(w) PROVE WorkerInv'
  BY <1>17 DEF MarkStatus, Goto
<1>18. ASSUME NEW w \in Workers, DeleteMessage(w) PROVE WorkerInv'
  BY <1>18 DEF DeleteMessage, Delete, Removes, NextMessage
<1>19. ASSUME NEW w \in Workers, Abandon(w) PROVE WorkerInv'
  BY <1>19 DEF Abandon, NextMessage, Fault
<1>20. ASSUME NEW w \in Workers, Crash(w) PROVE WorkerInv'
  BY <1>20 DEF Crash, Fault
<1>21. ASSUME NEW w \in Workers, Restart(w) PROVE WorkerInv'
  BY <1>21 DEF Restart, Goto
<1>22. ASSUME NEW w \in Workers, NEW d \in batch[w], Start(w, d) PROVE WorkerInv'
  BY <1>22 DEF Start
<1>23. ASSUME NEW w \in Workers, NEW d \in batch[w], Skip(w, d) PROVE WorkerInv'
  BY <1>23 DEF Skip, Fault
<1>24. CASE UNCHANGED vars
  BY <1>24 DEF vars
<1>25. QED
  BY <1>1, <1>2, <1>3, <1>4, <1>5, <1>6, <1>7, <1>8, <1>9, <1>10, <1>11,
     <1>12, <1>13, <1>14, <1>15, <1>16, <1>17, <1>18, <1>19, <1>20, <1>21,
     <1>22, <1>23, <1>24
  DEF Next, ApiStep, Progress, Trouble

\* The upload handler's order - row, file, message - is what a message relies on.
LEMMA UploadStep ==
  ASSUME TypeOK, WorkerInv, UploadInv, [Next]_vars
  PROVE  UploadInv'
<1> USE IngestionAssumption, MaxReceiveCountAssumption DEF TypeOK,
          QueueTypeOK, queueVars, apiVars, rowVars, workerVars, Deliveries,
          Working, Live, Found, Rows, WorkerInv, UploadInv
<1>1. ASSUME NEW c \in Candidates, Upload(c) PROVE UploadInv'
  BY <1>1 DEF Upload
<1>2. ASSUME NEW c \in Candidates, PutFile(c) PROVE UploadInv'
  BY <1>2 DEF PutFile
<1>3. ASSUME NEW c \in Candidates, SendMessage(c) PROVE UploadInv'
  BY <1>3 DEF SendMessage, Send
<1>4. ASSUME NEW c \in Candidates, Create(c) PROVE UploadInv'
  BY <1>4 DEF Create
<1>5. ASSUME NEW c \in Candidates, UpsertCreated(c) PROVE UploadInv'
  BY <1>5 DEF UpsertCreated
<1>6. ASSUME NEW c \in Candidates, CommitCreated(c) PROVE UploadInv'
  BY <1>6 DEF CommitCreated
<1>7. ASSUME NEW c \in Candidates, Answer(c) PROVE UploadInv'
  BY <1>7 DEF Answer
<1>8. ASSUME NEW c \in Candidates, RequestFails(c) PROVE UploadInv'
  BY <1>8 DEF RequestFails
<1>9. ASSUME NEW c \in Candidates, VisibilityTimeout(c) PROVE UploadInv'
  BY <1>9 DEF VisibilityTimeout, Reappear, Fault
<1>10. ASSUME NEW c \in Candidates, Retention(c) PROVE UploadInv'
  BY <1>10 DEF Retention, Expire, Fault
<1>11. ASSUME NEW w \in Workers, Poll(w) PROVE UploadInv'
  BY <1>11 DEF Poll, Receive, Visible, Delivered, Deliverable
<1>12. ASSUME NEW w \in Workers, Parse(w) PROVE UploadInv'
  BY <1>12 DEF Parse, Goto
<1>13. ASSUME NEW w \in Workers, RejectContent(w) PROVE UploadInv'
  BY <1>13 DEF RejectContent, Goto, Fault
<1>14. ASSUME NEW w \in Workers, ParserUnavailable(w) PROVE UploadInv'
  BY <1>14 DEF ParserUnavailable, NextMessage
<1>15. ASSUME NEW w \in Workers, Upsert(w) PROVE UploadInv'
  BY <1>15 DEF Upsert, Goto
<1>16. ASSUME NEW w \in Workers, CommitIndexed(w) PROVE UploadInv'
  BY <1>16 DEF CommitIndexed, Goto
<1>17. ASSUME NEW w \in Workers, MarkStatus(w) PROVE UploadInv'
  BY <1>17 DEF MarkStatus, Goto
<1>18. ASSUME NEW w \in Workers, DeleteMessage(w) PROVE UploadInv'
  BY <1>18 DEF DeleteMessage, Delete, Removes, NextMessage
<1>19. ASSUME NEW w \in Workers, Abandon(w) PROVE UploadInv'
  BY <1>19 DEF Abandon, NextMessage, Fault
<1>20. ASSUME NEW w \in Workers, Crash(w) PROVE UploadInv'
  BY <1>20 DEF Crash, Fault
<1>21. ASSUME NEW w \in Workers, Restart(w) PROVE UploadInv'
  BY <1>21 DEF Restart, Goto
<1>22. ASSUME NEW w \in Workers, NEW d \in batch[w], Start(w, d) PROVE UploadInv'
  BY <1>22 DEF Start
<1>23. ASSUME NEW w \in Workers, NEW d \in batch[w], Skip(w, d) PROVE UploadInv'
  BY <1>23 DEF Skip, Fault
<1>24. CASE UNCHANGED vars
  BY <1>24 DEF vars
<1>25. QED
  BY <1>1, <1>2, <1>3, <1>4, <1>5, <1>6, <1>7, <1>8, <1>9, <1>10, <1>11,
     <1>12, <1>13, <1>14, <1>15, <1>16, <1>17, <1>18, <1>19, <1>20, <1>21,
     <1>22, <1>23, <1>24
  DEF Next, ApiStep, Progress, Trouble

\* The vector is upserted before the commit that links it, and the commit comes
\* before the DynamoDB update, in both the worker and the JSON create.
LEMMA IndexStep ==
  ASSUME TypeOK, WorkerInv, UploadInv, IndexInv, [Next]_vars
  PROVE  IndexInv'
<1> USE IngestionAssumption, MaxReceiveCountAssumption DEF TypeOK,
          QueueTypeOK, queueVars, apiVars, rowVars, workerVars, Deliveries,
          Working, Live, Found, Rows, WorkerInv, UploadInv, IndexInv,
          ProcessedIsSearchable, ReportedIsLinked
<1>1. ASSUME NEW c \in Candidates, Upload(c) PROVE IndexInv'
  BY <1>1 DEF Upload
<1>2. ASSUME NEW c \in Candidates, PutFile(c) PROVE IndexInv'
  BY <1>2 DEF PutFile
<1>3. ASSUME NEW c \in Candidates, SendMessage(c) PROVE IndexInv'
  BY <1>3 DEF SendMessage, Send
<1>4. ASSUME NEW c \in Candidates, Create(c) PROVE IndexInv'
  BY <1>4 DEF Create
<1>5. ASSUME NEW c \in Candidates, UpsertCreated(c) PROVE IndexInv'
  BY <1>5 DEF UpsertCreated
<1>6. ASSUME NEW c \in Candidates, CommitCreated(c) PROVE IndexInv'
  BY <1>6 DEF CommitCreated
<1>7. ASSUME NEW c \in Candidates, Answer(c) PROVE IndexInv'
  BY <1>7 DEF Answer
<1>8. ASSUME NEW c \in Candidates, RequestFails(c) PROVE IndexInv'
  BY <1>8 DEF RequestFails
<1>9. ASSUME NEW c \in Candidates, VisibilityTimeout(c) PROVE IndexInv'
  BY <1>9 DEF VisibilityTimeout, Reappear, Fault
<1>10. ASSUME NEW c \in Candidates, Retention(c) PROVE IndexInv'
  BY <1>10 DEF Retention, Expire, Fault
<1>11. ASSUME NEW w \in Workers, Poll(w) PROVE IndexInv'
  BY <1>11 DEF Poll, Receive, Visible, Delivered, Deliverable
<1>12. ASSUME NEW w \in Workers, Parse(w) PROVE IndexInv'
  BY <1>12 DEF Parse, Goto
<1>13. ASSUME NEW w \in Workers, RejectContent(w) PROVE IndexInv'
  BY <1>13 DEF RejectContent, Goto, Fault
<1>14. ASSUME NEW w \in Workers, ParserUnavailable(w) PROVE IndexInv'
  BY <1>14 DEF ParserUnavailable, NextMessage
<1>15. ASSUME NEW w \in Workers, Upsert(w) PROVE IndexInv'
  BY <1>15 DEF Upsert, Goto
<1>16. ASSUME NEW w \in Workers, CommitIndexed(w) PROVE IndexInv'
  BY <1>16 DEF CommitIndexed, Goto
<1>17. ASSUME NEW w \in Workers, MarkStatus(w) PROVE IndexInv'
  BY <1>17 DEF MarkStatus, Goto
<1>18. ASSUME NEW w \in Workers, DeleteMessage(w) PROVE IndexInv'
  BY <1>18 DEF DeleteMessage, Delete, Removes, NextMessage
<1>19. ASSUME NEW w \in Workers, Abandon(w) PROVE IndexInv'
  BY <1>19 DEF Abandon, NextMessage, Fault
<1>20. ASSUME NEW w \in Workers, Crash(w) PROVE IndexInv'
  BY <1>20 DEF Crash, Fault
<1>21. ASSUME NEW w \in Workers, Restart(w) PROVE IndexInv'
  BY <1>21 DEF Restart, Goto
<1>22. ASSUME NEW w \in Workers, NEW d \in batch[w], Start(w, d) PROVE IndexInv'
  BY <1>22 DEF Start
<1>23. ASSUME NEW w \in Workers, NEW d \in batch[w], Skip(w, d) PROVE IndexInv'
  BY <1>23 DEF Skip, Fault
<1>24. CASE UNCHANGED vars
  BY <1>24 DEF vars
<1>25. QED
  BY <1>1, <1>2, <1>3, <1>4, <1>5, <1>6, <1>7, <1>8, <1>9, <1>10, <1>11,
     <1>12, <1>13, <1>14, <1>15, <1>16, <1>17, <1>18, <1>19, <1>20, <1>21,
     <1>22, <1>23, <1>24
  DEF Next, ApiStep, Progress, Trouble

\* Every delivery of a readable file but the latest, while a worker still holds
\* it, has cost a fault.
LEMMA ReceiveStep ==
  ASSUME TypeOK, WorkerInv, UploadInv, ReceiveInv, [Next]_vars
  PROVE  ReceiveInv'
<1> USE IngestionAssumption, MaxReceiveCountAssumption DEF TypeOK,
          QueueTypeOK, queueVars, apiVars, rowVars, workerVars, Deliveries,
          Working, Live, Found, Rows, WorkerInv, UploadInv, ReceiveInv, Held,
          LatestDelivery
<1>1. ASSUME NEW c \in Candidates, Upload(c) PROVE ReceiveInv'
  BY <1>1 DEF Upload
<1>2. ASSUME NEW c \in Candidates, PutFile(c) PROVE ReceiveInv'
  BY <1>2 DEF PutFile
<1>3. ASSUME NEW c \in Candidates, SendMessage(c) PROVE ReceiveInv'
  BY <1>3 DEF SendMessage, Send
<1>4. ASSUME NEW c \in Candidates, Create(c) PROVE ReceiveInv'
  BY <1>4 DEF Create
<1>5. ASSUME NEW c \in Candidates, UpsertCreated(c) PROVE ReceiveInv'
  BY <1>5 DEF UpsertCreated
<1>6. ASSUME NEW c \in Candidates, CommitCreated(c) PROVE ReceiveInv'
  BY <1>6 DEF CommitCreated
<1>7. ASSUME NEW c \in Candidates, Answer(c) PROVE ReceiveInv'
  BY <1>7 DEF Answer
<1>8. ASSUME NEW c \in Candidates, RequestFails(c) PROVE ReceiveInv'
  BY <1>8 DEF RequestFails
<1>9. ASSUME NEW c \in Candidates, VisibilityTimeout(c) PROVE ReceiveInv'
  BY <1>9 DEF VisibilityTimeout, Reappear, Fault
<1>10. ASSUME NEW c \in Candidates, Retention(c) PROVE ReceiveInv'
  BY <1>10 DEF Retention, Expire, Fault
<1>11. ASSUME NEW w \in Workers, Poll(w) PROVE ReceiveInv'
  <2>1. PICK S \in SUBSET Visible :
          batch' = [batch EXCEPT ![w] = Delivered(S)] /\ Receive(S)
    BY <1>11 DEF Poll
  <2>2. UNCHANGED <<resume, job, faults>> /\ batch[w] = {}
    BY <1>11 DEF Poll
  \* Receiving expires nothing.
  <2>3. ASSUME NEW c \in Candidates, queue'[c] = "expired" PROVE faults' >= 1
    <3>1. queue[c] = "expired"
      BY <2>1, <2>3 DEF Receive
    <3> QED BY <2>2, <3>1
  <2> SUFFICES ASSUME NEW c \in Candidates
               PROVE  /\ queue'[c] = "none" => receives'[c] = 0
                      /\ queue'[c] = "dlq"  => receives'[c] = MaxReceiveCount
                      /\ resume'[c] # "corrupt" =>
                           /\ queue'[c] \in {"visible", "dlq"} => receives'[c] <= faults'
                           /\ queue'[c] = "inflight" =>
                                receives'[c] <= IF Held(c)' THEN faults' + 1 ELSE faults'
    BY <2>3
  <2> DEFINE r == receives[c]
  <2>4. r \in 0..MaxReceiveCount /\ faults \in Nat
    OBVIOUS
  <2>5. queue[c] = "visible" /\ resume[c] # "corrupt" => r <= faults
    OBVIOUS
  \* A delivered message is received once more, but its new delivery is held.
  <2>6. CASE c \in S /\ Deliverable(c)
    <3>1. queue[c] = "visible" /\ queue'[c] = "inflight" /\ receives'[c] = receives[c] + 1
      BY <2>1, <2>6 DEF Receive, Visible
    <3>2. LatestDelivery(c)' \in batch'[w]
      BY <2>1, <2>6, <3>1 DEF Delivered
    <3>3. Held(c)'
      BY <3>2
    <3> HIDE DEF r, Held, ReceiveInv, TypeOK
    <3> QED BY <2>2, <2>4, <2>5, <3>1, <3>3 DEF r
  \* A dead-lettered one has been received as often as it may be.
  <2>7. CASE c \in S /\ ~Deliverable(c)
    <3>1. queue[c] = "visible" /\ queue'[c] = "dlq" /\ receives'[c] = r
      BY <2>1, <2>7 DEF Receive, Visible
    <3>2. r = MaxReceiveCount
      BY ONLY <2>7, <2>4, MaxReceiveCountAssumption DEF Deliverable
    <3> HIDE DEF r, Held, ReceiveInv, TypeOK
    <3> QED BY <2>2, <2>4, <2>5, <3>1, <3>2
  \* The others are held by the same workers: w held nothing.
  <2>8. CASE c \notin S
    <3>1. queue'[c] = queue[c] /\ receives'[c] = receives[c]
      BY <2>1, <2>8 DEF Receive
    <3>2. Held(c) => Held(c)'
      BY <2>1, <2>2, <3>1
    <3> QED BY <2>2, <3>1, <3>2
  <2> QED BY <2>6, <2>7, <2>8
<1>12. ASSUME NEW w \in Workers, Parse(w) PROVE ReceiveInv'
  BY <1>12 DEF Parse, Goto
<1>13. ASSUME NEW w \in Workers, RejectContent(w) PROVE ReceiveInv'
  BY <1>13 DEF RejectContent, Goto, Fault
<1>14. ASSUME NEW w \in Workers, ParserUnavailable(w) PROVE ReceiveInv'
  BY <1>14 DEF ParserUnavailable, NextMessage
<1>15. ASSUME NEW w \in Workers, Upsert(w) PROVE ReceiveInv'
  BY <1>15 DEF Upsert, Goto
<1>16. ASSUME NEW w \in Workers, CommitIndexed(w) PROVE ReceiveInv'
  BY <1>16 DEF CommitIndexed, Goto
<1>17. ASSUME NEW w \in Workers, MarkStatus(w) PROVE ReceiveInv'
  BY <1>17 DEF MarkStatus, Goto
<1>18. ASSUME NEW w \in Workers, DeleteMessage(w) PROVE ReceiveInv'
  BY <1>18 DEF DeleteMessage, Delete, Removes, NextMessage
<1>19. ASSUME NEW w \in Workers, Abandon(w) PROVE ReceiveInv'
  BY <1>19 DEF Abandon, NextMessage, Fault
<1>20. ASSUME NEW w \in Workers, Crash(w) PROVE ReceiveInv'
  BY <1>20 DEF Crash, Fault
<1>21. ASSUME NEW w \in Workers, Restart(w) PROVE ReceiveInv'
  BY <1>21 DEF Restart, Goto
<1>22. ASSUME NEW w \in Workers, NEW d \in batch[w], Start(w, d) PROVE ReceiveInv'
  BY <1>22 DEF Start
<1>23. ASSUME NEW w \in Workers, NEW d \in batch[w], Skip(w, d) PROVE ReceiveInv'
  BY <1>23 DEF Skip, Fault
<1>24. CASE UNCHANGED vars
  BY <1>24 DEF vars
<1>25. QED
  BY <1>1, <1>2, <1>3, <1>4, <1>5, <1>6, <1>7, <1>8, <1>9, <1>10, <1>11,
     <1>12, <1>13, <1>14, <1>15, <1>16, <1>17, <1>18, <1>19, <1>20, <1>21,
     <1>22, <1>23, <1>24
  DEF Next, ApiStep, Progress, Trouble

\* With one worker no other delivery can move the status between the verdict and
\* the deletion, nor after it.
LEMMA SettledStep ==
  ASSUME OneWorker, TypeOK, WorkerInv, UploadInv, IndexInv, SettledInv, [Next]_vars
  PROVE  SettledInv'
<1> USE IngestionAssumption, MaxReceiveCountAssumption DEF TypeOK,
          QueueTypeOK, queueVars, apiVars, rowVars, workerVars, Deliveries,
          Working, Live, Found, Rows, WorkerInv, UploadInv, IndexInv,
          ReportedIsLinked, SettledInv, DeletedIsSettled, OneWorker
<1>1. ASSUME NEW c \in Candidates, Upload(c) PROVE SettledInv'
  BY <1>1 DEF Upload
<1>2. ASSUME NEW c \in Candidates, PutFile(c) PROVE SettledInv'
  BY <1>2 DEF PutFile
<1>3. ASSUME NEW c \in Candidates, SendMessage(c) PROVE SettledInv'
  BY <1>3 DEF SendMessage, Send
<1>4. ASSUME NEW c \in Candidates, Create(c) PROVE SettledInv'
  BY <1>4 DEF Create
<1>5. ASSUME NEW c \in Candidates, UpsertCreated(c) PROVE SettledInv'
  BY <1>5 DEF UpsertCreated
<1>6. ASSUME NEW c \in Candidates, CommitCreated(c) PROVE SettledInv'
  BY <1>6 DEF CommitCreated
<1>7. ASSUME NEW c \in Candidates, Answer(c) PROVE SettledInv'
  BY <1>7 DEF Answer
<1>8. ASSUME NEW c \in Candidates, RequestFails(c) PROVE SettledInv'
  BY <1>8 DEF RequestFails
<1>9. ASSUME NEW c \in Candidates, VisibilityTimeout(c) PROVE SettledInv'
  BY <1>9 DEF VisibilityTimeout, Reappear, Fault
<1>10. ASSUME NEW c \in Candidates, Retention(c) PROVE SettledInv'
  BY <1>10 DEF Retention, Expire, Fault
<1>11. ASSUME NEW w \in Workers, Poll(w) PROVE SettledInv'
  BY <1>11 DEF Poll, Receive, Visible, Delivered, Deliverable
<1>12. ASSUME NEW w \in Workers, Parse(w) PROVE SettledInv'
  BY <1>12 DEF Parse, Goto
<1>13. ASSUME NEW w \in Workers, RejectContent(w) PROVE SettledInv'
  BY <1>13 DEF RejectContent, Goto, Fault
<1>14. ASSUME NEW w \in Workers, ParserUnavailable(w) PROVE SettledInv'
  BY <1>14 DEF ParserUnavailable, NextMessage
<1>15. ASSUME NEW w \in Workers, Upsert(w) PROVE SettledInv'
  BY <1>15 DEF Upsert, Goto
<1>16. ASSUME NEW w \in Workers, CommitIndexed(w) PROVE SettledInv'
  BY <1>16 DEF CommitIndexed, Goto
<1>17. ASSUME NEW w \in Workers, MarkStatus(w) PROVE SettledInv'
  BY <1>17 DEF MarkStatus, Goto
<1>18. ASSUME NEW w \in Workers, DeleteMessage(w) PROVE SettledInv'
  BY <1>18 DEF DeleteMessage, Delete, Removes, NextMessage
<1>19. ASSUME NEW w \in Workers, Abandon(w) PROVE SettledInv'
  BY <1>19 DEF Abandon, NextMessage, Fault
<1>20. ASSUME NEW w \in Workers, Crash(w) PROVE SettledInv'
  BY <1>20 DEF Crash, Fault
<1>21. ASSUME NEW w \in Workers, Restart(w) PROVE SettledInv'
  BY <1>21 DEF Restart, Goto
<1>22. ASSUME NEW w \in Workers, NEW d \in batch[w], Start(w, d) PROVE SettledInv'
  BY <1>22 DEF Start
<1>23. ASSUME NEW w \in Workers, NEW d \in batch[w], Skip(w, d) PROVE SettledInv'
  BY <1>23 DEF Skip, Fault
<1>24. CASE UNCHANGED vars
  BY <1>24 DEF vars
<1>25. QED
  BY <1>1, <1>2, <1>3, <1>4, <1>5, <1>6, <1>7, <1>8, <1>9, <1>10, <1>11,
     <1>12, <1>13, <1>14, <1>15, <1>16, <1>17, <1>18, <1>19, <1>20, <1>21,
     <1>22, <1>23, <1>24
  DEF Next, ApiStep, Progress, Trouble

\* Two deliveries of one message are with workers only after a fault.
LEMMA TwoDeliveries ==
  ASSUME TypeOK, OverlapInv,
         NEW v \in Workers, NEW w \in Workers, NEW d \in Deliveries, NEW e \in Deliveries,
         Holds(v, d), Holds(w, e), d.cand = e.cand, d # e
  PROVE  faults >= 1
<1>1. d.receipt # e.receipt
  BY DEF Deliveries
<1>2. d.receipt # receives[d.cand] \/ e.receipt # receives[d.cand]
  BY <1>1
<1>3. QED
  BY <1>2 DEF OverlapInv

\* Deliveries are issued one at a time, and a second one after the first has timed
\* out.
LEMMA OverlapStep ==
  ASSUME TypeOK, WorkerInv, UploadInv, OverlapInv, [Next]_vars
  PROVE  OverlapInv'
<1> USE IngestionAssumption, MaxReceiveCountAssumption DEF TypeOK,
          QueueTypeOK, queueVars, apiVars, rowVars, workerVars, Deliveries,
          Working, Live, Found, Rows, WorkerInv, UploadInv,
          OverlapInv, Holds, Held, LatestDelivery
<1>1. ASSUME NEW c \in Candidates, Upload(c) PROVE OverlapInv'
  BY <1>1 DEF Upload
<1>2. ASSUME NEW c \in Candidates, PutFile(c) PROVE OverlapInv'
  BY <1>2 DEF PutFile
<1>3. ASSUME NEW c \in Candidates, SendMessage(c) PROVE OverlapInv'
  BY <1>3 DEF SendMessage, Send
<1>4. ASSUME NEW c \in Candidates, Create(c) PROVE OverlapInv'
  BY <1>4 DEF Create
<1>5. ASSUME NEW c \in Candidates, UpsertCreated(c) PROVE OverlapInv'
  BY <1>5 DEF UpsertCreated
<1>6. ASSUME NEW c \in Candidates, CommitCreated(c) PROVE OverlapInv'
  BY <1>6 DEF CommitCreated
<1>7. ASSUME NEW c \in Candidates, Answer(c) PROVE OverlapInv'
  BY <1>7 DEF Answer
<1>8. ASSUME NEW c \in Candidates, RequestFails(c) PROVE OverlapInv'
  BY <1>8 DEF RequestFails
<1>9. ASSUME NEW c \in Candidates, VisibilityTimeout(c) PROVE OverlapInv'
  BY <1>9 DEF VisibilityTimeout, Reappear, Fault
<1>10. ASSUME NEW c \in Candidates, Retention(c) PROVE OverlapInv'
  BY <1>10 DEF Retention, Expire, Fault
<1>11. ASSUME NEW w \in Workers, Poll(w) PROVE OverlapInv'
  <2>1. PICK S \in SUBSET Visible :
          batch' = [batch EXCEPT ![w] = Delivered(S)] /\ Receive(S)
    BY <1>11 DEF Poll
  <2>2. batch[w] = {} /\ pc[w] = "idle" /\ UNCHANGED <<faults, job>> /\ job[w] = NoJob
    BY <1>11 DEF Poll
  \* What a worker holds now it held before, or it is w and the delivery is new.
  <2>3. ASSUME NEW v \in Workers, NEW d \in Deliveries, Holds(v, d)'
        PROVE  \/ Holds(v, d) /\ v # w
               \/ v = w /\ d.cand \in S /\ Deliverable(d.cand) /\ d.receipt = receives[d.cand] + 1
    BY <2>1, <2>2, <2>3 DEF Delivered
  <2>4. ASSUME NEW c \in S
        PROVE  /\ queue[c] = "visible"
               /\ Deliverable(c) => queue'[c] = "inflight" /\ receives'[c] = receives[c] + 1
               /\ ~Deliverable(c) => queue'[c] = "dlq" /\ receives'[c] = receives[c]
    BY <2>1 DEF Receive, Visible
  <2>5. ASSUME NEW c \in Candidates, c \notin S
        PROVE  queue'[c] = queue[c] /\ receives'[c] = receives[c]
    BY <2>1, <2>5 DEF Receive
  <2>6. \A v \in Workers : job'[v] \notin batch'[v]
    <3>1. Delivered(S) \subseteq Deliveries
      BY DEF Delivered, Deliverable, Visible
    <3>2. job[w] \notin batch'[w]
      BY <2>1, <2>2, <3>1
    <3>3. QED
      BY <2>1, <2>2, <3>2
  <2>7. ASSUME NEW u \in Workers, NEW v \in Workers, NEW d \in Deliveries,
               Holds(u, d)', Holds(v, d)'
        PROVE  u = v
    <3>1. Holds(u, d) /\ Holds(v, d) => u = v
      OBVIOUS
    <3>2. \A x \in Workers : Holds(x, d) => d.receipt # receives[d.cand] + 1
      OBVIOUS
    <3>3. QED
      BY ONLY <2>3, <2>7, <3>1, <3>2
  <2>8. ASSUME NEW v \in Workers, NEW d \in Deliveries, Holds(v, d)'
        PROVE  /\ d.receipt <= receives'[d.cand]
               /\ queue'[d.cand] # "none"
               /\ (d.receipt # receives'[d.cand] \/ queue'[d.cand] # "inflight") => faults' >= 1
    <3>1. d.cand \in Candidates /\ receives[d.cand] \in Nat /\ d.receipt \in Nat
      OBVIOUS
    <3>2. CASE v = w /\ d.cand \in S /\ Deliverable(d.cand) /\ d.receipt = receives[d.cand] + 1
      BY <2>4, <3>1, <3>2
    <3>3. CASE Holds(v, d)
      <4>1. /\ d.receipt <= receives[d.cand] /\ queue[d.cand] # "none"
            /\ (d.receipt # receives[d.cand] \/ queue[d.cand] # "inflight") => faults >= 1
        BY <3>3
      <4>2. CASE d.cand \in S
        BY <2>2, <2>4, <3>1, <4>1, <4>2
      <4>3. CASE d.cand \notin S
        BY <2>2, <2>5, <3>1, <4>1, <4>3
      <4>4. QED BY <4>2, <4>3
    <3>4. QED BY <2>3, <2>8, <3>2, <3>3
  <2>9. QED
    BY <2>6, <2>7, <2>8
<1>12. ASSUME NEW w \in Workers, Parse(w) PROVE OverlapInv'
  BY <1>12 DEF Parse, Goto
<1>13. ASSUME NEW w \in Workers, RejectContent(w) PROVE OverlapInv'
  BY <1>13 DEF RejectContent, Goto, Fault
<1>14. ASSUME NEW w \in Workers, ParserUnavailable(w) PROVE OverlapInv'
  BY <1>14 DEF ParserUnavailable, NextMessage
<1>15. ASSUME NEW w \in Workers, Upsert(w) PROVE OverlapInv'
  BY <1>15 DEF Upsert, Goto
<1>16. ASSUME NEW w \in Workers, CommitIndexed(w) PROVE OverlapInv'
  BY <1>16 DEF CommitIndexed, Goto
<1>17. ASSUME NEW w \in Workers, MarkStatus(w) PROVE OverlapInv'
  BY <1>17 DEF MarkStatus, Goto
<1>18. ASSUME NEW w \in Workers, DeleteMessage(w) PROVE OverlapInv'
  BY <1>18 DEF DeleteMessage, Delete, Removes, NextMessage
<1>19. ASSUME NEW w \in Workers, Abandon(w) PROVE OverlapInv'
  BY <1>19 DEF Abandon, NextMessage, Fault
<1>20. ASSUME NEW w \in Workers, Crash(w) PROVE OverlapInv'
  BY <1>20 DEF Crash, Fault
<1>21. ASSUME NEW w \in Workers, Restart(w) PROVE OverlapInv'
  BY <1>21 DEF Restart, Goto
<1>22. ASSUME NEW w \in Workers, NEW d \in batch[w], Start(w, d) PROVE OverlapInv'
  BY <1>22 DEF Start
<1>23. ASSUME NEW w \in Workers, NEW d \in batch[w], Skip(w, d) PROVE OverlapInv'
  BY <1>23 DEF Skip, Fault
<1>24. CASE UNCHANGED vars
  BY <1>24 DEF vars
<1>25. QED
  BY <1>1, <1>2, <1>3, <1>4, <1>5, <1>6, <1>7, <1>8, <1>9, <1>10, <1>11,
     <1>12, <1>13, <1>14, <1>15, <1>16, <1>17, <1>18, <1>19, <1>20, <1>21,
     <1>22, <1>23, <1>24
  DEF Next, ApiStep, Progress, Trouble

\* A verdict is replaced by `processing` only by an overlapping delivery, and that
\* attempt writes another verdict or fails.
LEMMA VerdictStep ==
  ASSUME TypeOK, WorkerInv, UploadInv, OverlapInv, VerdictInv, [Next]_vars
  PROVE  VerdictInv'
<1> USE IngestionAssumption, MaxReceiveCountAssumption DEF TypeOK,
          QueueTypeOK, queueVars, apiVars, rowVars, workerVars, Deliveries,
          Working, Live, Found, Rows, WorkerInv, UploadInv,
          OverlapInv, VerdictInv, Settled, Attempts, Verdicts, Holds
<1>1. ASSUME NEW c \in Candidates, Upload(c) PROVE VerdictInv'
  BY <1>1 DEF Upload
<1>2. ASSUME NEW c \in Candidates, PutFile(c) PROVE VerdictInv'
  BY <1>2 DEF PutFile
<1>3. ASSUME NEW c \in Candidates, SendMessage(c) PROVE VerdictInv'
  BY <1>3 DEF SendMessage, Send
<1>4. ASSUME NEW c \in Candidates, Create(c) PROVE VerdictInv'
  BY <1>4 DEF Create
<1>5. ASSUME NEW c \in Candidates, UpsertCreated(c) PROVE VerdictInv'
  BY <1>5 DEF UpsertCreated
<1>6. ASSUME NEW c \in Candidates, CommitCreated(c) PROVE VerdictInv'
  BY <1>6 DEF CommitCreated
<1>7. ASSUME NEW c \in Candidates, Answer(c) PROVE VerdictInv'
  BY <1>7 DEF Answer
<1>8. ASSUME NEW c \in Candidates, RequestFails(c) PROVE VerdictInv'
  BY <1>8 DEF RequestFails
<1>9. ASSUME NEW c \in Candidates, VisibilityTimeout(c) PROVE VerdictInv'
  BY <1>9 DEF VisibilityTimeout, Reappear, Fault
<1>10. ASSUME NEW c \in Candidates, Retention(c) PROVE VerdictInv'
  BY <1>10 DEF Retention, Expire, Fault
<1>11. ASSUME NEW w \in Workers, Poll(w) PROVE VerdictInv'
  BY <1>11 DEF Poll, Receive, Visible, Delivered, Deliverable
<1>12. ASSUME NEW w \in Workers, Parse(w) PROVE VerdictInv'
  BY <1>12 DEF Parse, Goto
<1>13. ASSUME NEW w \in Workers, RejectContent(w) PROVE VerdictInv'
  BY <1>13 DEF RejectContent, Goto, Fault
<1>14. ASSUME NEW w \in Workers, ParserUnavailable(w) PROVE VerdictInv'
  BY <1>14 DEF ParserUnavailable, NextMessage
<1>15. ASSUME NEW w \in Workers, Upsert(w) PROVE VerdictInv'
  BY <1>15 DEF Upsert, Goto
<1>16. ASSUME NEW w \in Workers, CommitIndexed(w) PROVE VerdictInv'
  BY <1>16 DEF CommitIndexed, Goto
<1>17. ASSUME NEW w \in Workers, MarkStatus(w) PROVE VerdictInv'
  <2>1. \A c \in Candidates : Settled(c) => Settled(c)'
    BY <1>17 DEF MarkStatus, Goto
  <2>2. pc[w] = "mark" /\ pc' = [pc EXCEPT ![w] = "delete"] /\ UNCHANGED <<job, queue, resume>>
    BY <1>17 DEF MarkStatus, Goto
  <2> HIDE DEF Settled
  <2>3. QED BY <2>1, <2>2
<1>18. ASSUME NEW w \in Workers, DeleteMessage(w) PROVE VerdictInv'
  BY <1>18 DEF DeleteMessage, Delete, Removes, NextMessage
<1>19. ASSUME NEW w \in Workers, Abandon(w) PROVE VerdictInv'
  BY <1>19 DEF Abandon, NextMessage, Fault
<1>20. ASSUME NEW w \in Workers, Crash(w) PROVE VerdictInv'
  BY <1>20 DEF Crash, Fault
<1>21. ASSUME NEW w \in Workers, Restart(w) PROVE VerdictInv'
  BY <1>21 DEF Restart, Goto
<1>22. ASSUME NEW w \in Workers, NEW d \in batch[w], Start(w, d) PROVE VerdictInv'
  BY <1>22 DEF Start
<1>23. ASSUME NEW w \in Workers, NEW d \in batch[w], Skip(w, d) PROVE VerdictInv'
  BY <1>23 DEF Skip, Fault
<1>24. CASE UNCHANGED vars
  BY <1>24 DEF vars
<1>25. QED
  BY <1>1, <1>2, <1>3, <1>4, <1>5, <1>6, <1>7, <1>8, <1>9, <1>10, <1>11,
     <1>12, <1>13, <1>14, <1>15, <1>16, <1>17, <1>18, <1>19, <1>20, <1>21,
     <1>22, <1>23, <1>24
  DEF Next, ApiStep, Progress, Trouble

\* A candidate a worker has linked is rejected later only by an attempt that a fault
\* made possible, and for a second one.
LEMMA DisputeStep ==
  ASSUME TypeOK, WorkerInv, UploadInv, IndexInv, ReceiveInv, OverlapInv, DisputeInv, [Next]_vars
  PROVE  DisputeInv'
<1> USE IngestionAssumption, MaxReceiveCountAssumption DEF TypeOK,
          QueueTypeOK, queueVars, apiVars, rowVars, workerVars, Deliveries,
          Working, Live, Found, Rows, WorkerInv, UploadInv,
          ReportedIsLinked, IndexInv, ReceiveInv, OverlapInv, DisputeInv, Holds
<1>1. ASSUME NEW c \in Candidates, Upload(c) PROVE DisputeInv'
  BY <1>1 DEF Upload
<1>2. ASSUME NEW c \in Candidates, PutFile(c) PROVE DisputeInv'
  BY <1>2 DEF PutFile
<1>3. ASSUME NEW c \in Candidates, SendMessage(c) PROVE DisputeInv'
  BY <1>3 DEF SendMessage, Send
<1>4. ASSUME NEW c \in Candidates, Create(c) PROVE DisputeInv'
  BY <1>4 DEF Create
<1>5. ASSUME NEW c \in Candidates, UpsertCreated(c) PROVE DisputeInv'
  BY <1>5 DEF UpsertCreated
<1>6. ASSUME NEW c \in Candidates, CommitCreated(c) PROVE DisputeInv'
  BY <1>6 DEF CommitCreated
<1>7. ASSUME NEW c \in Candidates, Answer(c) PROVE DisputeInv'
  BY <1>7 DEF Answer
<1>8. ASSUME NEW c \in Candidates, RequestFails(c) PROVE DisputeInv'
  BY <1>8 DEF RequestFails
<1>9. ASSUME NEW c \in Candidates, VisibilityTimeout(c) PROVE DisputeInv'
  BY <1>9 DEF VisibilityTimeout, Reappear, Fault
<1>10. ASSUME NEW c \in Candidates, Retention(c) PROVE DisputeInv'
  BY <1>10 DEF Retention, Expire, Fault
<1>11. ASSUME NEW w \in Workers, Poll(w) PROVE DisputeInv'
  BY <1>11 DEF Poll, Receive, Visible, Delivered, Deliverable
<1>12. ASSUME NEW w \in Workers, Parse(w) PROVE DisputeInv'
  BY <1>12 DEF Parse, Goto
<1>13. ASSUME NEW w \in Workers, RejectContent(w) PROVE DisputeInv'
  BY <1>13 DEF RejectContent, Goto, Fault
<1>14. ASSUME NEW w \in Workers, ParserUnavailable(w) PROVE DisputeInv'
  BY <1>14 DEF ParserUnavailable, NextMessage
<1>15. ASSUME NEW w \in Workers, Upsert(w) PROVE DisputeInv'
  BY <1>15 DEF Upsert, Goto
<1>16. ASSUME NEW w \in Workers, CommitIndexed(w) PROVE DisputeInv'
  <2>1. /\ pc[w] = "commit" /\ pc' = [pc EXCEPT ![w] = "mark"]
        /\ status' = [status EXCEPT ![job[w].cand] = "processed"]
        /\ linked' = linked \cup {job[w].cand}
        /\ UNCHANGED <<job, batch, faults, queue, receives, resume, request, reported>>
    BY <1>16 DEF CommitIndexed, Goto
  <2>2. job[w] \in Deliveries /\ resume[job[w].cand] = "good" /\ receives[job[w].cand] >= 1
    BY <2>1
  \* Who else holds the message holds another delivery of it.
  <2>3. ASSUME NEW v \in Workers, NEW d \in Deliveries, Holds(v, d), d.cand = job[w].cand
        PROVE  faults >= 1 \/ (d = job[v] /\ v = w)
    <3>1. CASE d = job[w]
      BY <3>1, <2>2, <2>3
    <3>2. CASE d # job[w]
      BY <3>2, <2>2, <2>3, TwoDeliveries
    <3>3. QED BY <3>1, <3>2
  <2>4. ASSUME NEW c \in Candidates, c \in linked', resume[c] = "good",
               NEW v \in Workers, NEW d \in Deliveries, Holds(v, d), d.cand = c
        PROVE  faults >= 1 \/ (d = job[v] /\ pc'[v] \in {"mark", "delete"})
    BY <2>1, <2>3, <2>4
  <2>5. QED
    BY <2>1, <2>2, <2>4
<1>17. ASSUME NEW w \in Workers, MarkStatus(w) PROVE DisputeInv'
  BY <1>17 DEF MarkStatus, Goto
<1>18. ASSUME NEW w \in Workers, DeleteMessage(w) PROVE DisputeInv'
  BY <1>18 DEF DeleteMessage, Delete, Removes, NextMessage
<1>19. ASSUME NEW w \in Workers, Abandon(w) PROVE DisputeInv'
  BY <1>19 DEF Abandon, NextMessage, Fault
<1>20. ASSUME NEW w \in Workers, Crash(w) PROVE DisputeInv'
  BY <1>20 DEF Crash, Fault
<1>21. ASSUME NEW w \in Workers, Restart(w) PROVE DisputeInv'
  BY <1>21 DEF Restart, Goto
<1>22. ASSUME NEW w \in Workers, NEW d \in batch[w], Start(w, d) PROVE DisputeInv'
  BY <1>22 DEF Start
<1>23. ASSUME NEW w \in Workers, NEW d \in batch[w], Skip(w, d) PROVE DisputeInv'
  BY <1>23 DEF Skip, Fault
<1>24. CASE UNCHANGED vars
  BY <1>24 DEF vars
<1>25. QED
  BY <1>1, <1>2, <1>3, <1>4, <1>5, <1>6, <1>7, <1>8, <1>9, <1>10, <1>11,
     <1>12, <1>13, <1>14, <1>15, <1>16, <1>17, <1>18, <1>19, <1>20, <1>21,
     <1>22, <1>23, <1>24
  DEF Next, ApiStep, Progress, Trouble

(***************************************************************************)
(* The theorems.                                                           *)
(***************************************************************************)

\* The inductive invariant holds of every behaviour.
THEOREM Invariance == Spec => []IInv
<1>1. Init => IInv
  BY IngestionAssumption, MaxReceiveCountAssumption
  DEF Init, QueueInit, IInv, TypeOK, QueueTypeOK, WorkerInv, UploadInv, IndexInv, ReceiveInv,
      ProcessedIsSearchable, ReportedIsLinked, Working, Found
<1>2. IInv /\ [Next]_vars => IInv'
  BY TypeStep, WorkerStep, UploadStep, IndexStep, ReceiveStep DEF IInv
<1>3. QED
  BY <1>1, <1>2, PTL DEF Spec

\* The type invariant, for any number of candidates and workers.
THEOREM TypeCorrectness == Spec => []TypeOK
<1>1. IInv => TypeOK
  BY DEF IInv
<1>2. QED
  BY <1>1, Invariance, PTL

\* A 202 means the message was sent, and a message always finds its row and file.
THEOREM UploadsAreBacked == Spec => []UploadIsBacked
<1>1. IInv => UploadIsBacked
  BY DEF IInv, UploadInv, UploadIsBacked
<1>2. QED
  BY <1>1, Invariance, PTL

\* Whatever fails, is retried or overlaps, `processed` means searchable, and a vector
\* without a row is that of a create or an attempt that has not committed.
THEOREM ProcessedMeansSearchable == Spec => []ProcessedIsSearchable
<1>1. IInv => ProcessedIsSearchable
  BY DEF IInv, IndexInv
<1>2. QED
  BY <1>1, Invariance, PTL

\* No candidate is reported as ai-processed before it is parsed and indexed.
THEOREM ReportsAreOfLinked == Spec => []ReportedIsLinked
<1>1. IInv => ReportedIsLinked
  BY DEF IInv, IndexInv
<1>2. QED
  BY <1>1, Invariance, PTL

\* A file pypdf can read is dead-lettered only after maxReceiveCount faults, for any
\* number of workers.
THEOREM DeadLettersArePaidFor == Spec => []DlqIsPaidFor
<1>1. IInv => DlqIsPaidFor
  BY MaxReceiveCountAssumption DEF IInv, ReceiveInv, DlqIsPaidFor
<1>2. QED
  BY <1>1, Invariance, PTL

\* With one worker process a deleted message has left a verdict behind for good.
THEOREM OneWorkerSettles ==
  ASSUME OneWorker
  PROVE  Spec => []DeletedIsSettled
<1>1. Init => SettledInv
  BY DEF Init, QueueInit, SettledInv, DeletedIsSettled, Working
<1>2. IInv /\ SettledInv /\ [Next]_vars => SettledInv'
  BY OneWorker, SettledStep DEF IInv
<1>3. SettledInv => DeletedIsSettled
  BY DEF SettledInv
<1>4. QED
  BY <1>1, <1>2, <1>3, Invariance, PTL DEF Spec

\* For any number of workers, a verdict is lost with a deleted message only after two
\* faults, with that of a readable file dead-lettered after maxReceiveCount, and with an
\* expired one after one.
THEOREM LostVerdictsArePaidFor == Spec => []LostVerdictIsPaidFor
<1>1. Init => OverlapInv /\ VerdictInv
  BY IngestionAssumption
  DEF Init, QueueInit, OverlapInv, VerdictInv, Holds, Working, Deliveries
<1>2. IInv /\ OverlapInv /\ VerdictInv /\ [Next]_vars => (OverlapInv /\ VerdictInv)'
  BY OverlapStep, VerdictStep DEF IInv
<1>3. IInv /\ VerdictInv => LostVerdictIsPaidFor
  <2> SUFFICES ASSUME IInv, VerdictInv, NEW c \in Candidates, queue[c] \in Ended,
                      ~ \E w \in Workers : Attempts(w, c), status[c] \notin Verdicts
               PROVE  faults >= LossCosts(c)
    BY DEF LostVerdictIsPaidFor
  <2>1. faults \in Nat /\ MaxReceiveCount \in Nat
    BY IngestionAssumption, MaxReceiveCountAssumption DEF IInv, TypeOK
  <2>2. CASE queue[c] = "deleted"
    BY <2>2 DEF VerdictInv, Settled, LossCosts
  <2>3. CASE queue[c] = "dlq"
    BY <2>1, <2>3 DEF IInv, ReceiveInv, LossCosts
  <2>4. CASE queue[c] = "expired"
    BY <2>4 DEF IInv, ReceiveInv, LossCosts
  <2> QED
    BY <2>2, <2>3, <2>4 DEF Ended
<1>4. QED
  BY <1>1, <1>2, <1>3, Invariance, PTL DEF Spec

\* A candidate is reported and yet shown as failed only after two faults.
THEOREM DisputedVerdictsArePaidFor == Spec => []DisputedVerdictIsPaidFor
<1>1. Init => OverlapInv /\ DisputeInv
  BY IngestionAssumption
  DEF Init, QueueInit, OverlapInv, DisputeInv, Holds, Working, Deliveries
<1>2. IInv /\ OverlapInv /\ DisputeInv /\ [Next]_vars => (OverlapInv /\ DisputeInv)'
  BY OverlapStep, DisputeStep DEF IInv
<1>3. IInv /\ DisputeInv => DisputedVerdictIsPaidFor
  BY DEF IInv, TypeOK, IndexInv, ReportedIsLinked, DisputeInv, DisputedVerdictIsPaidFor
<1>4. QED
  BY <1>1, <1>2, <1>3, Invariance, PTL DEF Spec

(***************************************************************************)
(* Refinement.  Every step is a step of CandidateLifecycle or leaves the   *)
(* candidate's life cycle alone.                                           *)
(***************************************************************************)
lifeVars == <<status, attempt, index>>

\* The initial states correspond.
LEMMA InitRefines == Init => Lifecycle!Init
  BY DEF Init, Lifecycle!Init, attempt, Attempting

\* One step per action; those of no interest to the life cycle are stutters.
LEMMA StepRefines ==
  ASSUME IInv, [Next]_vars
  PROVE  [Lifecycle!Next]_lifeVars
<1> USE DEF IInv, TypeOK, attempt, Attempting, lifeVars, queueVars, apiVars, rowVars, workerVars
<1>1. ASSUME NEW c \in Candidates, Upload(c) PROVE Lifecycle!Accept(c)
  BY <1>1 DEF Upload, UploadInv, Lifecycle!Accept
<1>2. ASSUME NEW c \in Candidates, UpsertCreated(c) PROVE Lifecycle!MakeSearchable(c)
  BY <1>2 DEF UpsertCreated, UploadInv, Lifecycle!MakeSearchable
<1>3. ASSUME NEW c \in Candidates, CommitCreated(c) PROVE Lifecycle!Import(c)
  BY <1>3 DEF CommitCreated, UploadInv, IndexInv, Lifecycle!Import
<1>4. ASSUME NEW w \in Workers, NEW d \in batch[w], Start(w, d)
      PROVE  Lifecycle!Begin(w, d.cand) /\ d.cand \in Candidates
  BY <1>4 DEF Start, Found, Rows, Deliveries, Lifecycle!Begin
<1>5. ASSUME NEW w \in Workers, Upsert(w)
      PROVE  Lifecycle!MakeSearchable(job[w].cand) /\ job[w].cand \in Candidates
  BY <1>5 DEF Upsert, Goto, WorkerInv, Working, Deliveries, Lifecycle!MakeSearchable
<1>6. ASSUME NEW w \in Workers, RejectContent(w)
      PROVE  Lifecycle!Reject(w, job[w].cand) /\ job[w].cand \in Candidates
  BY <1>6 DEF RejectContent, Goto, WorkerInv, Working, Deliveries, Lifecycle!Reject, Lifecycle!End
<1>7. ASSUME NEW w \in Workers, CommitIndexed(w)
      PROVE  Lifecycle!Succeed(w, job[w].cand) /\ job[w].cand \in Candidates
  BY <1>7 DEF CommitIndexed, Goto, WorkerInv, IndexInv, Working, Deliveries,
              Lifecycle!Succeed, Lifecycle!End
<1>8. ASSUME NEW w \in Workers, ParserUnavailable(w) PROVE Lifecycle!GiveUp(w)
  BY <1>8 DEF ParserUnavailable, NextMessage, Lifecycle!GiveUp
<1>9. ASSUME NEW w \in Workers, Abandon(w) \/ Crash(w) PROVE Lifecycle!GiveUp(w)
  BY <1>9 DEF Abandon, Crash, NextMessage, Lifecycle!GiveUp
<1>10. ASSUME NEW c \in Candidates,
              \/ PutFile(c) \/ SendMessage(c) \/ Create(c) \/ Answer(c) \/ RequestFails(c)
              \/ VisibilityTimeout(c) \/ Retention(c)
       PROVE  UNCHANGED lifeVars
  BY <1>10 DEF PutFile, SendMessage, Create, Answer, RequestFails, VisibilityTimeout, Retention
<1>11. ASSUME NEW w \in Workers, Poll(w) \/ Parse(w) \/ MarkStatus(w) \/ DeleteMessage(w)
                                   \/ Restart(w) \/ \E d \in batch[w] : Skip(w, d)
       PROVE  UNCHANGED lifeVars
  BY <1>11 DEF Poll, Parse, MarkStatus, DeleteMessage, Restart, Skip, Goto, NextMessage
<1>12. CASE UNCHANGED vars
  BY <1>12 DEF vars
<1>13. QED
  BY <1>1, <1>2, <1>3, <1>4, <1>5, <1>6, <1>7, <1>8, <1>9, <1>10, <1>11, <1>12
  DEF Next, ApiStep, Progress, Trouble, Lifecycle!Next

\* The pipeline implements the life cycle of a candidate, for any number of workers,
\* crashes and redeliveries.
THEOREM IngestionImplementsLifecycle == Spec => ImplementsLifecycle
<1>1. Init => Lifecycle!Init
  BY InitRefines
<1>2. IInv /\ [Next]_vars => [Lifecycle!Next]_<<status, attempt, index>>
  BY StepRefines DEF lifeVars
<1>3. QED
  BY <1>1, <1>2, Invariance, PTL DEF Spec, ImplementsLifecycle, Lifecycle!Spec

(***************************************************************************)
(* The environment of Screening.                                           *)
(***************************************************************************)
feedVars == <<parsedRow, index>>

Fed(c) == Rankings!Store(c) \/ Rankings!Parse(c) \/ Rankings!Index(c)

\* Nothing but the rows and the vectors moves.
LEMMA RankingStandsStill ==
  ASSUME NEW c \in Candidates, UNCHANGED index
  PROVE  \A state : parsedRow' = [parsedRow EXCEPT ![c] = state] => Rankings!Write(c, state)
  BY DEF Rankings!Write, Rankings!jobVars, Rankings!inputVars, Rankings!queryVars,
         Rankings!evalVars

\* A vector that is upserted is new, or was there.
LEMMA IndexFeeds ==
  ASSUME NEW c \in Candidates, UNCHANGED parsedRow, index' = index \cup {c}
  PROVE  Fed(c) \/ UNCHANGED feedVars
  BY DEF Fed, feedVars, Rankings!Index, Rankings!jobVars, Rankings!inputVars,
         Rankings!queryVars, Rankings!evalVars

\* A step that creates no row and links nothing leaves the rows as rankings see them.
LEMMA RowsStay ==
  ASSUME UNCHANGED linked, \A c \in Candidates : status'[c] = "absent" <=> status[c] = "absent"
  PROVE  UNCHANGED parsedRow
  BY DEF parsedRow

\* A row that is created, or linked, is stored or parsed.
LEMMA WrittenRowFeeds ==
  ASSUME NEW c \in Candidates, UNCHANGED index,
         status[c] = "absent" => c \notin linked,
         status'[c] # "absent",
         \A d \in Candidates \ {c} : /\ status'[d] = "absent" <=> status[d] = "absent"
                                     /\ d \in linked' <=> d \in linked,
         c \in linked => c \in linked'
  PROVE  Fed(c) \/ UNCHANGED feedVars
<1>1. parsedRow' = [parsedRow EXCEPT ![c] = parsedRow'[c]]
  BY DEF parsedRow
<1>2. /\ parsedRow[c] = "none" => parsedRow'[c] \in {"unparsed", "parsed"}
      /\ parsedRow[c] = "unparsed" => parsedRow'[c] \in {"unparsed", "parsed"}
      /\ parsedRow[c] = "parsed" => parsedRow'[c] = "parsed"
      /\ parsedRow[c] \in {"none", "unparsed", "parsed"}
  BY DEF parsedRow
<1>3. Rankings!Write(c, parsedRow'[c])
  BY <1>1, RankingStandsStill
<1>4. CASE parsedRow'[c] = parsedRow[c]
  <2>1. parsedRow' = parsedRow
    BY <1>1, <1>4 DEF parsedRow
  <2> QED
    BY <2>1 DEF feedVars
<1> QED
  BY <1>2, <1>3, <1>4 DEF Fed, Rankings!Store, Rankings!Parse

\* Only a committed row is linked to a vector.
LinkedHasRow == \A c \in linked : status[c] # "absent"

\* No step takes a row away, and the one that links a candidate has its row.
LEMMA LinkedStep ==
  ASSUME IInv, LinkedHasRow, [Next]_vars
  PROVE  LinkedHasRow'
<1> USE DEF LinkedHasRow, IInv, TypeOK, queueVars, apiVars, rowVars, workerVars
<1>1. ASSUME NEW c \in Candidates, ApiStep(c) PROVE LinkedHasRow'
  BY <1>1 DEF ApiStep, Upload, PutFile, SendMessage, Create, UpsertCreated, CommitCreated,
              Answer, RequestFails
<1>2. ASSUME NEW c \in Candidates, VisibilityTimeout(c) \/ Retention(c) PROVE LinkedHasRow'
  BY <1>2 DEF VisibilityTimeout, Retention
<1>3. ASSUME NEW w \in Workers, NEW d \in batch[w], Start(w, d) \/ Skip(w, d)
      PROVE  LinkedHasRow'
  BY <1>3 DEF Start, Skip
<1>4. ASSUME NEW w \in Workers, \/ Poll(w) \/ Parse(w) \/ ParserUnavailable(w) \/ Upsert(w)
                                \/ MarkStatus(w) \/ DeleteMessage(w)
                                \/ Abandon(w) \/ Crash(w) \/ Restart(w)
      PROVE  UNCHANGED <<status, linked>>
  BY <1>4 DEF Poll, Parse, ParserUnavailable, Upsert, MarkStatus, DeleteMessage, Abandon,
              Crash, Restart
<1>5. ASSUME NEW w \in Workers, RejectContent(w) \/ CommitIndexed(w) PROVE LinkedHasRow'
  BY <1>5 DEF RejectContent, CommitIndexed, WorkerInv, Working, Deliveries
<1>6. CASE UNCHANGED vars
  BY <1>6 DEF vars
<1> QED
  BY <1>1, <1>2, <1>3, <1>4, <1>5, <1>6 DEF Next, Progress, Trouble

\* One step per action: two of the API's and three of a worker's write a row, two
\* upsert a vector, and the others are of no interest to a ranking.
LEMMA StepFeeds ==
  ASSUME IInv, LinkedHasRow, [Next]_vars
  PROVE  (\E c \in Candidates : Fed(c)) \/ UNCHANGED feedVars
<1> USE DEF IInv, TypeOK, LinkedHasRow, queueVars, apiVars, rowVars, workerVars
<1>1. ASSUME NEW c \in Candidates, Upload(c) \/ CommitCreated(c)
      PROVE  Fed(c) \/ UNCHANGED feedVars
  BY <1>1, WrittenRowFeeds DEF Upload, CommitCreated
<1>2. ASSUME NEW w \in Workers, NEW d \in batch[w], Start(w, d)
      PROVE  UNCHANGED feedVars
  <2>1. d.cand \in Candidates /\ status[d.cand] # "absent"
    BY <1>2 DEF Start, Found, Rows, Deliveries
  <2> QED
    BY <1>2, <2>1, RowsStay DEF Start, feedVars
<1>3. ASSUME NEW w \in Workers, RejectContent(w)
      PROVE  UNCHANGED feedVars
  BY <1>3, RowsStay DEF RejectContent, WorkerInv, Working, Deliveries, feedVars
<1>4. ASSUME NEW w \in Workers, CommitIndexed(w)
      PROVE  \E c \in Candidates : Fed(c) \/ UNCHANGED feedVars
  <2>1. job[w].cand \in Candidates /\ status[job[w].cand] # "absent"
    BY <1>4 DEF CommitIndexed, WorkerInv, Working, Deliveries
  <2> QED
    BY <1>4, <2>1, WrittenRowFeeds DEF CommitIndexed
<1>5. ASSUME NEW c \in Candidates, UpsertCreated(c)
      PROVE  Fed(c) \/ UNCHANGED feedVars
  BY <1>5, RowsStay, IndexFeeds DEF UpsertCreated
<1>6. ASSUME NEW w \in Workers, Upsert(w)
      PROVE  \E c \in Candidates : Fed(c) \/ UNCHANGED feedVars
  <2>1. job[w].cand \in Candidates
    BY <1>6 DEF Upsert, WorkerInv, Working, Deliveries
  <2> QED
    BY <1>6, <2>1, RowsStay, IndexFeeds DEF Upsert
<1>7. ASSUME NEW c \in Candidates,
             \/ PutFile(c) \/ SendMessage(c) \/ Create(c) \/ Answer(c) \/ RequestFails(c)
             \/ VisibilityTimeout(c) \/ Retention(c)
      PROVE  UNCHANGED <<status, linked, index>>
  BY <1>7 DEF PutFile, SendMessage, Create, Answer, RequestFails, VisibilityTimeout, Retention
<1>8. ASSUME NEW w \in Workers, \/ Poll(w) \/ Parse(w) \/ ParserUnavailable(w)
                                \/ MarkStatus(w) \/ DeleteMessage(w)
                                \/ Abandon(w) \/ Crash(w) \/ Restart(w)
                                \/ \E d \in batch[w] : Skip(w, d)
      PROVE  UNCHANGED <<status, linked, index>>
  BY <1>8 DEF Poll, Parse, ParserUnavailable, MarkStatus, DeleteMessage, Abandon, Crash,
              Restart, Skip
<1>9. UNCHANGED vars => UNCHANGED <<status, linked, index>>
  BY DEF vars
<1>10. UNCHANGED <<status, linked, index>> => UNCHANGED feedVars
  BY RowsStay DEF feedVars
<1> QED
  BY <1>1, <1>2, <1>3, <1>4, <1>5, <1>6, <1>7, <1>8, <1>9, <1>10
  DEF Next, ApiStep, Progress, Trouble

\* Whatever happens in the pipeline, rankings see candidates stored, parsed and
\* indexed, for any number of workers, crashes and redeliveries.
THEOREM IngestionFeedsRankings == Spec => FeedsRankings
<1>1. Init => LinkedHasRow
  BY DEF Init, LinkedHasRow
<1>2. IInv /\ LinkedHasRow /\ [Next]_vars => LinkedHasRow'
  BY LinkedStep
<1>3. IInv /\ LinkedHasRow /\ [Next]_vars =>
        [\E c \in Candidates : Rankings!Store(c) \/ Rankings!Parse(c) \/ Rankings!Index(c)]_
          <<parsedRow, index>>
  BY StepFeeds DEF Fed, feedVars
<1> QED
  BY <1>1, <1>2, <1>3, Invariance, PTL DEF Spec, FeedsRankings
=============================================================================
