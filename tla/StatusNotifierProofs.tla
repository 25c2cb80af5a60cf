------------------------ MODULE StatusNotifierProofs ------------------------
(***************************************************************************)
(* Proofs about StatusNotifier, for any batch size and number of retries.  *)
(*                                                                         *)
(* The composition implements ResumeIngestion, so that everything proved   *)
(* of the pipeline holds of it.  StreamInv ties the records to the         *)
(* deliveries: each delivery writes one record at most, and its worker has *)
(* nothing left to do but the deletion.  ToldInv counts the notices, and   *)
(* ReadInv says how far the handler has come.                              *)
(***************************************************************************)
EXTENDS StatusNotifier, ResumeIngestionProofs, FiniteSetTheorems, SequenceTheorems

StreamInv ==
  /\ \A i, j \in DOMAIN stream : stream[i] = stream[j] => i = j
  /\ \A i \in DOMAIN stream :
       /\ stream[i].cand \in reported
       /\ stream[i].receipt <= receives[stream[i].cand]
       /\ \A w \in Workers : Holds(w, stream[i]) => job[w] = stream[i] /\ pc[w] = "delete"
  /\ \A c \in Candidates : resume[c] # "corrupt" => receives[c] <= faults + 1

ToldInv ==
  \A i \in DOMAIN told :
    /\ told[i] <= retries + 1
    /\ i >= (IF upto = 0 THEN position ELSE cursor) => told[i] <= retries

\* The records of the batch in progress that the handler has passed.
ReadInv ==
  upto # 0 => \A i \in DOMAIN told : position <= i /\ i < cursor => told[i] > 0

(***************************************************************************)
(* The composition and its parts.                                          *)
(***************************************************************************)

\* The notifier and its stream disturb nothing of the pipeline.
THEOREM NotifierImplementsIngestion == NotifierSpec => Spec
<1>1. NotifierInit => Init
  BY DEF NotifierInit
<1>2. [NotifierNext]_allVars => [Next]_vars
  BY DEF NotifierNext, allVars, Ingest, CreateMapping, Lambda, Invoke, Take, Notify,
         Return, InvocationFails
<1>3. QED
  BY <1>1, <1>2, PTL DEF NotifierSpec, Spec

\* Only MarkStatus appends to the stream, and it appends the delivery in hand.
LEMMA OnlyMarksAreStreamed ==
  ASSUME TypeOK, WorkerInv, Next, NEW w \in Workers, pc[w] = "mark", pc'[w] = "delete"
  PROVE  MarkStatus(w)
<1> USE DEF TypeOK, queueVars, apiVars, rowVars, workerVars, Goto, NextMessage
<1>1. ASSUME NEW c \in Candidates, ApiStep(c) \/ VisibilityTimeout(c) \/ Retention(c)
      PROVE  FALSE
  BY <1>1 DEF ApiStep, VisibilityTimeout, Retention, Upload, PutFile, SendMessage, Create,
              UpsertCreated, CommitCreated, Answer, RequestFails
<1>2. ASSUME NEW v \in Workers, Trouble(v) \/ Restart(v) PROVE FALSE
  BY <1>2 DEF Trouble, Restart, Skip, Abandon, Crash
<1>3. ASSUME NEW v \in Workers, Progress(v) PROVE MarkStatus(w)
  BY <1>3 DEF Progress, Poll, Start, Parse, RejectContent, ParserUnavailable, Upsert,
              CommitIndexed, MarkStatus, DeleteMessage
<1>4. QED
  BY <1>1, <1>2, <1>3 DEF Next

\* A step of the pipeline either leaves the stream alone or appends a record.
LEMMA IngestCases ==
  ASSUME TypeOK, WorkerInv, Ingest
  PROVE  \/ UNCHANGED tableVars
         \/ \E w \in Workers :
              /\ MarkStatus(w)
              /\ stream' = Append(stream, job[w]) /\ told' = Append(told, 0)
BY OnlyMarksAreStreamed DEF Ingest

\* The batch in progress lies within the stream, which only grows.
LEMMA NotifierTypeStep ==
  ASSUME NotifierTypeOK, TypeOK, WorkerInv, [NotifierNext]_allVars
  PROVE  NotifierTypeOK'
<1> USE NotifierAssumption DEF NotifierTypeOK, tableVars, lambdaVars
<1>1. CASE Ingest
  <2>1. CASE UNCHANGED tableVars
    BY <1>1, <2>1 DEF Ingest
  <2>2. ASSUME NEW w \in Workers, MarkStatus(w),
               stream' = Append(stream, job[w]), told' = Append(told, 0)
        PROVE  NotifierTypeOK'
    <3>1. job[w] \in Deliveries
      BY <2>2 DEF MarkStatus, WorkerInv, Working
    <3>2. /\ stream' \in Seq(Deliveries) /\ Len(stream') = Len(stream) + 1
          /\ told' \in Seq(Nat) /\ Len(told') = Len(told) + 1
      BY <2>2, <3>1, AppendProperties
    <3>3. UNCHANGED lambdaVars
      BY <1>1 DEF Ingest
    <3>4. Len(stream) \in Nat
      BY LenProperties
    <3>5. QED
      BY <3>2, <3>3, <3>4
  <2>3. QED
    BY <1>1, <2>1, <2>2, IngestCases
<1>2. CASE CreateMapping
  BY <1>2, LenProperties DEF CreateMapping
<1>3. ASSUME NEW n \in 1..BatchRecords, Take(n) PROVE NotifierTypeOK'
  BY <1>3, LenProperties DEF Take
<1>4. CASE Notify
  <2>1. cursor \in DOMAIN told
    BY <1>4, LenProperties DEF Notify
  <2>2. told[cursor] + 1 \in Nat /\ cursor \in 1..Len(told)
    BY <2>1, LenProperties
  <2>3. told' = [told EXCEPT ![cursor] = told[cursor] + 1]
    BY <1>4 DEF Notify
  <2>4. told' \in Seq(Nat) /\ Len(told') = Len(told)
    BY <2>2, <2>3, ExceptSeq
  <2>5. QED
    BY <1>4, <2>4, LenProperties DEF Notify
<1>5. CASE Return
  BY <1>5, LenProperties DEF Return
<1>6. CASE InvocationFails
  BY <1>6, LenProperties DEF InvocationFails
<1>7. CASE UNCHANGED allVars
  BY <1>7 DEF allVars
<1>8. QED
  BY <1>1, <1>2, <1>3, <1>4, <1>5, <1>6, <1>7 DEF NotifierNext, Lambda, Invoke

\* The pipeline takes nothing back of what a record rests on, and gives no worker a
\* delivery that has written one.
LEMMA PipelineKeepsStream ==
  ASSUME TypeOK, WorkerInv, UploadInv, ReceiveInv, OverlapInv, StreamInv,
         \A i \in DOMAIN stream : stream[i] \in Deliveries, UNCHANGED stream, [Next]_vars
  PROVE  StreamInv'
<1> USE IngestionAssumption, MaxReceiveCountAssumption DEF TypeOK,
          QueueTypeOK, queueVars, apiVars, rowVars, workerVars, Deliveries,
          Working, Live, Found, Rows, WorkerInv, UploadInv,
          ReceiveInv, OverlapInv, StreamInv, Holds
<1> \A i \in DOMAIN stream : stream[i] # NoJob
  OBVIOUS
<1>1. ASSUME NEW c \in Candidates, Upload(c) PROVE StreamInv'
  BY <1>1 DEF Upload
<1>2. ASSUME NEW c \in Candidates, PutFile(c) PROVE StreamInv'
  BY <1>2 DEF PutFile
<1>3. ASSUME NEW c \in Candidates, SendMessage(c) PROVE StreamInv'
  BY <1>3 DEF SendMessage, Send
<1>4. ASSUME NEW c \in Candidates, Create(c) PROVE StreamInv'
  BY <1>4 DEF Create
<1>5. ASSUME NEW c \in Candidates, UpsertCreated(c) PROVE StreamInv'
  BY <1>5 DEF UpsertCreated
<1>6. ASSUME NEW c \in Candidates, CommitCreated(c) PROVE StreamInv'
  BY <1>6 DEF CommitCreated
<1>7. ASSUME NEW c \in Candidates, Answer(c) PROVE StreamInv'
  BY <1>7 DEF Answer
<1>8. ASSUME NEW c \in Candidates, RequestFails(c) PROVE StreamInv'
  BY <1>8 DEF RequestFails
<1>9. ASSUME NEW c \in Candidates, VisibilityTimeout(c) PROVE StreamInv'
  BY <1>9 DEF VisibilityTimeout, Reappear, Fault
<1>10. ASSUME NEW c \in Candidates, Retention(c) PROVE StreamInv'
  BY <1>10 DEF Retention, Expire, Fault
<1>11. ASSUME NEW w \in Workers, Poll(w) PROVE StreamInv'
  <2>1. PICK S \in SUBSET Visible :
          batch' = [batch EXCEPT ![w] = Delivered(S)] /\ Receive(S)
    BY <1>11 DEF Poll
  <2>2. batch[w] = {} /\ UNCHANGED <<faults, resume, reported, pc, job>>
    BY <1>11 DEF Poll
  <2>3. ASSUME NEW c \in Candidates
        PROVE  /\ receives'[c] \in {receives[c], receives[c] + 1}
               /\ receives'[c] # receives[c] => queue[c] = "visible"
    BY <2>1 DEF Receive, Visible
  \* A new delivery has a receipt above those of the records.
  <2>4. ASSUME NEW i \in DOMAIN stream, NEW v \in Workers,
               stream[i] \in batch'[v] \cup {job'[v]}
        PROVE  Holds(v, stream[i])
    <3>1. stream[i].receipt # receives[stream[i].cand] + 1
      OBVIOUS
    <3>2. stream[i] \notin Delivered(S)
      BY <3>1 DEF Delivered
    <3>3. QED
      BY <2>1, <2>2, <2>4, <3>2
  <2>5. \A c \in Candidates : resume[c] # "corrupt" => receives'[c] <= faults + 1
    BY <2>3
  <2>6. ASSUME NEW i \in DOMAIN stream
        PROVE  stream[i].receipt <= receives'[stream[i].cand]
    <3>1. receives[stream[i].cand] \in Nat /\ stream[i].receipt \in Nat
      OBVIOUS
    <3>2. stream[i].receipt <= receives[stream[i].cand] /\ stream[i].cand \in Candidates
      OBVIOUS
    <3>3. QED
      BY ONLY <2>3, <3>1, <3>2
  <2>7. QED
    BY <2>2, <2>4, <2>5, <2>6
<1>12. ASSUME NEW w \in Workers, Parse(w) PROVE StreamInv'
  BY <1>12 DEF Parse, Goto
<1>13. ASSUME NEW w \in Workers, RejectContent(w) PROVE StreamInv'
  BY <1>13 DEF RejectContent, Goto, Fault
<1>14. ASSUME NEW w \in Workers, ParserUnavailable(w) PROVE StreamInv'
  BY <1>14 DEF ParserUnavailable, NextMessage
<1>15. ASSUME NEW w \in Workers, Upsert(w) PROVE StreamInv'
  BY <1>15 DEF Upsert, Goto
<1>16. ASSUME NEW w \in Workers, CommitIndexed(w) PROVE StreamInv'
  BY <1>16 DEF CommitIndexed, Goto
<1>17. ASSUME NEW w \in Workers, MarkStatus(w) PROVE StreamInv'
  BY <1>17 DEF MarkStatus, Goto
<1>18. ASSUME NEW w \in Workers, DeleteMessage(w) PROVE StreamInv'
  BY <1>18 DEF DeleteMessage, Delete, Removes, NextMessage
<1>19. ASSUME NEW w \in Workers, Abandon(w) PROVE StreamInv'
  BY <1>19 DEF Abandon, NextMessage, Fault
<1>20. ASSUME NEW w \in Workers, Crash(w) PROVE StreamInv'
  BY <1>20 DEF Crash, Fault
<1>21. ASSUME NEW w \in Workers, Restart(w) PROVE StreamInv'
  BY <1>21 DEF Restart, Goto
<1>22. ASSUME NEW w \in Workers, NEW d \in batch[w], Start(w, d) PROVE StreamInv'
  BY <1>22 DEF Start
<1>23. ASSUME NEW w \in Workers, NEW d \in batch[w], Skip(w, d) PROVE StreamInv'
  BY <1>23 DEF Skip, Fault
<1>24. CASE UNCHANGED vars
  BY <1>24 DEF vars
<1>25. QED
  BY <1>1, <1>2, <1>3, <1>4, <1>5, <1>6, <1>7, <1>8, <1>9, <1>10, <1>11,
     <1>12, <1>13, <1>14, <1>15, <1>16, <1>17, <1>18, <1>19, <1>20, <1>21,
     <1>22, <1>23, <1>24
  DEF Next, ApiStep, Progress, Trouble

\* A record is appended by a delivery that has written none.
LEMMA StreamStep ==
  ASSUME IInv, OverlapInv, NotifierTypeOK, StreamInv, [NotifierNext]_allVars
  PROVE  StreamInv'
<1> USE DEF IInv, tableVars, lambdaVars
<1> \A i \in DOMAIN stream : stream[i] \in Deliveries
  BY LenProperties DEF NotifierTypeOK
<1> stream \in Seq(Deliveries)
  BY DEF NotifierTypeOK
<1>1. CASE Ingest /\ UNCHANGED tableVars
  BY <1>1, PipelineKeepsStream DEF Ingest
<1>2. ASSUME NEW w \in Workers, Ingest, MarkStatus(w), stream' = Append(stream, job[w])
      PROVE  StreamInv'
  <2>1. /\ pc[w] = "mark" /\ pc' = [pc EXCEPT ![w] = "delete"]
        /\ reported' = reported \cup {job[w].cand}
        /\ UNCHANGED <<job, batch, receives, resume, faults>>
    BY <1>2 DEF MarkStatus, Goto, queueVars, apiVars
  <2>2. job[w] \in Deliveries /\ Holds(w, job[w])
    BY <2>1 DEF WorkerInv, Working, Holds
  <2>3. Len(stream) \in Nat /\ DOMAIN stream = 1..Len(stream)
    BY LenProperties
  <2>4. /\ DOMAIN stream' = 1..(Len(stream) + 1)
        /\ \A i \in 1..Len(stream) : stream'[i] = stream[i]
        /\ stream'[Len(stream) + 1] = job[w]
    BY <1>2, <2>2, AppendProperties, LenProperties
  <2>5. ASSUME NEW i \in 1..Len(stream) PROVE stream[i] # job[w] /\ stream[i] \in Deliveries
    BY <2>1, <2>2, <2>3 DEF StreamInv
  <2>6. \A i, j \in DOMAIN stream' : stream'[i] = stream'[j] => i = j
    BY <2>3, <2>4, <2>5 DEF StreamInv
  <2>7. ASSUME NEW i \in DOMAIN stream'
        PROVE  /\ stream'[i].cand \in reported'
               /\ stream'[i].receipt <= receives'[stream'[i].cand]
               /\ \A v \in Workers :
                    stream'[i] \in batch'[v] \cup {job'[v]} =>
                      job'[v] = stream'[i] /\ pc'[v] = "delete"
    <3>1. CASE i \in 1..Len(stream)
      <4>1. stream'[i] = stream[i] /\ stream[i] # job[w] /\ i \in DOMAIN stream
        BY <2>3, <2>4, <2>5, <3>1
      <4>2. QED
        BY <2>1, <4>1 DEF StreamInv, Holds
    <3>2. CASE i = Len(stream) + 1
      <4>1. job[w].receipt <= receives[job[w].cand]
        BY <2>2 DEF OverlapInv
      <4>2. ASSUME NEW v \in Workers, Holds(v, job[w]) PROVE v = w
        BY <2>2, <4>2 DEF OverlapInv
      <4>3. pc'[w] = "delete" /\ stream'[i] = job[w]
        BY <2>1, <2>4, <3>2 DEF TypeOK
      <4>4. QED
        BY <2>1, <2>2, <4>1, <4>2, <4>3 DEF Holds
    <3>3. QED
      BY <2>3, <2>4, <3>1, <3>2
  <2>8. QED
    BY <2>1, <2>6, <2>7 DEF StreamInv, Holds
<1>3. CASE (CreateMapping \/ Lambda \/ InvocationFails) \/ UNCHANGED allVars
  <2>1. UNCHANGED <<vars, stream>>
    BY <1>3 DEF CreateMapping, Lambda, Invoke, Take, Notify, Return, InvocationFails, allVars
  <2>2. QED
    BY <2>1, PipelineKeepsStream
<1>4. QED
  BY <1>1, <1>2, <1>3, IngestCases DEF NotifierNext

\* A record is told of once more only in the batch in progress, and that batch is
\* begun again only by a failure.
LEMMA ToldStep ==
  ASSUME IInv, NotifierTypeOK, ToldInv, [NotifierNext]_allVars
  PROVE  ToldInv'
<1> USE DEF IInv, ToldInv, tableVars, lambdaVars
<1>1. /\ told \in Seq(Nat) /\ Len(told) \in Nat /\ DOMAIN told = 1..Len(told)
      /\ position \in Nat /\ cursor \in Nat /\ upto \in Nat /\ retries \in Nat
      /\ \A i \in DOMAIN told : told[i] \in Nat
  BY LenProperties, NotifierAssumption DEF NotifierTypeOK
<1>2. CASE Ingest /\ UNCHANGED tableVars
  BY <1>2 DEF Ingest
<1>3. ASSUME Ingest, told' = Append(told, 0) PROVE ToldInv'
  <2>1. /\ DOMAIN told' = 1..(Len(told) + 1)
        /\ \A i \in 1..Len(told) : told'[i] = told[i]
        /\ told'[Len(told) + 1] = 0
    BY <1>1, <1>3, AppendProperties, LenProperties
  <2>2. UNCHANGED lambdaVars
    BY <1>3 DEF Ingest
  <2>3. ASSUME NEW i \in DOMAIN told'
        PROVE  told'[i] = 0 \/ (i \in DOMAIN told /\ told'[i] = told[i])
    BY <1>1, <2>1
  <2>4. QED
    BY <1>1, <2>2, <2>3
<1>4. CASE CreateMapping
  BY <1>1, <1>4 DEF CreateMapping, NotifierTypeOK
<1>5. ASSUME NEW n \in 1..BatchRecords, Take(n) PROVE ToldInv'
  <2>1. upto = 0 /\ upto' \in Nat \ {0} /\ cursor' = position /\ UNCHANGED <<told, retries>>
    BY <1>1, <1>5, NotifierAssumption DEF Take
  <2>2. QED
    BY <2>1
<1>6. CASE Notify
  <2>1. /\ upto # 0 /\ cursor' = cursor + 1 /\ UNCHANGED <<upto, position, retries>>
        /\ told' = [told EXCEPT ![cursor] = @ + 1]
    BY <1>6 DEF Notify
  <2>2. DOMAIN told' = DOMAIN told
    BY <2>1
  <2>3. ASSUME NEW i \in DOMAIN told'
        PROVE  /\ told'[i] <= retries + 1
               /\ i >= cursor + 1 => told'[i] <= retries
    <3>1. i \in Nat /\ told[i] \in Nat /\ (i >= cursor => told[i] <= retries) /\ told[i] <= retries + 1
      BY <1>1, <2>1, <2>2
    <3>2. CASE i = cursor
      <4>1. told'[i] = told[i] + 1
        BY <2>1, <2>2, <3>2
      <4>2. QED
        BY <1>1, <3>1, <3>2, <4>1
    <3>3. CASE i # cursor
      <4>1. told'[i] = told[i]
        BY <2>1, <2>2, <3>3
      <4>2. QED
        BY <1>1, <3>1, <4>1
    <3>4. QED BY <3>2, <3>3
  <2>4. QED
    BY <2>1, <2>3
<1>7. CASE Return
  BY <1>1, <1>7 DEF Return
<1>8. CASE InvocationFails
  BY <1>1, <1>8 DEF InvocationFails
<1>9. CASE UNCHANGED allVars
  BY <1>9 DEF allVars
<1>10. QED
  BY <1>2, <1>3, <1>4, <1>5, <1>6, <1>7, <1>8, <1>9, IngestCases
  DEF NotifierNext, Lambda, Invoke

\* The handler passes a record by telling of it, and no notice is taken back.
LEMMA ReadStep ==
  ASSUME IInv, NotifierTypeOK, ReadInv, [NotifierNext]_allVars
  PROVE  ReadInv'
<1> USE DEF IInv, ReadInv, tableVars, lambdaVars
<1>1. /\ Len(told) \in Nat /\ DOMAIN told = 1..Len(told)
      /\ position \in Nat /\ cursor \in Nat /\ upto \in Nat
      /\ \A i \in DOMAIN told : told[i] \in Nat
      /\ upto # 0 => cursor <= Len(told) + 1
  BY LenProperties, NotifierAssumption DEF NotifierTypeOK
<1>2. CASE Ingest /\ UNCHANGED tableVars
  BY <1>2 DEF Ingest
<1>3. ASSUME Ingest, told' = Append(told, 0) PROVE ReadInv'
  <2>1. /\ told \in Seq(Nat) /\ DOMAIN told' = 1..(Len(told) + 1)
        /\ \A i \in 1..Len(told) : told'[i] = told[i]
    BY <1>1, <1>3, AppendProperties, LenProperties DEF NotifierTypeOK
  <2>2. UNCHANGED lambdaVars
    BY <1>3 DEF Ingest
  <2>3. QED
    BY <1>1, <2>1, <2>2
<1>4. CASE CreateMapping
  BY <1>1, <1>4 DEF CreateMapping, NotifierTypeOK
<1>5. ASSUME NEW n \in 1..BatchRecords, Take(n) PROVE ReadInv'
  BY <1>1, <1>5 DEF Take
<1>6. CASE Notify
  <2>1. /\ upto # 0 /\ cursor' = cursor + 1 /\ UNCHANGED <<upto, position>>
        /\ told' = [told EXCEPT ![cursor] = @ + 1]
    BY <1>6 DEF Notify
  <2>2. ASSUME NEW i \in DOMAIN told', position <= i, i < cursor + 1 PROVE told'[i] > 0
    <3>1. i \in DOMAIN told /\ i \in Nat /\ told[i] \in Nat
      BY <1>1, <2>1, <2>2
    <3>2. CASE i = cursor
      <4>1. told'[i] = told[i] + 1
        BY <2>1, <3>1, <3>2
      <4>2. QED
        BY <3>1, <4>1
    <3>3. CASE i # cursor
      <4>1. told'[i] = told[i] /\ i < cursor
        BY <1>1, <2>1, <2>2, <3>1, <3>3
      <4>2. QED
        BY <2>1, <2>2, <3>1, <4>1
    <3>4. QED
      BY <3>2, <3>3
  <2>3. QED
    BY <2>1, <2>2
<1>7. CASE Return
  BY <1>7 DEF Return
<1>8. CASE InvocationFails
  BY <1>1, <1>8 DEF InvocationFails
<1>9. CASE UNCHANGED allVars
  BY <1>9 DEF allVars
<1>10. QED
  BY <1>2, <1>3, <1>4, <1>5, <1>6, <1>7, <1>8, <1>9, IngestCases
  DEF NotifierNext, Lambda, Invoke

(***************************************************************************)
(* The theorems.                                                           *)
(***************************************************************************)

\* The types hold of every behaviour of the composition.
THEOREM NotifierTypeCorrectness == NotifierSpec => []NotifierTypeOK
<1>1. NotifierInit => NotifierTypeOK
  BY NotifierAssumption DEF NotifierInit, NotifierTypeOK
<1>2. IInv /\ NotifierTypeOK /\ [NotifierNext]_allVars => NotifierTypeOK'
  BY NotifierTypeStep DEF IInv
<1>3. QED
  BY <1>1, <1>2, NotifierImplementsIngestion, Invariance, PTL DEF NotifierSpec

\* The records of the stream and the deliveries that wrote them.
LEMMA StreamInvariance == NotifierSpec => []StreamInv
<1>1. NotifierInit => OverlapInv /\ StreamInv
  BY IngestionAssumption
  DEF NotifierInit, Init, QueueInit, OverlapInv, StreamInv, Holds, Working, Deliveries
<1>2. IInv /\ OverlapInv /\ [Next]_vars => OverlapInv'
  BY OverlapStep DEF IInv
<1>3. IInv /\ OverlapInv /\ NotifierTypeOK /\ StreamInv /\ [NotifierNext]_allVars => StreamInv'
  BY StreamStep
<1>4. NotifierSpec => [][Next]_vars
  BY NotifierImplementsIngestion, PTL DEF Spec
<1>5. QED
  BY <1>1, <1>2, <1>3, <1>4, NotifierImplementsIngestion, NotifierTypeCorrectness, Invariance,
     PTL DEF NotifierSpec

\* Nobody is told of a candidate that cannot be found, for any number of workers,
\* batches and failures.
THEOREM NotifiedAreSearchable == NotifierSpec => []NotifiedIsSearchable
<1>1. IInv /\ NotifierTypeOK /\ StreamInv => NotifiedIsSearchable
  <2> SUFFICES ASSUME IInv, NotifierTypeOK, StreamInv PROVE NotifiedIsSearchable
    OBVIOUS
  <2>1. DOMAIN told = DOMAIN stream
    BY LenProperties DEF NotifierTypeOK
  <2>2. QED
    BY <2>1 DEF NotifiedIsSearchable, Notified, StreamInv, IInv, IndexInv, ReportedIsLinked,
                ProcessedIsSearchable
<1>2. QED
  BY <1>1, NotifierImplementsIngestion, NotifierTypeCorrectness, StreamInvariance, Invariance, PTL

\* A candidate has at most one record more than there were faults: its records carry
\* different receipts, and each receipt but one has cost a fault.
LEMMA RecordsArePaidFor ==
  ASSUME IInv, DisputeInv, NotifierTypeOK, StreamInv, NEW c \in Candidates
  PROVE  Cardinality({i \in DOMAIN stream : stream[i].cand = c}) <= faults + 1
<1> DEFINE R == {i \in DOMAIN stream : stream[i].cand = c}
           f == [i \in R |-> stream[i].receipt]
<1>1. /\ faults \in Nat
      /\ \A i \in DOMAIN stream : stream[i] \in Deliveries
      /\ receives[c] \in Nat
  BY LenProperties, IngestionAssumption, MaxReceiveCountAssumption
  DEF NotifierTypeOK, IInv, TypeOK, QueueTypeOK
<1>2. CASE R = {}
  <2>1. Cardinality(R) = 0
    BY <1>2, FS_EmptySet
  <2>2. QED
    BY <1>1, <2>1
<1>3. CASE R # {}
  <2>1. c \in reported
    BY <1>3 DEF StreamInv
  <2>2. receives[c] <= faults + 1
    BY <2>1 DEF StreamInv, DisputeInv
  <2>3. ASSUME NEW i \in R PROVE f[i] \in 1..(faults + 1)
    <3>1. stream[i].receipt \in Nat \ {0} /\ stream[i].receipt <= receives[c]
      BY <1>1, MaxReceiveCountAssumption DEF Deliveries, StreamInv
    <3>2. QED
      BY <1>1, <2>2, <3>1
  <2>4. ASSUME NEW i \in R, NEW j \in R, f[i] = f[j] PROVE i = j
    <3>1. stream[i] = stream[j]
      BY <1>1, <2>4 DEF Deliveries
    <3>2. QED
      BY <3>1 DEF StreamInv
  <2>5. f \in Injection(R, 1..(faults + 1))
    BY <2>3, <2>4 DEF Injection, IsInjective
  <2>6. IsFiniteSet(1..(faults + 1)) /\ Cardinality(1..(faults + 1)) = faults + 1
    BY <1>1, FS_Interval
  <2>7. QED
    BY <2>5, <2>6, FS_Injection
<1>4. QED
  BY <1>2, <1>3

\* A recruiter is told of a candidate more than once only for faults of the pipeline
\* and failed invocations, and no more often than these explain.
THEOREM RepeatedNoticesArePaidFor == NotifierSpec => []RepeatedNoticeIsPaidFor
<1>1. NotifierInit => ToldInv /\ OverlapInv /\ DisputeInv
  BY IngestionAssumption
  DEF NotifierInit, Init, QueueInit, ToldInv, OverlapInv, DisputeInv, Holds, Working, Deliveries
<1>2. IInv /\ NotifierTypeOK /\ ToldInv /\ [NotifierNext]_allVars => ToldInv'
  BY ToldStep
<1>3. IInv /\ OverlapInv /\ DisputeInv /\ [Next]_vars => (OverlapInv /\ DisputeInv)'
  BY OverlapStep, DisputeStep DEF IInv
<1>4. IInv /\ DisputeInv /\ NotifierTypeOK /\ StreamInv /\ ToldInv => RepeatedNoticeIsPaidFor
  BY RecordsArePaidFor DEF ToldInv, RepeatedNoticeIsPaidFor
<1>5. NotifierSpec => [][Next]_vars
  BY NotifierImplementsIngestion, PTL DEF Spec
<1>6. QED
  BY <1>1, <1>2, <1>3, <1>4, <1>5, NotifierImplementsIngestion, NotifierTypeCorrectness,
     StreamInvariance, Invariance, PTL DEF NotifierSpec

\* The mapping leaves a record behind only when the recruiter was told of it, however
\* often the invocations of its batch fail.
THEOREM NoRecordsAreSkipped == NotifierSpec => NoRecordIsSkipped
<1> DEFINE Kept ==
             \A i \in DOMAIN told : 0 < position /\ position <= i /\ i < position' => told[i] > 0
<1>1. NotifierInit => ReadInv
  BY DEF NotifierInit, ReadInv
<1>2. IInv /\ NotifierTypeOK /\ ReadInv /\ [NotifierNext]_allVars => ReadInv'
  BY ReadStep
<1>3. NotifierTypeOK /\ ReadInv /\ [NotifierNext]_allVars => [Kept]_allVars
  <2> SUFFICES ASSUME NotifierTypeOK, ReadInv, NotifierNext PROVE Kept
    OBVIOUS
  <2>1. position \in Nat /\ \A i \in DOMAIN told : i \in Nat
    BY LenProperties DEF NotifierTypeOK
  <2>2. CASE position' = position
    BY <2>1, <2>2
  <2>3. CASE position = 0
    BY <2>3
  <2>4. CASE Return
    BY <2>4 DEF Return, ReadInv
  <2>5. QED
    BY <2>2, <2>3, <2>4 DEF NotifierNext, Lambda, Invoke, Ingest, CreateMapping, Take, Notify,
                            InvocationFails, lambdaVars
<1>4. QED
  BY <1>1, <1>2, <1>3, NotifierImplementsIngestion, NotifierTypeCorrectness, Invariance,
     PTL DEF NotifierSpec, NoRecordIsSkipped
=============================================================================
