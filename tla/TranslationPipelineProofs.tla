---------------------- MODULE TranslationPipelineProofs ----------------------
(***************************************************************************)
(* Proofs about TranslationPipeline for every value of its constants.      *)
(***************************************************************************)
EXTENDS TranslationPipeline, FiniteSums, TLAPS

--------------------------------------------------------------------------------
(* The effect of a step on the table, which is all the row properties need *)

\* A step leaves the rows alone, updates the status of one row under the index,
\* inserts a row for a segment without an active job, or deletes the rows of
\* some segments.
TableStep ==
    \/ UNCHANGED <<status, segmentOf>>
    \/ \E j \in Jobs, s \in Status : UpdateStatus(j, s) /\ UNCHANGED segmentOf
    \/ \E s \in Segments : ActiveJobs(s) = {} /\ InsertJob(s)
    \/ \E S \in SUBSET Segments :
         /\ status' = [j \in Jobs |-> IF segmentOf[j] \in S THEN "absent" ELSE status[j]]
         /\ UNCHANGED segmentOf

\* The job of a processed entry is a job.
LEMMA JobOfType ==
    ASSUME TypeOK, NEW w \in Workers, pc[w] \in Processing
    PROVE  JobOf(w) \in Jobs /\ cur[w] \in Entries
<1>1. cur[w] \in Entries
  BY DEF TypeOK, Entries
<1>2. \A i \in Entries : stream[i] \in Jobs
  BY DEF TypeOK, Entries
<1>3. QED
  BY <1>1, <1>2 DEF JobOf

LEMMA NextIsTableStep == TypeOK /\ [Next]_vars => TableStep
<1> SUFFICES ASSUME TypeOK, [Next]_vars PROVE TableStep
  OBVIOUS
<1>1. CASE Api
  <2>1. ASSUME NEW s \in segments, CreateJob(s) PROVE TableStep
    BY <2>1 DEF CreateJob, TableStep, TypeOK
  <2>2. ASSUME NEW j \in Jobs, RetryInsert(j) PROVE TableStep
    BY <2>2 DEF RetryInsert, TableStep, TypeOK
  <2>3. ASSUME NEW j \in Jobs, RetryCheck(j) \/ RetryRefused(j) PROVE TableStep
    BY <2>3 DEF RetryCheck, RetryRefused, TableStep, dbVars
  <2>4. ASSUME NEW S \in SUBSET segments, DeleteSegments(S) PROVE TableStep
    BY <2>4 DEF DeleteSegments, TableStep, TypeOK
  <2>5. QED
    BY <1>1, <2>1, <2>2, <2>3, <2>4 DEF Api
<1>2. ASSUME NEW w \in Workers, WorkerStep(w) PROVE TableStep
  <2>1. CASE DispatchSelect(w) \/ Publish(w) \/ ReadNew(w) \/ TakeMessage(w) \/ RoundDone(w)
             \/ LoadRows(w) \/ Translate(w) \/ RequestInvalid(w) \/ Ack(w)
             \/ \E S \in SUBSET pel : Reclaim(w, S)
    BY <2>1 DEF DispatchSelect, Publish, ReadNew, TakeMessage, RoundDone, LoadRows, Translate,
       RequestInvalid,
                Ack, Reclaim, dbVars, TableStep
  <2>2. CASE DispatchCommit(w)
    <3>1. PICK j \in Jobs : UpdateStatus(j, "queued")
      BY <2>2 DEF DispatchCommit, First, TypeOK
    <3>2. QED
      BY <2>2, <3>1 DEF DispatchCommit, TableStep, Status, Active
  <2>3. CASE DispatchCommitRefused(w) \/ SaveRefused(w) \/ RecordFailureRefused(w)
    BY <2>3 DEF DispatchCommitRefused, SaveRefused, RecordFailureRefused, UpdateRefused, TableStep
  <2>4. CASE MarkQueued(w) \/ MarkRunning(w) \/ Abandon(w)
    <3>1. JobOf(w) \in Jobs
      BY <2>4, JobOfType DEF MarkQueued, MarkRunning, Abandon, Processing
    <3>2. PICK s \in Status : MarkJobState(w, s)
      BY <2>4 DEF MarkQueued, MarkRunning, Abandon, Status, Active, Settled
    <3>3. QED
      BY <3>1, <3>2 DEF MarkJobState, UpdateRefused, TableStep
  <2>5. CASE SaveResult(w) \/ RecordFailure(w)
    <3>1. JobOf(w) \in Jobs
      BY <2>5, JobOfType DEF SaveResult, RecordFailure, Processing
    <3>2. QED
      BY <2>5, <3>1 DEF SaveResult, RecordFailure, TableStep, Status, Settled
  <2>6. QED
    BY <1>2, <2>1, <2>2, <2>3, <2>4, <2>5 DEF WorkerStep
<1>3. ASSUME NEW w \in Workers, WorkerFault(w) PROVE TableStep
  BY <1>3 DEF WorkerFault, PublishFails, DispatchCommitFails, ReadFails, DatabaseFails,
              AckFails, Crash, dbVars, TableStep
<1>4. CASE UNCHANGED vars
  BY <1>4 DEF vars, dbVars, TableStep
<1>5. QED
  BY <1>1, <1>2, <1>3, <1>4 DEF Next

--------------------------------------------------------------------------------
(* Type correctness *)

LEMMA TypeInit == Init => TypeOK
<1> SUFFICES ASSUME Init PROVE TypeOK
  OBVIOUS
<1>1. stream \in Seq(Jobs) /\ Len(stream) = 0
  BY DEF Init
<1>2. lastJob \in 0..MaxJobs /\ faults \in 0..MaxFaults /\ delivered \in 0..Len(stream)
  BY <1>1, ConstantsAssumption DEF Init
<1>3. \A j \in Jobs : IF j > lastJob THEN status[j] = "absent" ELSE segmentOf[j] \in Segments
  BY DEF Init, Jobs
<1>4. /\ status \in [Jobs -> Status]
      /\ segmentOf \in [Jobs -> Segments \cup {NoSegment}]
      /\ calls \in [Jobs -> Nat]
  BY DEF Init, Status
<1>5. /\ pc \in [Workers -> Labels]
      /\ \A w \in Workers : pc[w] \in Processing => cur[w] # 0
  BY DEF Init, Labels, Processing
<1>6. /\ batch \in [Workers -> SUBSET Jobs]
      /\ locks \in [Workers -> SUBSET Jobs]
      /\ inbox \in [Workers -> SUBSET (1..delivered)]
      /\ cur \in [Workers -> 0..delivered]
  BY DEF Init
<1>7. QED
  BY <1>1, <1>2, <1>3, <1>4, <1>5, <1>6 DEF Init, TypeOK

LEMMA TypeApi == TypeOK /\ Api => TypeOK'
<1> SUFFICES ASSUME TypeOK, Api PROVE TypeOK'
  OBVIOUS
<1> USE ConstantsAssumption
<1>1. ASSUME NEW s \in Segments, InsertJob(s),
             segments' = segments, retrying' \subseteq Jobs,
             UNCHANGED <<streamVars, workerVars, history>>
      PROVE  TypeOK'
  <2>1. lastJob + 1 \in Jobs /\ lastJob' = lastJob + 1 /\ lastJob' \in 0..MaxJobs
    BY <1>1 DEF TypeOK, InsertJob, Jobs
  <2>2. status' \in [Jobs -> Status] /\ segmentOf' \in [Jobs -> Segments \cup {NoSegment}]
    BY <1>1, <2>1 DEF TypeOK, InsertJob, Status, Active
  <2>3. \A j \in Jobs : IF j > lastJob' THEN status'[j] = "absent"
                                        ELSE segmentOf'[j] \in Segments
    BY <1>1, <2>1 DEF TypeOK, InsertJob, Jobs
  <2>4. QED
    BY <1>1, <2>1, <2>2, <2>3 DEF TypeOK, streamVars, workerVars, history
<1>2. ASSUME NEW s \in segments, CreateJob(s) PROVE TypeOK'
  BY <1>1, <1>2 DEF CreateJob, TypeOK
<1>3. ASSUME NEW j \in Jobs, RetryInsert(j) PROVE TypeOK'
  BY <1>1, <1>3 DEF RetryInsert, TypeOK
<1>4. ASSUME NEW j \in Jobs, RetryCheck(j) \/ RetryRefused(j) PROVE TypeOK'
  BY <1>4 DEF RetryCheck, RetryRefused, TypeOK, dbVars, streamVars, workerVars, history
<1>5. ASSUME NEW S \in SUBSET segments, DeleteSegments(S) PROVE TypeOK'
  <2>1. status' \in [Jobs -> Status]
    BY <1>5 DEF DeleteSegments, TypeOK, Status
  <2>2. \A j \in Jobs : IF j > lastJob' THEN status'[j] = "absent"
                                        ELSE segmentOf'[j] \in Segments
    BY <1>5 DEF DeleteSegments, TypeOK
  <2>3. QED
    BY <1>5, <2>1, <2>2 DEF DeleteSegments, TypeOK, streamVars, workerVars, history
<1>6. QED
  BY <1>2, <1>3, <1>4, <1>5 DEF Api

\* What Restart leaves behind is well typed as delivered only grows.
LEMMA TypeRestart ==
    ASSUME TypeOK, NEW w \in Workers, Restart(w), delivered' \in Nat, delivered <= delivered'
    PROVE  /\ pc' \in [Workers -> Labels]
           /\ batch' \in [Workers -> SUBSET Jobs]
           /\ locks' \in [Workers -> SUBSET Jobs]
           /\ inbox' \in [Workers -> SUBSET (1..delivered')]
           /\ cur' \in [Workers -> 0..delivered']
           /\ \A v \in Workers : pc'[v] \in Processing => cur'[v] # 0
<1>1. pc' \in [Workers -> Labels]
  BY DEF TypeOK, Restart, Goto, Labels
<1>2. batch' \in [Workers -> SUBSET Jobs] /\ locks' \in [Workers -> SUBSET Jobs]
  BY DEF TypeOK, Restart
<1>3. inbox' \in [Workers -> SUBSET (1..delivered')]
  BY DEF TypeOK, Restart
<1>4. cur' \in [Workers -> 0..delivered']
  BY DEF TypeOK, Restart
<1>5. \A v \in Workers : pc'[v] \in Processing => cur'[v] # 0
  BY DEF TypeOK, Restart, Goto, Processing
<1>6. QED
  BY <1>1, <1>2, <1>3, <1>4, <1>5

\* A status update keeps the type of the table.
LEMMA TypeUpdate ==
    ASSUME TypeOK, NEW j \in Jobs, NEW s \in Status, UpdateStatus(j, s) \/ UpdateRefused(j, s),
           UNCHANGED <<lastJob, segmentOf>>
    PROVE  /\ status' \in [Jobs -> Status]
           /\ \A k \in Jobs : IF k > lastJob' THEN status'[k] = "absent"
                                               ELSE segmentOf'[k] \in Segments
BY DEF TypeOK, UpdateStatus, UpdateRefused

\* Moving on within the processing of an entry, or leaving it.
LEMMA TypeGoto ==
    ASSUME TypeOK, NEW w \in Workers, NEW label \in Labels, Goto(w, label),
           \/ cur' = [cur EXCEPT ![w] = 0] /\ label \notin Processing
           \/ UNCHANGED cur /\ (label \in Processing => pc[w] \in Processing),
           UNCHANGED delivered
    PROVE  /\ pc' \in [Workers -> Labels]
           /\ cur' \in [Workers -> 0..delivered']
           /\ \A v \in Workers : pc'[v] \in Processing => cur'[v] # 0
<1>1. pc' \in [Workers -> Labels] /\ \A v \in Workers \ {w} : pc'[v] = pc[v]
  BY DEF TypeOK, Goto
<1>2. cur' \in [Workers -> 0..delivered'] /\ \A v \in Workers \ {w} : cur'[v] = cur[v]
  <2>1. delivered \in Nat
    BY DEF TypeOK
  <2>2. CASE cur' = [cur EXCEPT ![w] = 0]
    BY <2>1, <2>2 DEF TypeOK
  <2>3. CASE UNCHANGED cur
    BY <2>3 DEF TypeOK
  <2>4. QED
    BY <2>2, <2>3
<1>3. label \in Processing => cur'[w] # 0
  BY DEF TypeOK
<1>4. pc'[w] = label
  BY DEF TypeOK, Goto
<1>5. QED
  BY <1>1, <1>2, <1>3, <1>4 DEF TypeOK

LEMMA TypeDispatch ==
    ASSUME TypeOK, NEW w \in Workers,
           DispatchSelect(w) \/ Publish(w) \/ DispatchCommit(w) \/ DispatchCommitRefused(w)
    PROVE  TypeOK'
<1> USE ConstantsAssumption
<1>1. CASE DispatchSelect(w)
  <2>1. PICK S \in SUBSET Jobs :
          /\ batch' = [batch EXCEPT ![w] = S]
          /\ locks' = [locks EXCEPT ![w] = S]
          /\ Goto(w, IF S = {} THEN "reclaim" ELSE "publish")
    BY <1>1 DEF DispatchSelect
  <2>2. /\ pc' \in [Workers -> Labels]
        /\ cur' \in [Workers -> 0..delivered']
        /\ \A v \in Workers : pc'[v] \in Processing => cur'[v] # 0
    BY <1>1, <2>1, TypeGoto DEF DispatchSelect, Labels, Processing, streamVars
  <2>3. QED
    BY <1>1, <2>1, <2>2 DEF DispatchSelect, TypeOK, dbVars, streamVars, history
<1>2. CASE Publish(w)
  <2>1. PICK j \in Jobs : stream' = Append(stream, j)
    BY <1>2 DEF Publish, First, TypeOK
  <2>2. stream' \in Seq(Jobs) /\ Len(stream') = Len(stream) + 1
    BY <2>1 DEF TypeOK
  <2>3. delivered' \in 0..Len(stream')
    BY <1>2, <2>2 DEF Publish, TypeOK
  <2>4. /\ pc' \in [Workers -> Labels]
        /\ cur' \in [Workers -> 0..delivered']
        /\ \A v \in Workers : pc'[v] \in Processing => cur'[v] # 0
    BY <1>2, TypeGoto DEF Publish, Labels, Processing
  <2>5. QED
    BY <1>2, <2>2, <2>3, <2>4 DEF Publish, TypeOK, dbVars, history
<1>3. CASE DispatchCommit(w)
  <2>1. PICK j \in Jobs :
          /\ UpdateStatus(j, "queued")
          /\ batch' = [batch EXCEPT ![w] = @ \ {j}]
          /\ Goto(w, IF batch[w] = {j} THEN "reclaim" ELSE "publish")
    BY <1>3 DEF DispatchCommit, First, TypeOK
  <2>2. /\ status' \in [Jobs -> Status]
        /\ \A k \in Jobs : IF k > lastJob' THEN status'[k] = "absent"
                                            ELSE segmentOf'[k] \in Segments
    BY <1>3, <2>1, TypeUpdate DEF DispatchCommit, Status, Active
  <2>3. /\ pc' \in [Workers -> Labels]
        /\ cur' \in [Workers -> 0..delivered']
        /\ \A v \in Workers : pc'[v] \in Processing => cur'[v] # 0
    BY <1>3, <2>1, TypeGoto DEF DispatchCommit, Labels, Processing, streamVars
  <2>4. QED
    BY <1>3, <2>1, <2>2, <2>3 DEF DispatchCommit, TypeOK, streamVars, history
<1>4. CASE DispatchCommitRefused(w)
  <2>1. UNCHANGED status
    BY <1>4 DEF DispatchCommitRefused, UpdateRefused
  <2>2. /\ Restart(w)
        /\ UNCHANGED <<segments, lastJob, segmentOf, retrying>>
        /\ UNCHANGED streamVars /\ UNCHANGED history
    BY <1>4 DEF DispatchCommitRefused
  <2>3. delivered' = delivered /\ delivered \in Nat
    BY <2>2 DEF streamVars, TypeOK
  <2>4. /\ pc' \in [Workers -> Labels]
        /\ batch' \in [Workers -> SUBSET Jobs]
        /\ locks' \in [Workers -> SUBSET Jobs]
        /\ inbox' \in [Workers -> SUBSET (1..delivered')]
        /\ cur' \in [Workers -> 0..delivered']
        /\ \A v \in Workers : pc'[v] \in Processing => cur'[v] # 0
    BY <2>2, <2>3, TypeRestart
  <2>5. QED
    BY <2>1, <2>2, <2>4 DEF TypeOK, streamVars, history
<1>5. QED
  BY <1>1, <1>2, <1>3, <1>4

\* The entry the group's next delivery reaches.
LEMMA NextDelivery ==
    ASSUME TypeOK, NEW last,
           last = IF delivered + ReadCount <= Len(stream) THEN delivered + ReadCount ELSE Len(stream)
    PROVE  last \in 0..Len(stream) /\ delivered <= last
BY ConstantsAssumption DEF TypeOK

LEMMA TypeRead ==
    ASSUME TypeOK, NEW w \in Workers,
           \/ \E S \in SUBSET pel : Reclaim(w, S)
           \/ ReadNew(w) \/ TakeMessage(w) \/ RoundDone(w)
    PROVE  TypeOK'
<1>1. CASE \E S \in SUBSET pel : Reclaim(w, S)
  <2>1. PICK S \in SUBSET pel : Reclaim(w, S)
    BY <1>1
  <2>2. inbox' \in [Workers -> SUBSET (1..delivered)]
    BY <2>1 DEF Reclaim, Reclaimed, TypeOK
  <2>3. /\ pc' \in [Workers -> Labels]
        /\ cur' \in [Workers -> 0..delivered']
        /\ \A v \in Workers : pc'[v] \in Processing => cur'[v] # 0
    BY <2>1, TypeGoto DEF Reclaim, Labels, Processing, streamVars
  <2>4. QED
    BY <2>1, <2>2, <2>3 DEF Reclaim, TypeOK, dbVars, streamVars, history
<1>2. CASE ReadNew(w)
  <2>1. PICK last : last = IF delivered + ReadCount <= Len(stream)
                             THEN delivered + ReadCount ELSE Len(stream)
    OBVIOUS
  <2>2. last \in 0..Len(stream) /\ delivered <= last
    BY <2>1, NextDelivery
  <2>3. /\ delivered' = last
        /\ pel' = pel \cup (delivered + 1)..last
        /\ inbox' = [inbox EXCEPT ![w] = @ \cup (delivered + 1)..last]
    BY <1>2, <2>1 DEF ReadNew
  <2>4. pel' \subseteq 1..delivered'
    BY <2>2, <2>3 DEF TypeOK
  <2>5. inbox' \in [Workers -> SUBSET (1..delivered')]
    <3>1. \A v \in Workers : inbox[v] \subseteq 1..delivered'
      BY <2>2, <2>3 DEF TypeOK
    <3>2. (delivered + 1)..last \subseteq 1..delivered'
      BY <2>2, <2>3 DEF TypeOK
    <3>3. QED
      BY <2>3, <3>1, <3>2 DEF TypeOK
  <2>6. pc' \in [Workers -> Labels]
    BY <1>2 DEF ReadNew, Goto, TypeOK, Labels
  <2>7. cur' \in [Workers -> 0..delivered']
    BY <1>2, <2>2, <2>3 DEF ReadNew, TypeOK
  <2>8. \A v \in Workers : pc'[v] \in Processing => cur'[v] # 0
    BY <1>2 DEF ReadNew, Goto, TypeOK, Processing
  <2>9. QED
    BY <1>2, <2>2, <2>3, <2>4, <2>5, <2>6, <2>7, <2>8 DEF ReadNew, TypeOK, dbVars, history
<1>3. CASE TakeMessage(w)
  <2>1. PICK i \in 1..delivered :
          /\ cur' = [cur EXCEPT ![w] = i]
          /\ inbox' = [inbox EXCEPT ![w] = @ \ {i}]
    BY <1>3 DEF TakeMessage, First, TypeOK
  <2>2. cur' \in [Workers -> 0..delivered] /\ cur'[w] # 0
    BY <2>1 DEF TypeOK
  <2>3. inbox' \in [Workers -> SUBSET (1..delivered)]
    BY <2>1 DEF TypeOK
  <2>4. pc' \in [Workers -> Labels]
    BY <1>3 DEF TakeMessage, Goto, TypeOK, Labels, Processing
  <2>5. \A v \in Workers : pc'[v] \in Processing => cur'[v] # 0
    BY <1>3, <2>1, <2>2 DEF TakeMessage, Goto, TypeOK
  <2>6. QED
    BY <1>3, <2>2, <2>3, <2>4, <2>5 DEF TakeMessage, TypeOK, dbVars, streamVars, history
<1>4. CASE RoundDone(w)
  <2>1. /\ pc' \in [Workers -> Labels]
        /\ cur' \in [Workers -> 0..delivered']
        /\ \A v \in Workers : pc'[v] \in Processing => cur'[v] # 0
    BY <1>4, TypeGoto DEF RoundDone, Labels, Processing, streamVars
  <2>2. QED
    BY <1>4, <2>1 DEF RoundDone, TypeOK, dbVars, streamVars, history
<1>5. QED
  BY <1>1, <1>2, <1>3, <1>4

LEMMA TypeProcess ==
    ASSUME TypeOK, NEW w \in Workers,
           \/ MarkQueued(w) \/ MarkRunning(w) \/ LoadRows(w)
           \/ Translate(w) \/ RequestInvalid(w)
           \/ SaveResult(w) \/ SaveRefused(w) \/ RecordFailure(w) \/ RecordFailureRefused(w)
           \/ Abandon(w) \/ Ack(w)
    PROVE  TypeOK'
<1>1. JobOf(w) \in Jobs /\ pc[w] \in Processing
  BY JobOfType DEF MarkQueued, MarkRunning, LoadRows, Translate, RequestInvalid, SaveResult,
     SaveRefused,
                   RecordFailure, RecordFailureRefused, Abandon, Ack, Processing
<1>2. PICK label \in Labels : Goto(w, label)
  BY DEF MarkQueued, MarkRunning, LoadRows, LoadOutcome, Translate, RequestInvalid, SaveResult,
     SaveRefused,
         RecordFailure, RecordFailureRefused, Abandon, Ack, Leave, Processing, Labels
<1>3. \/ cur' = [cur EXCEPT ![w] = 0] /\ pc'[w] = "next"
      \/ UNCHANGED cur
  BY DEF MarkQueued, MarkRunning, LoadRows, Translate, RequestInvalid, SaveResult, SaveRefused,
         RecordFailure, RecordFailureRefused, Abandon, Ack, Leave, Goto, TypeOK
<1>4. UNCHANGED <<segments, lastJob, segmentOf, retrying, stream, delivered, batch, locks,
                  inbox, faults>>
  BY DEF MarkQueued, MarkRunning, LoadRows, Translate, RequestInvalid, SaveResult, SaveRefused,
     RecordFailure,
         RecordFailureRefused, Abandon, Ack, MarkJobState, dbVars, streamVars, history
<1>5. /\ pc' \in [Workers -> Labels]
      /\ cur' \in [Workers -> 0..delivered']
      /\ \A v \in Workers : pc'[v] \in Processing => cur'[v] # 0
  <2>1. pc'[w] = label
    BY <1>2 DEF Goto, TypeOK
  <2>2. "next" \notin Processing
    BY DEF Processing
  <2>3. QED
    BY <1>1, <1>2, <1>3, <1>4, <2>1, <2>2, TypeGoto
<1>6. /\ status' \in [Jobs -> Status]
      /\ \A k \in Jobs : IF k > lastJob' THEN status'[k] = "absent"
                                          ELSE segmentOf'[k] \in Segments
  <2>1. \/ \E s \in Status : UpdateStatus(JobOf(w), s) \/ UpdateRefused(JobOf(w), s)
        \/ UNCHANGED status
    BY DEF MarkQueued, MarkRunning, LoadRows, Translate, RequestInvalid, SaveResult, SaveRefused,
       RecordFailure,
           RecordFailureRefused, Abandon, Ack, MarkJobState, dbVars, Status, Active, Settled
  <2>2. QED
    BY <1>1, <1>4, <2>1, TypeUpdate DEF TypeOK
<1>7. pel' \subseteq pel
  BY DEF MarkQueued, MarkRunning, LoadRows, Translate, RequestInvalid, SaveResult, SaveRefused,
     RecordFailure,
         RecordFailureRefused, Abandon, Ack, MarkJobState, streamVars
<1>8. calls' \in [Jobs -> Nat]
  <2>1. UNCHANGED calls \/ calls' = [calls EXCEPT ![JobOf(w)] = @ + 1]
    BY DEF MarkQueued, MarkRunning, LoadRows, Translate, RequestInvalid, SaveResult, SaveRefused,
       RecordFailure,
           RecordFailureRefused, Abandon, Ack, MarkJobState, history
  <2>2. calls[JobOf(w)] + 1 \in Nat
    BY <1>1 DEF TypeOK
  <2>3. CASE calls' = [calls EXCEPT ![JobOf(w)] = @ + 1]
    BY <1>1, <2>2, <2>3 DEF TypeOK
  <2>4. QED
    BY <2>1, <2>3 DEF TypeOK
<1>9. stored' \subseteq Jobs
  BY <1>1 DEF TypeOK, MarkQueued, MarkRunning, LoadRows, Translate, RequestInvalid, SaveResult,
     SaveRefused,
         RecordFailure, RecordFailureRefused, Abandon, Ack, MarkJobState, history
<1>10. QED
  BY <1>4, <1>5, <1>6, <1>7, <1>8, <1>9 DEF TypeOK

LEMMA TypeFault ==
    ASSUME TypeOK, NEW w \in Workers, WorkerFault(w)
    PROVE  TypeOK'
<1>1. faults' \in 0..MaxFaults /\ UNCHANGED <<calls, stored, dbVars, retrying>>
  BY ConstantsAssumption DEF TypeOK, WorkerFault, PublishFails, DispatchCommitFails, ReadFails,
     DatabaseFails, AckFails, Crash, Fault
<1>2. CASE PublishFails(w)
  <2>1. PICK j \in Jobs : /\ stream' \in {stream, Append(stream, j)}
                          /\ Goto(w, IF batch[w] = {j} THEN "reclaim" ELSE "dispatch")
    BY <1>2 DEF PublishFails, First, TypeOK
  <2>2. stream' \in Seq(Jobs) /\ Len(stream) <= Len(stream')
    <3>1. CASE stream' = stream
      BY <3>1 DEF TypeOK
    <3>2. CASE stream' = Append(stream, j)
      BY <3>2 DEF TypeOK
    <3>3. QED
      BY <2>1, <3>1, <3>2
  <2>3. delivered' \in 0..Len(stream')
    BY <1>2, <2>2 DEF PublishFails, TypeOK
  <2>4. /\ pc' \in [Workers -> Labels]
        /\ cur' \in [Workers -> 0..delivered']
        /\ \A v \in Workers : pc'[v] \in Processing => cur'[v] # 0
    BY <1>2, <2>1, TypeGoto DEF PublishFails, Labels, Processing
  <2>5. QED
    BY <1>1, <1>2, <2>2, <2>3, <2>4 DEF PublishFails, TypeOK, dbVars
<1>3. CASE DispatchCommitFails(w) \/ Crash(w)
  <2>1. Restart(w) /\ UNCHANGED streamVars
    BY <1>3 DEF DispatchCommitFails, Crash
  <2>2. delivered' \in Nat /\ delivered <= delivered'
    BY <2>1 DEF TypeOK, streamVars
  <2>3. QED
    BY <1>1, <2>1, <2>2, TypeRestart DEF TypeOK, dbVars, streamVars
<1>4. CASE ReadFails(w)
  <2>1. delivered' \in 0..Len(stream) /\ delivered <= delivered'
    BY <1>4, NextDelivery DEF ReadFails
  <2>2. pel' \subseteq 1..delivered'
    <3>1. delivered \in Nat /\ delivered' \in Nat
      BY <2>1 DEF TypeOK
    <3>2. pel \subseteq 1..delivered /\ pel' = pel \cup (delivered + 1)..delivered'
      BY <1>4 DEF ReadFails, TypeOK
    <3>3. QED
      BY <2>1, <3>1, <3>2
  <2>3. Restart(w) /\ UNCHANGED stream
    BY <1>4 DEF ReadFails
  <2>4. delivered' \in Nat
    BY <2>1 DEF TypeOK
  <2>5. QED
    BY <1>1, <2>1, <2>2, <2>3, <2>4, TypeRestart DEF TypeOK, dbVars
<1>5. CASE DatabaseFails(w)
  <2>1. /\ pc' \in [Workers -> Labels]
        /\ cur' \in [Workers -> 0..delivered']
        /\ \A v \in Workers : pc'[v] \in Processing => cur'[v] # 0
    BY <1>5, TypeGoto DEF DatabaseFails, AfterDatabaseError, Leave, Labels, Processing, streamVars
  <2>2. QED
    BY <1>1, <1>5, <2>1 DEF DatabaseFails, TypeOK, dbVars, streamVars
<1>6. CASE AckFails(w)
  <2>1. Restart(w) /\ UNCHANGED <<stream, delivered>> /\ pel' \subseteq pel
    BY <1>6 DEF AckFails
  <2>2. delivered' \in Nat /\ delivered <= delivered'
    BY <2>1 DEF TypeOK
  <2>3. QED
    BY <1>1, <2>1, <2>2, TypeRestart DEF TypeOK, dbVars
<1>7. QED
  BY <1>2, <1>3, <1>4, <1>5, <1>6 DEF WorkerFault

LEMMA TypeNext == TypeOK /\ [Next]_vars => TypeOK'
<1> SUFFICES ASSUME TypeOK, [Next]_vars PROVE TypeOK'
  OBVIOUS
<1>1. ASSUME NEW w \in Workers, WorkerStep(w) PROVE TypeOK'
  BY <1>1, TypeDispatch, TypeRead, TypeProcess DEF WorkerStep
<1>2. CASE UNCHANGED vars
  BY <1>2 DEF TypeOK, vars, dbVars, streamVars, workerVars, history
<1>3. QED
  BY <1>1, <1>2, TypeApi, TypeFault DEF Next

\* Every variable stays in its domain, for any number of workers, segments,
\* jobs and faults.
THEOREM TypeCorrect == Spec => []TypeOK
BY TypeInit, TypeNext, PTL DEF Spec

--------------------------------------------------------------------------------
(* One active job per segment *)

LEMMA OneActiveStep ==
    TypeOK /\ OneActiveJobPerSegment /\ [Next]_vars => OneActiveJobPerSegment'
<1> SUFFICES ASSUME TypeOK, OneActiveJobPerSegment, TableStep PROVE OneActiveJobPerSegment'
  BY NextIsTableStep
<1>1. CASE UNCHANGED <<status, segmentOf>>
  BY <1>1 DEF OneActiveJobPerSegment
<1>2. ASSUME NEW j \in Jobs, NEW s \in Status, UpdateStatus(j, s), UNCHANGED segmentOf
      PROVE  OneActiveJobPerSegment'
  \* The index admits row j only where no other row is active.
  <2>1. s \in Active => \A k \in Jobs \ {j} :
          ~(status[k] \in Active /\ segmentOf[k] = segmentOf[j])
    BY <1>2 DEF UpdateStatus, IndexAllows, ActiveJobs
  <2>2. status'[j] = s /\ \A k \in Jobs \ {j} : status'[k] = status[k]
    BY <1>2 DEF UpdateStatus, TypeOK
  <2>3. QED
    BY <1>2, <2>1, <2>2 DEF OneActiveJobPerSegment
<1>3. ASSUME NEW s \in Segments, ActiveJobs(s) = {}, InsertJob(s)
      PROVE  OneActiveJobPerSegment'
  <2>1. lastJob + 1 \in Jobs
    BY <1>3, ConstantsAssumption DEF InsertJob, TypeOK, Jobs
  <2>2. /\ segmentOf'[lastJob + 1] = s
        /\ \A k \in Jobs \ {lastJob + 1} :
             status'[k] = status[k] /\ segmentOf'[k] = segmentOf[k]
    BY <1>3, <2>1 DEF InsertJob, TypeOK
  <2>3. \A k \in Jobs : ~(status[k] \in Active /\ segmentOf[k] = s)
    BY <1>3 DEF ActiveJobs
  <2>4. QED
    BY <2>2, <2>3 DEF OneActiveJobPerSegment
<1>4. ASSUME NEW S \in SUBSET Segments, UNCHANGED segmentOf,
             status' = [j \in Jobs |-> IF segmentOf[j] \in S THEN "absent" ELSE status[j]]
      PROVE  OneActiveJobPerSegment'
  <2>1. \A j \in Jobs : status'[j] \in Active => status[j] \in Active
    BY <1>4 DEF Active
  <2>2. QED
    BY <1>4, <2>1 DEF OneActiveJobPerSegment
<1>5. QED
  BY <1>1, <1>2, <1>3, <1>4 DEF TableStep

\* Two jobs of one segment are never active at once, with any number of workers
\* and faults: the partial unique index is enough, whatever status a stale
\* dispatcher row or a redelivered entry writes.
THEOREM OneActiveCorrect == Spec => []OneActiveJobPerSegment
<1>1. Init => OneActiveJobPerSegment
  BY DEF Init, OneActiveJobPerSegment, Active
<1>2. QED
  BY <1>1, OneActiveStep, TypeCorrect, PTL DEF Spec

--------------------------------------------------------------------------------
(* The table implements one slot per segment *)

holders == [s \in Segments |-> ActiveJobs(s)]

LEMMA SlotsStep ==
    TypeOK /\ OneActiveJobPerSegment /\ [Next]_vars => [Slots!Next]_holders
<1> SUFFICES ASSUME TypeOK, OneActiveJobPerSegment, TableStep PROVE [Slots!Next]_holders
  BY NextIsTableStep
<1>1. CASE UNCHANGED <<status, segmentOf>>
  BY <1>1 DEF holders, ActiveJobs
<1>2. ASSUME NEW j \in Jobs, NEW s \in Status, UpdateStatus(j, s), UNCHANGED segmentOf
      PROVE  [Slots!Next]_holders
  <2>1. status'[j] = s /\ \A k \in Jobs \ {j} : status'[k] = status[k]
    BY <1>2 DEF UpdateStatus, TypeOK
  <2>2. PICK g \in Segments : g = segmentOf[j]
    BY <1>2 DEF UpdateStatus, TypeOK
  <2>3. \A t \in Segments \ {g} : ActiveJobs(t)' = ActiveJobs(t)
    BY <1>2, <2>1, <2>2 DEF ActiveJobs
  <2>4. CASE (s \in Active) = (status[j] \in Active)
    <3>1. ActiveJobs(g)' = ActiveJobs(g)
      BY <1>2, <2>1, <2>2, <2>4 DEF ActiveJobs
    <3>2. QED
      BY <2>3, <3>1 DEF holders
  <2>5. CASE s \in Active /\ status[j] \notin Active
    <3>1. ActiveJobs(g) = {} /\ ActiveJobs(g)' = {j}
      BY <1>2, <2>1, <2>2, <2>5 DEF UpdateStatus, IndexAllows, ActiveJobs
    <3>2. Slots!Acquire(g, j)
      BY <2>2, <2>3, <3>1 DEF Slots!Acquire, holders
    <3>3. QED
      BY <2>2, <3>2 DEF Slots!Next
  <2>6. CASE s \notin Active /\ status[j] \in Active
    <3>1. ActiveJobs(g)' = {}
      BY <1>2, <2>1, <2>2, <2>6 DEF ActiveJobs, OneActiveJobPerSegment
    <3>2. Slots!Release({g})
      BY <2>2, <2>3, <3>1 DEF Slots!Release, holders
    <3>3. QED
      BY <2>2, <3>2 DEF Slots!Next
  <2>7. QED
    BY <2>4, <2>5, <2>6
<1>3. ASSUME NEW s \in Segments, ActiveJobs(s) = {}, InsertJob(s)
      PROVE  [Slots!Next]_holders
  <2> DEFINE n == lastJob + 1
  <2>1. n \in Jobs /\ status[n] = "absent"
    BY <1>3, ConstantsAssumption DEF InsertJob, TypeOK, Jobs
  <2>2. /\ segmentOf'[n] = s /\ status'[n] = "pending_enqueue"
        /\ \A k \in Jobs \ {n} : status'[k] = status[k] /\ segmentOf'[k] = segmentOf[k]
    BY <1>3, <2>1 DEF InsertJob, TypeOK
  <2>3. ActiveJobs(s)' = {n}
    BY <1>3, <2>1, <2>2 DEF ActiveJobs, Active
  <2>4. \A t \in Segments \ {s} : ActiveJobs(t)' = ActiveJobs(t)
    BY <2>1, <2>2 DEF ActiveJobs, Active
  <2>5. Slots!Acquire(s, n)
    BY <1>3, <2>3, <2>4 DEF Slots!Acquire, holders
  <2>6. QED
    BY <2>1, <2>5 DEF Slots!Next
<1>4. ASSUME NEW S \in SUBSET Segments, UNCHANGED segmentOf,
             status' = [j \in Jobs |-> IF segmentOf[j] \in S THEN "absent" ELSE status[j]]
      PROVE  [Slots!Next]_holders
  <2>1. \A t \in Segments : ActiveJobs(t)' = IF t \in S THEN {} ELSE ActiveJobs(t)
    BY <1>4 DEF ActiveJobs, Active
  <2>2. Slots!Release(S)
    BY <2>1 DEF Slots!Release, holders
  <2>3. QED
    BY <2>2 DEF Slots!Next
<1>5. QED
  BY <1>1, <1>2, <1>3, <1>4 DEF TableStep

\* The rows of the table, mapped to the set of active jobs of each segment,
\* implement SegmentSlots: a segment never passes directly from job to job.
THEOREM SlotsRefinement == Spec => SlotsSpec
<1>1. Init => Slots!Init
  BY DEF Init, Slots!Init, ActiveJobs, Active
<1>2. QED
  BY <1>1, SlotsStep, TypeCorrect, OneActiveCorrect, PTL
     DEF Spec, SlotsSpec, Slots!Spec, holders

--------------------------------------------------------------------------------
(* No row leaves pending_enqueue unpublished *)

\* A worker about to commit a row as queued has published it.
PublishInv ==
    /\ PublishBeforeQueued
    /\ \A w \in Workers : pc[w] = "commit" => \A j \in First(batch[w]) : Published(j)

LEMMA OnlyPublishAppends ==
    ASSUME [Next]_vars, stream' # stream
    PROVE  \E w \in Workers : Publish(w) \/ PublishFails(w)
<1>1. ASSUME NEW w \in Workers, WorkerStep(w), ~Publish(w) PROVE FALSE
  BY <1>1 DEF WorkerStep, DispatchSelect, DispatchCommit, DispatchCommitRefused, Reclaim, ReadNew,
     TakeMessage, RoundDone, MarkQueued, MarkRunning, LoadRows, Translate, RequestInvalid,
     SaveResult,
     SaveRefused, RecordFailure, RecordFailureRefused, Abandon, Ack, MarkJobState, streamVars
<1>2. ASSUME NEW w \in Workers, WorkerFault(w), ~PublishFails(w) PROVE FALSE
  BY <1>2 DEF WorkerFault, DispatchCommitFails, ReadFails, DatabaseFails, AckFails, Crash,
     streamVars
<1>3. ~Api
  BY DEF Api, CreateJob, RetryCheck, RetryInsert, RetryRefused, DeleteSegments, streamVars
<1>4. ~UNCHANGED vars
  BY DEF vars, streamVars
<1>5. QED
  BY <1>1, <1>2, <1>3, <1>4 DEF Next

\* The stream only grows.
LEMMA PublishedStays ==
    ASSUME TypeOK, [Next]_vars, NEW k \in Jobs, Published(k)
    PROVE  Published(k)'
<1>1. PICK i \in Entries : stream[i] = k
  BY DEF Published
<1>2. stream' = stream \/ \E j \in Jobs : stream' = Append(stream, j)
  <2>1. ASSUME NEW w \in Workers, Publish(w) \/ PublishFails(w)
        PROVE  stream' = stream \/ \E j \in Jobs : stream' = Append(stream, j)
    BY <2>1 DEF Publish, PublishFails, First, TypeOK
  <2>2. QED
    BY <2>1, OnlyPublishAppends
<1>3. i \in 1..Len(stream') /\ stream'[i] = k
  <2>1. CASE stream' = stream
    BY <1>1, <2>1 DEF Entries
  <2>2. ASSUME NEW j \in Jobs, stream' = Append(stream, j) PROVE i \in 1..Len(stream') /\ stream'[i] = k
    BY <1>1, <2>2 DEF Entries, TypeOK
  <2>3. QED
    BY <1>2, <2>1, <2>2
<1>4. QED
  BY <1>3 DEF Published, Entries

\* Who moves a row out of pending_enqueue has its entry at hand.
LEMMA PublishStatus ==
    ASSUME TypeOK, PublishInv, [Next]_vars, NEW k \in Jobs,
           status'[k] \notin {"absent", "pending_enqueue"}
    PROVE  Published(k)'
<1>1. SUFFICES ASSUME status'[k] # status[k] PROVE Published(k)
  BY PublishedStays DEF PublishInv, PublishBeforeQueued
<1>2. CASE Api
  <2>1. \A j \in Jobs : status'[j] \in {status[j], "absent", "pending_enqueue"}
    BY <1>2, ConstantsAssumption
       DEF Api, CreateJob, RetryCheck, RetryInsert, RetryRefused, DeleteSegments, InsertJob,
           dbVars, TypeOK, Jobs
  <2>2. QED
    BY <1>1, <2>1
<1>3. ASSUME NEW w \in Workers, WorkerStep(w) PROVE Published(k)
  <2>1. CASE DispatchCommit(w)
    <3>1. PICK j \in First(batch[w]) : status' = [status EXCEPT ![j] = "queued"]
      BY <2>1 DEF DispatchCommit, UpdateStatus
    <3>2. k = j
      BY <1>1, <3>1 DEF TypeOK
    <3>3. QED
      BY <2>1, <3>1, <3>2 DEF DispatchCommit, PublishInv
  <2>2. CASE MarkQueued(w) \/ MarkRunning(w) \/ SaveResult(w) \/ RecordFailure(w) \/ Abandon(w)
    <3>1. pc[w] \in Processing
      BY <2>2 DEF MarkQueued, MarkRunning, SaveResult, RecordFailure, Abandon, Processing
    <3>2. \E s \in Status : UpdateStatus(JobOf(w), s) \/ UpdateRefused(JobOf(w), s)
      BY <2>2 DEF MarkQueued, MarkRunning, SaveResult, RecordFailure, Abandon, MarkJobState,
                  Status, Active, Settled
    <3>3. k = JobOf(w)
      BY <1>1, <3>2 DEF UpdateStatus, UpdateRefused, TypeOK
    <3>4. QED
      BY <3>1, <3>3, JobOfType DEF Published, JobOf
  <2>3. CASE ~ (DispatchCommit(w) \/ MarkQueued(w) \/ MarkRunning(w) \/ SaveResult(w)
                \/ RecordFailure(w) \/ Abandon(w))
    BY <1>1, <1>3, <2>3 DEF WorkerStep, DispatchSelect, Publish, DispatchCommitRefused, Reclaim,
       ReadNew, TakeMessage, RoundDone, LoadRows, Translate, RequestInvalid, SaveRefused,
       RecordFailureRefused,
       Ack, UpdateRefused, dbVars
  <2>4. QED
    BY <2>1, <2>2, <2>3
<1>4. ASSUME NEW w \in Workers, WorkerFault(w) PROVE Published(k)
  BY <1>1, <1>4 DEF WorkerFault, PublishFails, DispatchCommitFails, ReadFails, DatabaseFails,
                    AckFails, Crash, dbVars
<1>5. CASE UNCHANGED vars
  BY <1>1, <1>5 DEF vars, dbVars
<1>6. QED
  BY <1>2, <1>3, <1>4, <1>5 DEF Next

LEMMA PublishCommit ==
    ASSUME TypeOK, PublishInv, [Next]_vars, NEW v \in Workers, pc'[v] = "commit",
           NEW j \in First(batch'[v])
    PROVE  Published(j)'
<1>1. CASE Publish(v)
  <2>1. j \in First(batch[v]) /\ j \in Jobs
    BY <1>1 DEF Publish, First, TypeOK
  <2>2. stream' = Append(stream, j)
    <3>1. PICK k \in First(batch[v]) : stream' = Append(stream, k)
      BY <1>1 DEF Publish
    <3>2. k = j
      BY <2>1, <3>1 DEF First, TypeOK, Jobs
    <3>3. QED
      BY <3>1, <3>2
  <2>3. Len(stream') = Len(stream) + 1 /\ stream'[Len(stream) + 1] = j /\ Len(stream) \in Nat
    BY <2>1, <2>2 DEF TypeOK
  <2>4. QED
    BY <2>3 DEF Published, Entries
<1>2. CASE ~Publish(v)
  <2>1. pc[v] = "commit" /\ batch'[v] = batch[v]
    <3>1. ASSUME NEW w \in Workers, WorkerStep(w) PROVE pc[v] = "commit" /\ batch'[v] = batch[v]
      <4>1. CASE w = v
        BY <1>2, <3>1, <4>1 DEF WorkerStep, DispatchSelect, DispatchCommit, DispatchCommitRefused,
           Reclaim, ReadNew, TakeMessage, RoundDone, MarkQueued, MarkRunning, LoadRows, LoadOutcome,
           Translate, RequestInvalid, SaveResult, SaveRefused, RecordFailure,
           RecordFailureRefused, Abandon, Ack,
           Leave, Goto, Restart, TypeOK
      <4>2. CASE w # v
        BY <3>1, <4>2 DEF WorkerStep, DispatchSelect, Publish, DispatchCommit, DispatchCommitRefused,
           Reclaim, ReadNew, TakeMessage, RoundDone, MarkQueued, MarkRunning, LoadRows, LoadOutcome,
           Translate, RequestInvalid, SaveResult, SaveRefused, RecordFailure,
           RecordFailureRefused, Abandon, Ack,
           MarkJobState, Leave, Goto, Restart, TypeOK
      <4>3. QED
        BY <4>1, <4>2
    <3>2. ASSUME NEW w \in Workers, WorkerFault(w) PROVE pc[v] = "commit" /\ batch'[v] = batch[v]
      BY <3>2 DEF WorkerFault, PublishFails, DispatchCommitFails, ReadFails, DatabaseFails,
         AfterDatabaseError, AckFails, Crash, Leave, Goto, Restart, TypeOK
    <3>3. CASE Api
      BY <3>3 DEF Api, CreateJob, RetryCheck, RetryInsert, RetryRefused, DeleteSegments, workerVars
    <3>4. CASE UNCHANGED vars
      BY <3>4 DEF vars, workerVars
    <3>5. QED
      BY <3>1, <3>2, <3>3, <3>4 DEF Next
  <2>2. Published(j) /\ j \in Jobs
    BY <2>1 DEF PublishInv, First, TypeOK
  <2>3. QED
    BY <2>2, PublishedStays
<1>3. QED
  BY <1>1, <1>2

\* A row leaves pending_enqueue only after its entry is in the stream, with any
\* number of workers and faults.
THEOREM PublishBeforeQueuedCorrect == Spec => []PublishBeforeQueued
<1>1. Init => PublishInv
  BY DEF Init, PublishInv, PublishBeforeQueued
<1>2. TypeOK /\ PublishInv /\ [Next]_vars => PublishInv'
  BY PublishStatus, PublishCommit DEF PublishInv, PublishBeforeQueued
<1>3. PublishInv => PublishBeforeQueued
  BY DEF PublishInv
<1>4. QED
  BY <1>1, <1>2, <1>3, TypeCorrect, PTL DEF Spec

--------------------------------------------------------------------------------
(* A single worker never strands a queued or running job *)

\* Rows that are selected, or have an entry, have been inserted.
Inserted ==
    /\ \A i \in Entries : stream[i] <= lastJob
    /\ \A w \in Workers : \A j \in batch[w] : j <= lastJob

\* What the worker holds is pending in the group, and what it is about to
\* acknowledge is settled.
Held ==
    \A w \in Workers :
        /\ inbox[w] \subseteq pel
        /\ pc[w] \in Processing => cur[w] \in pel \ inbox[w]
        /\ pc[w] = "ack" => status[JobOf(w)] \notin Active
        /\ pc[w] = "commit" => \A j \in First(batch[w]) : Unacked(j) # {}

BackedInv == Inserted /\ Held /\ ActiveJobBacked

LEMMA InsertedStep ==
    ASSUME TypeOK, Inserted, [Next]_vars
    PROVE  Inserted'
<1>1. lastJob' \in Nat /\ lastJob \in Nat /\ lastJob <= lastJob'
  <2>1. lastJob' = lastJob \/ lastJob' = lastJob + 1
    BY DEF Next, Api, CreateJob, RetryCheck, RetryInsert, RetryRefused, InsertJob, DeleteSegments,
       WorkerStep, DispatchSelect, Publish, DispatchCommit, DispatchCommitRefused, Reclaim, ReadNew,
       TakeMessage, RoundDone, MarkQueued, MarkRunning, LoadRows, Translate, RequestInvalid,
       SaveResult, SaveRefused,
       RecordFailure, RecordFailureRefused, Abandon, Ack, MarkJobState, WorkerFault, PublishFails,
       DispatchCommitFails, ReadFails, DatabaseFails, AckFails, Crash, vars, dbVars
  <2>2. QED
    BY <2>1 DEF TypeOK
<1>2. ASSUME NEW v \in Workers, NEW j \in batch'[v] PROVE j <= lastJob'
  <2>1. j \in Jobs /\ (j \in batch[v] \/ status[j] = "pending_enqueue")
    <3>1. ASSUME NEW w \in Workers, WorkerStep(w)
          PROVE  j \in Jobs /\ (j \in batch[v] \/ status[j] = "pending_enqueue")
      <4>1. CASE DispatchSelect(w)
        BY <4>1 DEF DispatchSelect, TypeOK
      <4>2. CASE DispatchCommit(w)
        BY <4>2 DEF DispatchCommit, TypeOK
      <4>3. CASE ~DispatchSelect(w) /\ ~DispatchCommit(w)
        BY <3>1, <4>3 DEF WorkerStep, Publish, DispatchCommitRefused, Reclaim, ReadNew, TakeMessage,
           RoundDone, MarkQueued, MarkRunning, LoadRows, Translate, RequestInvalid, SaveResult,
           SaveRefused,
           RecordFailure, RecordFailureRefused, Abandon, Ack, MarkJobState, Restart, TypeOK
      <4>4. QED
        BY <4>1, <4>2, <4>3
    <3>2. ASSUME NEW w \in Workers, WorkerFault(w) PROVE j \in Jobs /\ j \in batch[v]
      BY <3>2 DEF WorkerFault, PublishFails, DispatchCommitFails, ReadFails, DatabaseFails,
         AckFails, Crash, Restart, TypeOK
    <3>3. CASE Api
      BY <3>3 DEF Api, CreateJob, RetryCheck, RetryInsert, RetryRefused, DeleteSegments,
         workerVars, TypeOK
    <3>4. CASE UNCHANGED vars
      BY <3>4 DEF vars, workerVars, TypeOK
    <3>5. QED
      BY <3>1, <3>2, <3>3, <3>4 DEF Next
  <2>2. j <= lastJob
    <3>1. status[j] = "pending_enqueue" => ~(j > lastJob)
      BY <2>1 DEF TypeOK
    <3>2. QED
      BY <1>1, <2>1, <3>1 DEF Inserted, Jobs
  <2>3. QED
    BY <1>1, <2>1, <2>2 DEF Jobs
<1>3. ASSUME NEW i \in 1..Len(stream') PROVE stream'[i] <= lastJob'
  <2>1. \A k \in Entries : stream[k] \in Jobs /\ stream[k] <= lastJob
    BY DEF Inserted, Entries, TypeOK
  <2>2. CASE stream' = stream
    BY <1>1, <2>1, <2>2 DEF Entries, Jobs
  <2>3. CASE stream' # stream
    <3>1. PICK w \in Workers : Publish(w) \/ PublishFails(w)
      BY <2>3, OnlyPublishAppends
    <3>2. PICK j \in batch[w] : stream' = Append(stream, j)
      BY <2>3, <3>1 DEF Publish, PublishFails, First
    <3>3. j \in Jobs /\ j <= lastJob
      BY DEF Inserted, TypeOK
    <3>4. stream'[i] = j \/ (i \in Entries /\ stream'[i] = stream[i])
      BY <3>2, <3>3 DEF TypeOK, Entries
    <3>5. QED
      BY <1>1, <2>1, <3>3, <3>4 DEF Jobs
  <2>4. QED
    BY <2>2, <2>3
<1>4. QED
  BY <1>2, <1>3 DEF Inserted, Entries

\* Appending, and delivering into the pending list, lose no entry.
LEMMA UnackedGrows ==
    ASSUME TypeOK, NEW k, stream' = stream \/ \E j \in Jobs : stream' = Append(stream, j),
           pel \subseteq pel', delivered' \in Nat, (delivered + 1)..delivered' \subseteq pel'
    PROVE  Unacked(k) \subseteq Unacked(k)'
<1> SUFFICES ASSUME NEW i \in Unacked(k) PROVE i \in Unacked(k)'
  OBVIOUS
<1>1. i \in Nat /\ i \in 1..Len(stream) /\ stream[i] = k /\ delivered \in Nat
  BY DEF Unacked, Entries, TypeOK
<1>2. i \in 1..Len(stream') /\ stream'[i] = k
  <2>1. CASE stream' = stream
    BY <1>1, <2>1
  <2>2. ASSUME NEW j \in Jobs, stream' = Append(stream, j)
        PROVE  i \in 1..Len(stream') /\ stream'[i] = k
    BY <1>1, <2>2 DEF TypeOK
  <2>3. QED
    BY <2>1, <2>2
<1>3. i \in pel' \/ i > delivered'
  BY <1>1 DEF Unacked
<1>4. QED
  BY <1>2, <1>3 DEF Unacked, Entries

\* Steps of the API disturb neither the worker nor the stream.
LEMMA BackedApi ==
    ASSUME TypeOK, BackedInv, Api
    PROVE  Held' /\ ActiveJobBacked'
<1>1. UNCHANGED <<streamVars, workerVars>>
  BY DEF Api, CreateJob, RetryCheck, RetryInsert, RetryRefused, DeleteSegments
<1>2. \A k \in Jobs : Unacked(k)' = Unacked(k)
  BY <1>1 DEF Unacked, Entries, streamVars
<1>3. \A k \in Jobs : /\ status'[k] \in {"queued", "running"} => status[k] = status'[k]
                      /\ k <= lastJob /\ status[k] \notin Active => status'[k] \notin Active
  <2>1. CASE \E s \in Segments \cup {NoSegment} : InsertJob(s)
    <3>1. lastJob \in Nat
      BY DEF TypeOK
    <3>2. status' = [status EXCEPT ![lastJob + 1] = "pending_enqueue"]
      BY <2>1 DEF InsertJob
    <3>3. \A k \in Jobs : status'[k] = IF k = lastJob + 1 THEN "pending_enqueue" ELSE status[k]
      BY <3>2 DEF TypeOK
    <3>4. \A k \in Jobs : k <= lastJob => k # lastJob + 1
      BY <3>1 DEF Jobs
    <3>5. QED
      BY <3>3, <3>4
  <2>2. CASE \E S \in SUBSET segments : DeleteSegments(S)
    <3>1. \A k \in Jobs : status'[k] \in {status[k], "absent"}
      BY <2>2 DEF DeleteSegments, TypeOK
    <3>2. QED
      BY <3>1 DEF Active
  <2>3. CASE \E j \in Jobs : RetryCheck(j) \/ RetryRefused(j)
    BY <2>3 DEF RetryCheck, RetryRefused, dbVars
  <2>4. QED
    BY <2>1, <2>2, <2>3 DEF Api, CreateJob, RetryInsert, TypeOK
<1>4. ActiveJobBacked'
  BY <1>2, <1>3 DEF BackedInv, ActiveJobBacked
<1>5. ASSUME NEW v \in Workers, pc[v] = "ack" PROVE status'[JobOf(v)] \notin Active
  <2>1. JobOf(v) \in Jobs /\ cur[v] \in Entries
    BY <1>5, JobOfType DEF Processing
  <2>2. JobOf(v) <= lastJob
    BY <2>1 DEF BackedInv, Inserted, JobOf
  <2>3. QED
    BY <1>3, <1>5, <2>1, <2>2 DEF BackedInv, Held
<1>6. \A v \in Workers : JobOf(v)' = JobOf(v)
  BY <1>1 DEF JobOf, streamVars, workerVars
<1>7. \A v \in Workers : \A j \in First(batch[v]) : j \in Jobs
  BY DEF First, TypeOK
<1>8. Held'
  BY <1>1, <1>2, <1>5, <1>6, <1>7 DEF BackedInv, Held, streamVars, workerVars
<1>9. QED
  BY <1>4, <1>8

\* What must hold of the only worker for Held to hold.
LEMMA HeldByOnly ==
    ASSUME OneWorker, NEW w \in Workers,
           inbox'[w] \subseteq pel',
           pc'[w] \in Processing => cur'[w] \in pel' \ inbox'[w],
           pc'[w] = "ack" => status'[JobOf(w)'] \notin Active,
           pc'[w] = "commit" => \A j \in First(batch'[w]) : Unacked(j)' # {}
    PROVE  Held'
<1> SUFFICES ASSUME NEW v \in Workers
             PROVE  /\ inbox'[v] \subseteq pel'
                    /\ pc'[v] \in Processing => cur'[v] \in pel' \ inbox'[v]
                    /\ pc'[v] = "ack" => status'[JobOf(v)'] \notin Active
                    /\ pc'[v] = "commit" => \A j \in First(batch'[v]) : Unacked(j)' # {}
  BY DEF Held
<1>1. v = w
  BY DEF OneWorker
<1>2. QED
  BY <1>1

\* Restarting drops what the worker held; the entries are still pending.
LEMMA HeldRestart ==
    ASSUME OneWorker, TypeOK, NEW w \in Workers, Restart(w)
    PROVE  Held'
<1>1. inbox'[w] = {} /\ pc'[w] = "dispatch"
  BY DEF Restart, Goto, TypeOK
<1>2. QED
  BY <1>1, HeldByOnly DEF Processing

\* With the rows untouched, backing survives as long as no entry is lost.
LEMMA BackedKept ==
    ASSUME ActiveJobBacked, UNCHANGED status, \A k \in Jobs : Unacked(k) \subseteq Unacked(k)'
    PROVE  ActiveJobBacked'
BY DEF ActiveJobBacked

LEMMA BackedDispatch ==
    ASSUME OneWorker, TypeOK, BackedInv, NEW w \in Workers,
           DispatchSelect(w) \/ Publish(w) \/ DispatchCommit(w) \/ DispatchCommitRefused(w)
    PROVE  Held' /\ ActiveJobBacked'
<1>1. CASE DispatchSelect(w)
  <2>1. \A k \in Jobs : Unacked(k)' = Unacked(k)
    BY <1>1 DEF DispatchSelect, streamVars, Unacked, Entries
  <2>2. pc'[w] \in {"reclaim", "publish"}
    BY <1>1 DEF DispatchSelect, Goto, TypeOK
  <2>3. Held'
    BY <1>1, <2>2, HeldByOnly DEF DispatchSelect, BackedInv, Held, Processing, streamVars
  <2>4. QED
    BY <1>1, <2>1, <2>3, BackedKept DEF DispatchSelect, BackedInv, dbVars
<1>2. CASE Publish(w)
  <2>1. PICK j \in First(batch[w]) : stream' = Append(stream, j)
    BY <1>2 DEF Publish
  <2>2. j \in Jobs /\ First(batch[w]) = {j}
    BY DEF First, TypeOK, Jobs
  <2>3. Len(stream) + 1 \in Unacked(j)'
    BY <1>2, <2>1, <2>2 DEF Publish, TypeOK, Unacked, Entries
  <2>4. \A k \in Jobs : Unacked(k) \subseteq Unacked(k)'
    <3>1. delivered' \in Nat /\ (delivered + 1)..delivered' = {} /\ pel' = pel
      BY <1>2 DEF Publish, TypeOK
    <3>2. QED
      BY <2>1, <2>2, <3>1, UnackedGrows
  <2>5. pc'[w] = "commit" /\ batch' = batch /\ inbox' = inbox /\ pel' = pel
    BY <1>2 DEF Publish, Goto, TypeOK
  <2>6. Held'
    BY <2>2, <2>3, <2>5, HeldByOnly DEF BackedInv, Held, Processing
  <2>7. QED
    BY <1>2, <2>4, <2>6, BackedKept DEF Publish, BackedInv, dbVars
<1>3. CASE DispatchCommit(w)
  <2>1. PICK j \in First(batch[w]) : status' = [status EXCEPT ![j] = "queued"]
    BY <1>3 DEF DispatchCommit, UpdateStatus
  <2>2. \A k : Unacked(k)' = Unacked(k)
    BY <1>3 DEF DispatchCommit, streamVars, Unacked, Entries
  <2>3. Unacked(j) # {}
    BY <1>3 DEF DispatchCommit, BackedInv, Held
  <2>4. ActiveJobBacked'
    BY <2>1, <2>2, <2>3 DEF BackedInv, ActiveJobBacked, TypeOK
  <2>5. pc'[w] \in {"reclaim", "publish"}
    BY <1>3 DEF DispatchCommit, Goto, TypeOK
  <2>6. Held'
    BY <1>3, <2>5, HeldByOnly DEF DispatchCommit, BackedInv, Held, Processing, streamVars
  <2>7. QED
    BY <2>4, <2>6
<1>4. CASE DispatchCommitRefused(w)
  <2>1. UNCHANGED <<status, streamVars>> /\ Restart(w)
    BY <1>4 DEF DispatchCommitRefused, UpdateRefused
  <2>2. \A k \in Jobs : Unacked(k)' = Unacked(k)
    BY <2>1 DEF streamVars, Unacked, Entries
  <2>3. QED
    BY <2>1, <2>2, HeldRestart, BackedKept DEF BackedInv
<1>5. QED
  BY <1>1, <1>2, <1>3, <1>4

LEMMA BackedRead ==
    ASSUME OneWorker, TypeOK, BackedInv, NEW w \in Workers,
           \/ \E S \in SUBSET pel : Reclaim(w, S)
           \/ ReadNew(w) \/ TakeMessage(w) \/ RoundDone(w)
    PROVE  Held' /\ ActiveJobBacked'
<1>1. CASE \E S \in SUBSET pel : Reclaim(w, S)
  <2>1. PICK S \in SUBSET pel : Reclaim(w, S)
    BY <1>1
  <2>2. inbox'[w] \subseteq pel' /\ pc'[w] = "read"
    BY <2>1 DEF Reclaim, Reclaimed, Goto, TypeOK, streamVars
  <2>3. \A k \in Jobs : Unacked(k)' = Unacked(k)
    BY <2>1 DEF Reclaim, streamVars, Unacked, Entries
  <2>4. QED
    BY <2>1, <2>2, <2>3, HeldByOnly, BackedKept DEF Reclaim, BackedInv, dbVars, Processing
<1>2. CASE ReadNew(w)
  <2>1. PICK last : last = IF delivered + ReadCount <= Len(stream)
                             THEN delivered + ReadCount ELSE Len(stream)
    OBVIOUS
  <2>2. last \in 0..Len(stream) /\ delivered <= last
    BY <2>1, NextDelivery
  <2>3. /\ delivered' = last
        /\ pel' = pel \cup (delivered + 1)..last
        /\ inbox' = [inbox EXCEPT ![w] = @ \cup (delivered + 1)..last]
    BY <1>2, <2>1 DEF ReadNew
  <2>4. inbox'[w] \subseteq pel' /\ pc'[w] = "next"
    BY <1>2, <2>3 DEF ReadNew, Goto, TypeOK, BackedInv, Held
  <2>5. last \in Nat
    BY <2>2 DEF TypeOK
  <2>6. \A k \in Jobs : Unacked(k) \subseteq Unacked(k)'
    BY <1>2, <2>3, <2>5, UnackedGrows DEF ReadNew
  <2>7. QED
    BY <1>2, <2>4, <2>6, HeldByOnly, BackedKept DEF ReadNew, BackedInv, dbVars, Processing
<1>3. CASE TakeMessage(w)
  <2>1. PICK i \in inbox[w] : /\ cur' = [cur EXCEPT ![w] = i]
                              /\ inbox' = [inbox EXCEPT ![w] = @ \ {i}]
    BY <1>3 DEF TakeMessage, First
  <2>2. inbox[w] \subseteq pel /\ pel' = pel
    BY <1>3 DEF TakeMessage, streamVars, BackedInv, Held
  <2>3. cur'[w] = i /\ inbox'[w] = inbox[w] \ {i} /\ pc'[w] = "mark_queued"
    BY <1>3, <2>1 DEF TakeMessage, Goto, TypeOK
  <2>4. \A k \in Jobs : Unacked(k)' = Unacked(k)
    BY <1>3 DEF TakeMessage, streamVars, Unacked, Entries
  <2>5. QED
    BY <1>3, <2>2, <2>3, <2>4, HeldByOnly, BackedKept DEF TakeMessage, BackedInv, dbVars
<1>4. CASE RoundDone(w)
  <2>1. inbox'[w] \subseteq pel' /\ pc'[w] = "dispatch"
    BY <1>4 DEF RoundDone, Goto, TypeOK
  <2>2. \A k \in Jobs : Unacked(k)' = Unacked(k)
    BY <1>4 DEF RoundDone, streamVars, Unacked, Entries
  <2>3. QED
    BY <1>4, <2>1, <2>2, HeldByOnly, BackedKept DEF RoundDone, BackedInv, dbVars, Processing
<1>5. QED
  BY <1>1, <1>2, <1>3, <1>4

LEMMA BackedProcess ==
    ASSUME OneWorker, TypeOK, BackedInv, NEW w \in Workers,
           \/ MarkQueued(w) \/ MarkRunning(w) \/ LoadRows(w)
           \/ Translate(w) \/ RequestInvalid(w)
           \/ SaveResult(w) \/ SaveRefused(w) \/ RecordFailure(w) \/ RecordFailureRefused(w)
           \/ Abandon(w) \/ Ack(w)
    PROVE  Held' /\ ActiveJobBacked'
<1>1. pc[w] \in Processing
  BY DEF MarkQueued, MarkRunning, LoadRows, Translate, RequestInvalid, SaveResult, SaveRefused,
         RecordFailure, RecordFailureRefused, Abandon, Ack, Processing
<1>2. JobOf(w) \in Jobs /\ cur[w] \in Entries /\ cur[w] \in pel \ inbox[w]
  BY <1>1, JobOfType DEF BackedInv, Held
<1>3. cur[w] \in Unacked(JobOf(w))
  BY <1>2 DEF Unacked, JobOf
<1>4. CASE Ack(w)
  <2>1. JobOf(w) \in Jobs /\ status[JobOf(w)] \notin {"queued", "running"}
    BY <1>2, <1>4 DEF Ack, BackedInv, Held, Active
  <2>2. \A k \in Jobs : k # JobOf(w) => Unacked(k)' = Unacked(k)
    BY <1>4 DEF Ack, Unacked, Entries, JobOf
  <2>3. ActiveJobBacked'
    BY <1>4, <2>1, <2>2 DEF Ack, BackedInv, ActiveJobBacked, dbVars
  <2>4. pc'[w] = "next" /\ inbox'[w] \subseteq pel'
    BY <1>2, <1>4 DEF Ack, Leave, Goto, TypeOK, BackedInv, Held
  <2>5. QED
    BY <2>3, <2>4, HeldByOnly DEF Processing
<1>5. CASE ~Ack(w)
  <2>1. UNCHANGED <<streamVars, inbox>>
    BY <1>5 DEF MarkQueued, MarkRunning, LoadRows, Translate, RequestInvalid, SaveResult,
       SaveRefused,
       RecordFailure, RecordFailureRefused, Abandon, MarkJobState
  <2>2. \A k : Unacked(k)' = Unacked(k)
    BY <2>1 DEF streamVars, Unacked, Entries
  <2>3. \A k \in Jobs : k # JobOf(w) => status'[k] = status[k]
    BY <1>5 DEF MarkQueued, MarkRunning, LoadRows, Translate, RequestInvalid, SaveResult,
       SaveRefused,
       RecordFailure, RecordFailureRefused, Abandon, MarkJobState, UpdateStatus, UpdateRefused,
       dbVars, TypeOK
  <2>4. ActiveJobBacked'
    BY <1>3, <2>2, <2>3 DEF BackedInv, ActiveJobBacked
  <2>5. (pc'[w] \in Processing /\ cur' = cur) \/ pc'[w] = "next"
    BY <1>5 DEF MarkQueued, MarkRunning, LoadRows, LoadOutcome, Translate, RequestInvalid,
       SaveResult, SaveRefused,
       RecordFailure, RecordFailureRefused, Abandon, Leave, Goto, Processing, TypeOK
  <2>6. pc'[w] = "ack" => cur' = cur /\ status'[JobOf(w)] \notin Active
    BY <1>2, <1>5 DEF MarkQueued, MarkRunning, LoadRows, LoadOutcome, Translate, RequestInvalid,
       SaveResult,
       SaveRefused, RecordFailure, RecordFailureRefused, Abandon, Leave, Goto, UpdateStatus,
       dbVars, TypeOK, Active
  <2>7. pc'[w] = "ack" => JobOf(w)' = JobOf(w)
    BY <2>1, <2>6 DEF JobOf, streamVars
  <2>8. Held'
    BY <1>2, <2>1, <2>5, <2>6, <2>7, HeldByOnly DEF BackedInv, Held, Processing, streamVars
  <2>9. QED
    BY <2>4, <2>8
<1>6. QED
  BY <1>4, <1>5

LEMMA BackedFault ==
    ASSUME OneWorker, TypeOK, BackedInv, NEW w \in Workers, WorkerFault(w)
    PROVE  Held' /\ ActiveJobBacked'
<1>1. UNCHANGED status
  BY DEF WorkerFault, PublishFails, DispatchCommitFails, ReadFails, DatabaseFails, AckFails, Crash,
     dbVars
<1>2. CASE PublishFails(w)
  <2>1. PICK j \in First(batch[w]) : /\ stream' \in {stream, Append(stream, j)}
                                     /\ pc'[w] \in {"reclaim", "dispatch"}
    BY <1>2 DEF PublishFails, Goto, TypeOK
  <2>2. j \in Jobs
    BY DEF First, TypeOK
  <2>3. delivered' \in Nat /\ (delivered + 1)..delivered' = {} /\ pel' = pel /\ inbox' = inbox
    BY <1>2 DEF PublishFails, TypeOK
  <2>4. \A k \in Jobs : Unacked(k) \subseteq Unacked(k)'
    BY <2>1, <2>2, <2>3, UnackedGrows
  <2>5. Held'
    BY <2>1, <2>3, HeldByOnly DEF BackedInv, Held, Processing
  <2>6. QED
    BY <1>1, <2>4, <2>5, BackedKept DEF BackedInv
<1>3. CASE DispatchCommitFails(w) \/ Crash(w)
  <2>1. Restart(w) /\ UNCHANGED streamVars
    BY <1>3 DEF DispatchCommitFails, Crash
  <2>2. \A k \in Jobs : Unacked(k)' = Unacked(k)
    BY <2>1 DEF streamVars, Unacked, Entries
  <2>3. QED
    BY <1>1, <2>1, <2>2, HeldRestart, BackedKept DEF BackedInv
<1>4. CASE ReadFails(w)
  <2>1. delivered' \in Nat /\ pel' = pel \cup (delivered + 1)..delivered'
    <3>1. /\ delivered' = IF delivered + ReadCount <= Len(stream)
                          THEN delivered + ReadCount ELSE Len(stream)
          /\ pel' = pel \cup (delivered + 1)..delivered'
      BY <1>4 DEF ReadFails
    <3>2. TypeOK
      OBVIOUS
    <3>3. delivered' \in 0..Len(stream)
      BY <3>1, <3>2, NextDelivery
    <3>4. Len(stream) \in Nat
      BY <3>2 DEF TypeOK
    <3> QED
      BY <3>1, <3>3, <3>4
  <2>2. \A k \in Jobs : Unacked(k) \subseteq Unacked(k)'
    BY <1>4, <2>1, UnackedGrows DEF ReadFails
  <2>3. QED
    BY <1>1, <1>4, <2>2, HeldRestart, BackedKept DEF ReadFails, BackedInv
<1>5. CASE DatabaseFails(w)
  <2>1. UNCHANGED <<streamVars, inbox>>
    BY <1>5 DEF DatabaseFails
  <2>2. \A k \in Jobs : Unacked(k)' = Unacked(k)
    BY <2>1 DEF streamVars, Unacked, Entries
  <2>3. \/ pc[w] \in Processing /\ pc'[w] \in Processing \ {"ack"} /\ cur' = cur
        \/ pc'[w] = "next"
    BY <1>5 DEF DatabaseFails, AfterDatabaseError, Leave, Goto, Processing, TypeOK
  <2>4. Held'
    BY <2>1, <2>3, HeldByOnly DEF BackedInv, Held, Processing, streamVars
  <2>5. QED
    BY <1>1, <2>2, <2>4, BackedKept DEF BackedInv
<1>6. CASE AckFails(w)
  <2>1. /\ pc[w] = "ack"
        /\ Restart(w)
        /\ UNCHANGED <<stream, delivered>>
        /\ pel' \in {pel, pel \ {cur[w]}}
    BY <1>6 DEF AckFails
  <2>2. JobOf(w) \in Jobs /\ status[JobOf(w)] \notin {"queued", "running"}
    BY <2>1, JobOfType DEF BackedInv, Held, Active, Processing
  <2>3. \A k \in Jobs : k # JobOf(w) => Unacked(k)' = Unacked(k)
    BY <2>1 DEF Unacked, Entries, JobOf
  <2>4. ActiveJobBacked'
    BY <1>1, <2>2, <2>3 DEF BackedInv, ActiveJobBacked
  <2>5. QED
    BY <2>1, <2>4, HeldRestart
<1>7. QED
  BY <1>2, <1>3, <1>4, <1>5, <1>6 DEF WorkerFault

LEMMA BackedNext ==
    ASSUME OneWorker
    PROVE  TypeOK /\ BackedInv /\ [Next]_vars => BackedInv'
<1> SUFFICES ASSUME TypeOK, BackedInv, [Next]_vars PROVE BackedInv'
  OBVIOUS
<1>1. Inserted'
  BY InsertedStep DEF BackedInv
<1>2. Held' /\ ActiveJobBacked'
  <2>1. ASSUME NEW w \in Workers, WorkerStep(w) PROVE Held' /\ ActiveJobBacked'
    BY <2>1, BackedDispatch, BackedRead, BackedProcess DEF WorkerStep
  <2>2. CASE UNCHANGED vars
    BY <2>2 DEF vars, dbVars, streamVars, workerVars, BackedInv, Held, ActiveJobBacked, JobOf,
                Unacked, Entries
  <2>3. QED
    BY <2>1, <2>2, BackedApi, BackedFault DEF Next
<1>3. QED
  BY <1>1, <1>2 DEF BackedInv

LEMMA BackedInit == Init => BackedInv
<1> SUFFICES ASSUME Init PROVE BackedInv
  OBVIOUS
<1>1. Entries = {}
  BY DEF Init, Entries
<1>2. QED
  BY <1>1 DEF Init, BackedInv, Inserted, Held, ActiveJobBacked, Processing

LEMMA BackedAlways ==
    ASSUME OneWorker
    PROVE  Spec => []BackedInv
<1>1. TypeOK /\ BackedInv /\ [Next]_vars => BackedInv'
  BY BackedNext
<1>2. QED
  BY <1>1, BackedInit, TypeCorrect, PTL DEF Spec

\* With one worker every queued or running job has an entry that is still to be
\* acknowledged, through every crash, outage and lost reply.
THEOREM ActiveJobBackedCorrect ==
    ASSUME OneWorker
    PROVE  Spec => []ActiveJobBacked
<1>1. Spec => []BackedInv
  BY BackedAlways
<1>2. BackedInv => ActiveJobBacked
  BY DEF BackedInv
<1>3. QED
  BY <1>1, <1>2, PTL

--------------------------------------------------------------------------------
(* What a single worker may do to a settled job *)

LEMMA AckStep ==
    ASSUME TypeOK, BackedInv, [Next]_vars, NEW i \in pel \ pel'
    PROVE  status[stream[i]] \in Settled \cup {"absent"}
<1>1. PICK w \in Workers : Ack(w) \/ AckFails(w)
  <2>1. ASSUME NEW w \in Workers, WorkerStep(w) PROVE Ack(w)
    BY <2>1 DEF WorkerStep, DispatchSelect, Publish, DispatchCommit, DispatchCommitRefused, Reclaim,
       ReadNew, TakeMessage, RoundDone, MarkQueued, MarkRunning, LoadRows, Translate,
       RequestInvalid, SaveResult,
       SaveRefused, RecordFailure, RecordFailureRefused, Abandon, MarkJobState, streamVars
  <2>2. ASSUME NEW w \in Workers, WorkerFault(w) PROVE AckFails(w)
    BY <2>2 DEF WorkerFault, PublishFails, DispatchCommitFails, ReadFails, DatabaseFails, Crash,
       streamVars
  <2>3. ~Api /\ ~UNCHANGED vars
    BY DEF Api, CreateJob, RetryCheck, RetryInsert, RetryRefused, DeleteSegments, vars, streamVars
  <2>4. QED
    BY <2>1, <2>2, <2>3 DEF Next
<1>2. pc[w] = "ack" /\ i = cur[w]
  BY <1>1 DEF Ack, AckFails
<1>3. JobOf(w) = stream[i] /\ JobOf(w) \in Jobs
  BY <1>2, JobOfType DEF JobOf, Processing
<1>4. status[JobOf(w)] \in Status \ Active
  BY <1>2, <1>3 DEF BackedInv, Held, TypeOK
<1>5. QED
  BY <1>3, <1>4 DEF Status

LEMMA FinalStep ==
    ASSUME OneWorker, TypeOK, BackedInv, [Next]_vars,
           NEW j \in Jobs, status[j] \in Settled, Unacked(j) = {}
    PROVE  status'[j] \in {status[j], "absent"}
<1>1. CASE Api
  <2>1. CASE \E s \in Segments : InsertJob(s)
    <3>1. lastJob + 1 \in Jobs => status[lastJob + 1] = "absent"
      BY DEF TypeOK, Jobs
    <3>2. QED
      BY <2>1, <3>1 DEF InsertJob, TypeOK, Settled
  <2>2. CASE \E S \in SUBSET segments : DeleteSegments(S)
    BY <2>2 DEF DeleteSegments, TypeOK
  <2>3. CASE \E k \in Jobs : RetryCheck(k) \/ RetryRefused(k)
    BY <2>3 DEF RetryCheck, RetryRefused, dbVars
  <2>4. QED
    BY <1>1, <2>1, <2>2, <2>3 DEF Api, CreateJob, RetryInsert, TypeOK
<1>2. ASSUME NEW w \in Workers, WorkerStep(w) PROVE status'[j] = status[j]
  <2>1. CASE DispatchCommit(w)
    <3>1. PICK k \in First(batch[w]) : status' = [status EXCEPT ![k] = "queued"]
      BY <2>1 DEF DispatchCommit, UpdateStatus
    <3>2. k # j
      BY <2>1, <3>1 DEF DispatchCommit, BackedInv, Held
    <3>3. QED
      BY <3>1, <3>2 DEF TypeOK
  <2>2. CASE MarkQueued(w) \/ MarkRunning(w) \/ SaveResult(w) \/ RecordFailure(w) \/ Abandon(w)
    <3>1. pc[w] \in Processing
      BY <2>2 DEF MarkQueued, MarkRunning, SaveResult, RecordFailure, Abandon, Processing
    <3>2. cur[w] \in pel /\ cur[w] \in Entries
      BY <3>1, JobOfType DEF BackedInv, Held
    <3>3. JobOf(w) # j
      BY <3>2 DEF Unacked, JobOf
    <3>4. QED
      BY <2>2, <3>3 DEF MarkQueued, MarkRunning, SaveResult, RecordFailure, Abandon, MarkJobState,
                        UpdateStatus, UpdateRefused, TypeOK
  <2>3. CASE ~ (DispatchCommit(w) \/ MarkQueued(w) \/ MarkRunning(w) \/ SaveResult(w)
                \/ RecordFailure(w) \/ Abandon(w))
    BY <1>2, <2>3 DEF WorkerStep, DispatchSelect, Publish, DispatchCommitRefused, Reclaim,
       ReadNew, TakeMessage, RoundDone, LoadRows, Translate, RequestInvalid, SaveRefused,
       RecordFailureRefused,
       Ack, UpdateRefused, dbVars
  <2>4. QED
    BY <2>1, <2>2, <2>3
<1>3. ASSUME NEW w \in Workers, WorkerFault(w) PROVE status'[j] = status[j]
  BY <1>3 DEF WorkerFault, PublishFails, DispatchCommitFails, ReadFails, DatabaseFails,
              AckFails, Crash, dbVars
<1>4. CASE UNCHANGED vars
  BY <1>4 DEF vars, dbVars
<1>5. QED
  BY <1>1, <1>2, <1>3, <1>4 DEF Next

\* With one worker an acknowledged entry's job is settled or deleted.
THEOREM AckOnlySettledCorrect ==
    ASSUME OneWorker
    PROVE  Spec => AckOnlySettled
<1>1. TypeOK /\ BackedInv /\ [Next]_vars
        => [\A i \in pel \ pel' : status[stream[i]] \in Settled \cup {"absent"}]_vars
  BY AckStep
<1>2. Spec => []BackedInv
  BY BackedAlways
<1>3. QED
  BY <1>1, <1>2, TypeCorrect, PTL DEF Spec, AckOnlySettled

\* With one worker the outcome of a settled job is final once none of its
\* entries is outstanding.
THEOREM FinalMeansFinalCorrect ==
    ASSUME OneWorker
    PROVE  Spec => FinalMeansFinal
<1>1. TypeOK /\ BackedInv /\ [Next]_vars
        => [\A j \in Jobs : status[j] \in Settled /\ Unacked(j) = {}
                            => status'[j] \in {status[j], "absent"}]_vars
  BY FinalStep
<1>2. Spec => []BackedInv
  BY BackedAlways
<1>3. QED
  BY <1>1, <1>2, TypeCorrect, PTL DEF Spec, FinalMeansFinal

--------------------------------------------------------------------------------
(* With one worker a provider call is repeated only because of a fault.     *)
(* Each job has a weight, the calls made for it and those still to be       *)
(* expected.  A step without a fault raises no weight above 1, and a fault  *)
(* raises one weight by 1.                                                  *)


(* The call that entry i asks for has been made, or is about to be.         *)
Answered(i) == \E w \in Workers : pc[w] \in {"save", "record_failure", "ack"} /\ cur[w] = i
Asking(i)   == \E w \in Workers : pc[w] = "translate" /\ cur[w] = i

(* Entries of job j that will lead to a call.                               *)
Due(j) == {i \in Unacked(j) : ~Answered(i) /\ (Asking(i) \/ segmentOf[j] \in segments)}

(* Job j will get one more entry.                                           *)
ToPublish(j) ==
  status[j] = "pending_enqueue" /\ ~\E w \in Workers : pc[w] = "commit" /\ j \in First(batch[w])

Weight(j) == calls[j] + Cardinality(Due(j)) + (IF ToPublish(j) THEN 1 ELSE 0)

(* No call is made for a job that has not been created.                     *)
Uncalled == \A j \in Jobs : j > lastJob => calls[j] = 0

(* A row disappears only with its segment.                                  *)
Gone == \A j \in Jobs : j <= lastJob /\ status[j] = "absent" => segmentOf[j] \notin segments

(* What the dispatcher selected is pending still, or deleted.               *)
Selected ==
  \A w \in Workers :
    /\ pc[w] \notin {"publish", "commit"} => batch[w] = {}
    /\ \A j \in batch[w] : status[j] \in {"pending_enqueue", "absent"}

WeightWithinFaults == SumFunctionOnSet([j \in Jobs |-> Above(Weight(j))], Jobs) <= faults

Calm == Uncalled /\ Gone /\ Selected

RepeatInv == Calm /\ WeightWithinFaults

(* What a step does to the weights.                                         *)
Settles == \A j \in Jobs : Weight(j)' <= Weight(j) \/ Weight(j)' <= 1
Charges ==
  \E k \in Jobs : /\ Weight(k)' <= Weight(k) + 1
                  /\ \A j \in Jobs \ {k} : Weight(j)' <= Weight(j)

WeightStep == (faults' = faults /\ Settles) \/ (faults' = faults + 1 /\ (Settles \/ Charges))

-----------------------------------------------------------------------------
LEMMA DueIsFinite ==
  ASSUME TypeOK, NEW j \in Jobs
  PROVE  /\ IsFiniteSet(Due(j)) /\ Cardinality(Due(j)) \in Nat
         /\ Weight(j) \in Nat
<1>1. Len(stream) \in Nat
  BY DEF TypeOK
<1>2. IsFiniteSet(1..Len(stream))
  BY <1>1, FS_Interval
<1>3. Due(j) \subseteq 1..Len(stream)
  BY DEF Due, Unacked, Entries
<1>4. IsFiniteSet(Due(j))
  BY <1>2, <1>3, FS_Subset
<1>5. Cardinality(Due(j)) \in Nat /\ calls[j] \in Nat
  BY <1>4, FS_CardinalityType DEF TypeOK
<1> QED
  BY <1>4, <1>5 DEF Weight

(* A weight does not grow when none of its parts does.                      *)
LEMMA WeightKept ==
  ASSUME TypeOK, TypeOK', NEW j \in Jobs,
         calls'[j] = calls[j], Due(j)' \subseteq Due(j), ToPublish(j)' => ToPublish(j)
  PROVE  Weight(j)' <= Weight(j)
<1>1. IsFiniteSet(Due(j)) /\ Cardinality(Due(j)) \in Nat
  BY DueIsFinite
<1>2. Cardinality(Due(j)') <= Cardinality(Due(j)) /\ Cardinality(Due(j)') \in Nat
  BY <1>1, FS_Subset, FS_CardinalityType
<1>3. calls[j] \in Nat
  BY DEF TypeOK
<1>4. Weight(j)' = calls'[j] + Cardinality(Due(j)') + (IF ToPublish(j)' THEN 1 ELSE 0)
  BY DEF Weight
<1> QED
  BY <1>1, <1>2, <1>3, <1>4 DEF Weight

(* One entry more raises it by 1.                                           *)
LEMMA WeightOfEntry ==
  ASSUME TypeOK, TypeOK', NEW j \in Jobs, NEW i,
         calls'[j] = calls[j], Due(j)' \subseteq Due(j) \cup {i}, ToPublish(j)' => ToPublish(j)
  PROVE  /\ Weight(j)' <= Weight(j) + 1
         /\ ToPublish(j) /\ ~ToPublish(j)' => Weight(j)' <= Weight(j)
<1>1. IsFiniteSet(Due(j)) /\ Cardinality(Due(j)) \in Nat
  BY DueIsFinite
<1>2. /\ IsFiniteSet(Due(j) \cup {i})
      /\ Cardinality(Due(j) \cup {i}) <= Cardinality(Due(j)) + 1
      /\ Cardinality(Due(j) \cup {i}) \in Nat
  <2>1. /\ IsFiniteSet(Due(j) \cup {i})
        /\ Cardinality(Due(j) \cup {i})
             = IF i \in Due(j) THEN Cardinality(Due(j)) ELSE Cardinality(Due(j)) + 1
    BY <1>1, FS_AddElement
  <2> QED
    BY <1>1, <2>1
<1>3. Cardinality(Due(j)') <= Cardinality(Due(j)) + 1 /\ Cardinality(Due(j)') \in Nat
  BY <1>1, <1>2, FS_Subset, FS_CardinalityType
<1>4. calls[j] \in Nat
  BY DEF TypeOK
<1>5. Weight(j)' = calls'[j] + Cardinality(Due(j)') + (IF ToPublish(j)' THEN 1 ELSE 0)
  BY DEF Weight
<1> QED
  BY <1>1, <1>3, <1>4, <1>5 DEF Weight

(* So does a job that has to be published again.                            *)
LEMMA WeightOfPublishing ==
  ASSUME TypeOK, TypeOK', NEW j \in Jobs, calls'[j] = calls[j], Due(j)' \subseteq Due(j)
  PROVE  Weight(j)' <= Weight(j) + 1
<1>1. IsFiniteSet(Due(j)) /\ Cardinality(Due(j)) \in Nat
  BY DueIsFinite
<1>2. Cardinality(Due(j)') <= Cardinality(Due(j)) /\ Cardinality(Due(j)') \in Nat
  BY <1>1, FS_Subset, FS_CardinalityType
<1>3. calls[j] \in Nat
  BY DEF TypeOK
<1>4. Weight(j)' = calls'[j] + Cardinality(Due(j)') + (IF ToPublish(j)' THEN 1 ELSE 0)
  BY DEF Weight
<1> QED
  BY <1>1, <1>2, <1>3, <1>4 DEF Weight

(* A call answers an entry.                                                 *)
LEMMA WeightOfCall ==
  ASSUME TypeOK, TypeOK', NEW j \in Jobs, NEW i \in Due(j),
         calls'[j] = calls[j] + 1, Due(j)' \subseteq Due(j) \ {i}, ToPublish(j)' => ToPublish(j)
  PROVE  Weight(j)' <= Weight(j)
<1>1. IsFiniteSet(Due(j)) /\ Cardinality(Due(j)) \in Nat
  BY DueIsFinite
<1>2. IsFiniteSet(Due(j) \ {i}) /\ Cardinality(Due(j) \ {i}) = Cardinality(Due(j)) - 1
  BY <1>1, FS_RemoveElement
<1>3. Cardinality(Due(j)') <= Cardinality(Due(j)) - 1 /\ Cardinality(Due(j)') \in Nat
  BY <1>1, <1>2, FS_Subset, FS_CardinalityType
<1>4. calls[j] \in Nat
  BY DEF TypeOK
<1>5. Weight(j)' = calls'[j] + Cardinality(Due(j)') + (IF ToPublish(j)' THEN 1 ELSE 0)
  BY DEF Weight
<1> QED
  BY <1>1, <1>3, <1>4, <1>5 DEF Weight

(* A job that was just created weighs 1.                                    *)
LEMMA WeightOfNew ==
  ASSUME NEW j \in Jobs, calls'[j] = 0, Due(j)' = {}
  PROVE  Weight(j)' <= 1
<1>1. Cardinality(Due(j)') = 0
  BY FS_EmptySet
<1>2. Weight(j)' = calls'[j] + Cardinality(Due(j)') + (IF ToPublish(j)' THEN 1 ELSE 0)
  BY DEF Weight
<1> QED
  BY <1>1, <1>2

(* Only entries of the job the only worker processes can be answered.       *)
LEMMA DueOfOnly ==
  ASSUME OneWorker, NEW w \in Workers
  PROVE  /\ \A i : Answered(i) <=> pc[w] \in {"save", "record_failure", "ack"} /\ cur[w] = i
         /\ \A i : Asking(i) <=> pc[w] = "translate" /\ cur[w] = i
         /\ \A j : ToPublish(j) <=>
              status[j] = "pending_enqueue" /\ ~(pc[w] = "commit" /\ j \in First(batch[w]))
         /\ \A i : Answered(i)' <=> pc'[w] \in {"save", "record_failure", "ack"} /\ cur'[w] = i
         /\ \A i : Asking(i)' <=> pc'[w] = "translate" /\ cur'[w] = i
         /\ \A j : ToPublish(j)' <=>
              status'[j] = "pending_enqueue" /\ ~(pc'[w] = "commit" /\ j \in First(batch'[w]))
BY DEF OneWorker, Answered, Asking, ToPublish, First

(* Steps of the API.                                                        *)
LEMMA WeightApi ==
  ASSUME TypeOK, TypeOK', BackedInv, Calm, Api
  PROVE  faults' = faults /\ Settles /\ Calm'
<1>1. UNCHANGED <<streamVars, workerVars, history>>
  BY DEF Api, CreateJob, RetryCheck, RetryInsert, RetryRefused, DeleteSegments
<1>2. /\ \A i : Answered(i)' = Answered(i) /\ Asking(i)' = Asking(i)
      /\ \A k : Unacked(k)' = Unacked(k)
  BY <1>1 DEF workerVars, streamVars, Answered, Asking, Unacked, Entries
<1>3. CASE \E s \in segments : InsertJob(s) /\ segments' = segments
  <2>1. PICK s \in segments : InsertJob(s)
    BY <1>3
  <2> PICK n : n = lastJob + 1
    OBVIOUS
  <2>2. /\ lastJob \in Nat /\ n \in Jobs /\ lastJob' = n /\ segments' = segments
        /\ \A k \in Jobs : k # n => status'[k] = status[k] /\ segmentOf'[k] = segmentOf[k]
        /\ status'[n] = "pending_enqueue" /\ segmentOf'[n] = s
    BY <1>3, <2>1 DEF InsertJob, TypeOK, Jobs
  <2>3. status[n] = "absent" /\ Unacked(n) = {} /\ calls[n] = 0
    <3>1. status[n] = "absent" /\ calls[n] = 0
      BY <2>2 DEF TypeOK, Calm, Uncalled
    <3>2. \A i \in Entries : stream[i] # n
      BY <2>2 DEF BackedInv, Inserted
    <3> QED
      BY <3>1, <3>2 DEF Unacked
  <2>4. Weight(n)' <= 1
    <3>1. calls'[n] = 0 /\ Due(n)' = {}
      BY <1>1, <1>2, <2>3 DEF history, Due
    <3> QED
      BY <2>2, <3>1, WeightOfNew
  <2>5. ASSUME NEW k \in Jobs, k # n PROVE Weight(k)' <= Weight(k)
    <3>1. Due(k)' \subseteq Due(k)
      BY <1>2, <2>2, <2>5 DEF Due
    <3>2. calls'[k] = calls[k] /\ (ToPublish(k)' => ToPublish(k))
      BY <1>1, <2>2, <2>5 DEF history, ToPublish, workerVars
    <3> QED
      BY <3>1, <3>2, WeightKept
  <2>6. Calm'
    <3>1. Uncalled'
      BY <1>1, <2>2 DEF Calm, Uncalled, history, Jobs
    <3>2. Gone'
      BY <2>2 DEF Calm, Gone, Jobs
    <3>3. Selected'
      <4>1. \A w \in Workers : n \notin batch[w] /\ batch[w] \subseteq Jobs
        BY <2>2 DEF BackedInv, Inserted, TypeOK
      <4> QED
        BY <1>1, <2>2, <4>1 DEF Calm, Selected, workerVars
    <3> QED
      BY <3>1, <3>2, <3>3 DEF Calm
  <2> QED
    BY <1>1, <2>4, <2>5, <2>6 DEF Settles, history
<1>4. CASE \E S \in SUBSET segments : DeleteSegments(S)
  <2>1. PICK S \in SUBSET segments : DeleteSegments(S)
    BY <1>4
  <2>2. /\ segments' = segments \ S /\ lastJob' = lastJob /\ segmentOf' = segmentOf
        /\ \A k \in Jobs : status'[k] = IF segmentOf[k] \in S THEN "absent" ELSE status[k]
    BY <2>1 DEF DeleteSegments
  <2>3. ASSUME NEW k \in Jobs PROVE Weight(k)' <= Weight(k)
    <3>1. Due(k)' \subseteq Due(k)
      BY <1>2, <2>2 DEF Due
    <3>2. calls'[k] = calls[k] /\ (ToPublish(k)' => ToPublish(k))
      BY <1>1, <2>2 DEF history, ToPublish, workerVars
    <3> QED
      BY <3>1, <3>2, WeightKept
  <2>4. Calm'
    <3>1. Uncalled' /\ Gone'
      BY <1>1, <2>2 DEF Calm, Uncalled, Gone, history
    <3>2. Selected'
      BY <1>1, <2>2 DEF Calm, Selected, workerVars, TypeOK
    <3> QED
      BY <3>1, <3>2 DEF Calm
  <2> QED
    BY <1>1, <2>3, <2>4 DEF Settles, history
<1>5. CASE UNCHANGED dbVars
  <2>1. ASSUME NEW k \in Jobs PROVE Weight(k)' <= Weight(k)
    <3>1. Due(k)' \subseteq Due(k)
      BY <1>2, <1>5 DEF Due, dbVars
    <3>2. calls'[k] = calls[k] /\ (ToPublish(k)' => ToPublish(k))
      BY <1>1, <1>5 DEF history, ToPublish, workerVars, dbVars
    <3> QED
      BY <3>1, <3>2, WeightKept
  <2>2. Calm'
    BY <1>1, <1>5 DEF Calm, Uncalled, Gone, Selected, history, workerVars, dbVars
  <2> QED
    BY <1>1, <2>1, <2>2 DEF Settles, history
<1> QED
  BY <1>3, <1>4, <1>5 DEF Api, CreateJob, RetryInsert, RetryCheck, RetryRefused

-----------------------------------------------------------------------------
(* Steps of the worker                                                      *)

(* Every job keeps its weight or loses some.                                *)
LEMMA SettlesWhen ==
  ASSUME TypeOK, TypeOK', calls' = calls,
         \A k \in Jobs : Due(k)' \subseteq Due(k) /\ (ToPublish(k)' => ToPublish(k))
  PROVE  Settles
<1>1. ASSUME NEW k \in Jobs PROVE Weight(k)' <= Weight(k)
  BY WeightKept
<1> QED
  BY <1>1 DEF Settles

(* Only an appended entry is a new one to be acknowledged.                  *)
LEMMA UnackedShrinks ==
  ASSUME TypeOK, stream' = stream, delivered' \in Nat, delivered <= delivered',
         pel' \subseteq pel \cup (delivered + 1)..delivered'
  PROVE  \A k : Unacked(k)' \subseteq Unacked(k)
<1> SUFFICES ASSUME NEW k, NEW i \in Unacked(k)' PROVE i \in Unacked(k)
  OBVIOUS
<1>1. i \in Entries /\ stream[i] = k /\ (i \in pel' \/ i > delivered')
  BY DEF Unacked, Entries
<1>2. i \in pel \/ i > delivered
  BY <1>1 DEF TypeOK, Entries
<1> QED
  BY <1>1, <1>2 DEF Unacked

LEMMA UnackedAppended ==
  ASSUME TypeOK, NEW j \in Jobs, stream' = Append(stream, j), delivered' = delivered, pel' = pel
  PROVE  /\ Unacked(j)' \subseteq Unacked(j) \cup {Len(stream) + 1}
         /\ \A k \in Jobs \ {j} : Unacked(k)' \subseteq Unacked(k)
<1> SUFFICES ASSUME NEW k, NEW i \in Unacked(k)', ~(k = j /\ i = Len(stream) + 1)
             PROVE  i \in Unacked(k)
  OBVIOUS
<1>1. i \in 1..Len(stream') /\ stream'[i] = k /\ (i \in pel \/ i > delivered)
  BY DEF Unacked, Entries
<1>2. i \in 1..Len(stream) /\ stream[i] = k
  BY <1>1 DEF TypeOK
<1> QED
  BY <1>1, <1>2 DEF Unacked, Entries

(* Who restarts the worker, or moves it on, without touching the stream.    *)
LEMMA SameEntries ==
  ASSUME TypeOK, UNCHANGED streamVars
  PROVE  \A k : Unacked(k)' = Unacked(k)
BY DEF streamVars, Unacked, Entries

LEMMA FirstIsOne ==
  ASSUME TypeOK, NEW w \in Workers, NEW j \in First(batch[w])
  PROVE  j \in Jobs /\ j \in batch[w] /\ First(batch[w]) = {j}
BY DEF First, TypeOK, Jobs

(* A row that is gone has lost its segment.                                 *)
LEMMA AbsentMeansGone ==
  ASSUME TypeOK, BackedInv, Calm, NEW j \in Jobs, status[j] = "absent",
         (\E w \in Workers : j \in batch[w]) \/ (\E i \in Entries : stream[i] = j)
  PROVE  segmentOf[j] \notin segments
<1>1. j <= lastJob
  BY DEF BackedInv, Inserted
<1> QED
  BY <1>1 DEF Calm, Gone

LEMMA WeightDispatch ==
  ASSUME OneWorker, TypeOK, TypeOK', BackedInv, OneActiveJobPerSegment, Calm, NEW w \in Workers,
         DispatchSelect(w) \/ Publish(w) \/ DispatchCommit(w) \/ DispatchCommitRefused(w)
  PROVE  faults' = faults /\ Settles
<1>1. CASE DispatchSelect(w)
  <2>1. /\ pc[w] = "dispatch" /\ pc'[w] \in {"reclaim", "publish"}
        /\ UNCHANGED <<dbVars, streamVars, history>>
    BY <1>1 DEF DispatchSelect, Goto, TypeOK
  <2>2. ASSUME NEW k \in Jobs PROVE Due(k)' \subseteq Due(k) /\ (ToPublish(k)' => ToPublish(k))
    BY <2>1, DueOfOnly, SameEntries DEF Due, dbVars
  <2> QED
    BY <2>1, <2>2, SettlesWhen DEF history
<1>2. CASE Publish(w)
  <2>1. PICK j \in First(batch[w]) : stream' = Append(stream, j)
    BY <1>2 DEF Publish
  <2>2. j \in Jobs /\ j \in batch[w] /\ First(batch[w]) = {j}
    BY FirstIsOne
  <2>3. /\ pc[w] = "publish" /\ pc'[w] = "commit"
        /\ UNCHANGED <<dbVars, delivered, pel, batch, history>>
    BY <1>2 DEF Publish, Goto, TypeOK
  <2>4. /\ Unacked(j)' \subseteq Unacked(j) \cup {Len(stream) + 1}
        /\ \A k \in Jobs \ {j} : Unacked(k)' \subseteq Unacked(k)
    BY <2>1, <2>2, <2>3, UnackedAppended
  <2>5. \A i : ~Answered(i) /\ ~Answered(i)' /\ ~Asking(i) /\ ~Asking(i)'
    BY <2>3, DueOfOnly
  <2>6. ASSUME NEW k \in Jobs \ {j} PROVE Weight(k)' <= Weight(k)
    <3>1. Due(k)' \subseteq Due(k)
      BY <2>3, <2>4, <2>5, <2>6 DEF Due, dbVars
    <3>2. calls'[k] = calls[k] /\ (ToPublish(k)' => ToPublish(k))
      BY <2>2, <2>3, <2>6, DueOfOnly DEF history, dbVars
    <3> QED
      BY <3>1, <3>2, WeightKept
  <2>7. calls'[j] = calls[j] /\ ~ToPublish(j)'
    BY <2>2, <2>3, DueOfOnly DEF history
  <2>8. CASE status[j] = "pending_enqueue"
    <3>1. ToPublish(j)
      BY <2>3, <2>8, DueOfOnly
    <3>2. Due(j)' \subseteq Due(j) \cup {Len(stream) + 1}
      BY <2>3, <2>4, <2>5 DEF Due, dbVars
    <3>3. Weight(j)' <= Weight(j)
      BY <2>2, <2>7, <3>1, <3>2, WeightOfEntry
    <3> QED
      BY <2>3, <2>6, <3>3 DEF Settles, history
  <2>9. CASE status[j] = "absent"
    <3>1. segmentOf[j] \notin segments
      BY <2>2, <2>9, AbsentMeansGone
    <3>2. Due(j)' \subseteq Due(j)
      BY <2>2, <2>3, <2>5, <3>1 DEF Due, dbVars
    <3>3. Weight(j)' <= Weight(j)
      BY <2>2, <2>7, <3>2, WeightKept
    <3> QED
      BY <2>3, <2>6, <3>3 DEF Settles, history
  <2> QED
    BY <2>2, <2>8, <2>9 DEF Calm, Selected
<1>3. CASE DispatchCommit(w)
  <2>1. PICK j \in First(batch[w]) : status' = [status EXCEPT ![j] = "queued"]
    BY <1>3 DEF DispatchCommit, UpdateStatus
  <2>2. j \in Jobs /\ First(batch[w]) = {j}
    BY FirstIsOne
  <2>3. /\ pc[w] = "commit" /\ pc'[w] \in {"reclaim", "publish"}
        /\ UNCHANGED <<segments, segmentOf, streamVars, history>>
    BY <1>3 DEF DispatchCommit, Goto, TypeOK
  <2>4. ASSUME NEW k \in Jobs PROVE Due(k)' \subseteq Due(k) /\ (ToPublish(k)' => ToPublish(k))
    <3>1. Due(k)' \subseteq Due(k)
      BY <2>3, DueOfOnly, SameEntries DEF Due
    <3>2. status'[k] = "pending_enqueue" => k # j /\ status[k] = "pending_enqueue"
      BY <2>1, <2>2 DEF TypeOK
    <3> QED
      BY <2>2, <2>3, <3>1, <3>2, DueOfOnly
  <2> QED
    BY <2>3, <2>4, SettlesWhen DEF history
<1>4. CASE DispatchCommitRefused(w)
  <2>1. PICK j \in First(batch[w]) : UpdateRefused(j, "queued")
    BY <1>4 DEF DispatchCommitRefused
  <2>2. j \in Jobs /\ j \in batch[w] /\ First(batch[w]) = {j}
    BY FirstIsOne
  <2>3. /\ pc[w] = "commit" /\ pc'[w] = "dispatch"
        /\ UNCHANGED <<status, segments, segmentOf, streamVars, history>>
    BY <1>4, <2>1 DEF DispatchCommitRefused, UpdateRefused, Restart, Goto, TypeOK
  <2>4. status[j] # "pending_enqueue"
    <3>1. SUFFICES ASSUME status[j] = "pending_enqueue" PROVE ActiveJobs(segmentOf[j]) \subseteq {j}
      BY <2>1 DEF UpdateRefused, IndexAllows
    <3>2. status[j] \in Active
      BY <3>1 DEF Active
    <3> QED
      BY <2>2, <3>2 DEF OneActiveJobPerSegment, ActiveJobs
  <2>5. ASSUME NEW k \in Jobs PROVE Due(k)' \subseteq Due(k) /\ (ToPublish(k)' => ToPublish(k))
    <3>1. Due(k)' \subseteq Due(k)
      BY <2>3, DueOfOnly, SameEntries DEF Due
    <3> QED
      BY <2>2, <2>3, <2>4, <3>1, DueOfOnly
  <2> QED
    BY <2>3, <2>5, SettlesWhen DEF history
<1> QED
  BY <1>1, <1>2, <1>3, <1>4

LEMMA WeightRead ==
  ASSUME OneWorker, TypeOK, TypeOK', NEW w \in Workers,
         \/ \E S \in SUBSET pel : Reclaim(w, S)
         \/ ReadNew(w) \/ TakeMessage(w) \/ RoundDone(w)
  PROVE  faults' = faults /\ Settles
<1>1. /\ pc[w] \in {"reclaim", "read", "next"} /\ pc'[w] \in {"read", "next", "mark_queued", "dispatch"}
      /\ UNCHANGED <<dbVars, history>>
  BY DEF Reclaim, ReadNew, TakeMessage, RoundDone, Goto, TypeOK
<1>2. \A k : Unacked(k)' \subseteq Unacked(k)
  <2>1. CASE ReadNew(w)
    <3>1. PICK last : last = IF delivered + ReadCount <= Len(stream)
                               THEN delivered + ReadCount ELSE Len(stream)
      OBVIOUS
    <3>2. last \in 0..Len(stream) /\ delivered <= last
      BY <3>1, NextDelivery
    <3>3. delivered' = last /\ pel' = pel \cup (delivered + 1)..last /\ stream' = stream
      BY <2>1, <3>1 DEF ReadNew
    <3>4. last \in Nat
      BY <3>2 DEF TypeOK
    <3> QED
      BY <3>2, <3>3, <3>4, UnackedShrinks
  <2>2. CASE ~ReadNew(w)
    <3>1. UNCHANGED streamVars
      BY <2>2 DEF Reclaim, TakeMessage, RoundDone
    <3> QED
      BY <3>1, SameEntries
  <2> QED
    BY <2>1, <2>2
<1>3. ASSUME NEW k \in Jobs PROVE Due(k)' \subseteq Due(k) /\ (ToPublish(k)' => ToPublish(k))
  BY <1>1, <1>2, DueOfOnly DEF Due, dbVars
<1> QED
  BY <1>1, <1>3, SettlesWhen DEF history

(* A worker that processes an entry.                                        *)
LEMMA WeightProcess ==
  ASSUME OneWorker, TypeOK, TypeOK', BackedInv, Calm, NEW w \in Workers,
         \/ MarkQueued(w) \/ MarkRunning(w) \/ LoadRows(w)
         \/ Translate(w) \/ RequestInvalid(w)
         \/ SaveResult(w) \/ SaveRefused(w) \/ RecordFailure(w) \/ RecordFailureRefused(w)
         \/ Abandon(w) \/ Ack(w)
  PROVE  faults' = faults /\ Settles
<1>1. pc[w] \in Processing
  BY DEF MarkQueued, MarkRunning, LoadRows, Translate, RequestInvalid, SaveResult, SaveRefused,
         RecordFailure, RecordFailureRefused, Abandon, Ack, Processing
<1>2. JobOf(w) \in Jobs /\ cur[w] \in Entries /\ cur[w] \in Unacked(JobOf(w))
  BY <1>1, JobOfType DEF BackedInv, Held, Unacked, JobOf
<1>3. \A k : cur[w] \in Unacked(k) => k = JobOf(w)
  BY DEF Unacked, JobOf
<1>4. UNCHANGED <<segments, segmentOf, faults>>
  BY DEF MarkQueued, MarkRunning, LoadRows, Translate, RequestInvalid, SaveResult, SaveRefused,
         RecordFailure, RecordFailureRefused, Abandon, Ack, MarkJobState, dbVars, history
<1>5. \A k \in Jobs : ToPublish(k)' => ToPublish(k)
  <2>1. \A k \in Jobs : status'[k] = "pending_enqueue" => status[k] = "pending_enqueue"
    BY DEF MarkQueued, MarkRunning, LoadRows, Translate, RequestInvalid, SaveResult, SaveRefused,
           RecordFailure, RecordFailureRefused, Abandon, Ack, MarkJobState, UpdateStatus,
           UpdateRefused, dbVars, TypeOK
  <2>2. pc[w] # "commit"
    BY <1>1 DEF Processing
  <2> QED
    BY <2>1, <2>2, DueOfOnly
<1>6. CASE MarkQueued(w) \/ MarkRunning(w)
  <2>1. /\ pc[w] \in {"mark_queued", "mark_running"} /\ pc'[w] \in {"mark_running", "load"}
        /\ UNCHANGED <<streamVars, calls>>
    BY <1>6 DEF MarkQueued, MarkRunning, MarkJobState, Goto, TypeOK, history
  <2>2. \A k \in Jobs : Due(k)' \subseteq Due(k)
    BY <1>4, <2>1, DueOfOnly, SameEntries DEF Due
  <2> QED
    BY <1>4, <1>5, <2>1, <2>2, SettlesWhen
<1>7. CASE LoadRows(w)
  <2>1. /\ pc[w] = "load" /\ pc'[w] = LoadOutcome(JobOf(w))
        /\ UNCHANGED <<streamVars, calls, cur>>
    BY <1>7 DEF LoadRows, Goto, TypeOK, history
  <2>2. pc'[w] \in {"abandon", "ack", "translate"}
    BY <2>1 DEF LoadOutcome
  <2>3. pc'[w] = "translate" => segmentOf[JobOf(w)] \in segments
    BY <2>1 DEF LoadOutcome
  <2>4. \A k \in Jobs : Due(k)' \subseteq Due(k)
    BY <1>3, <1>4, <2>1, <2>2, <2>3, DueOfOnly, SameEntries DEF Due
  <2> QED
    BY <1>4, <1>5, <2>1, <2>4, SettlesWhen
<1>8. CASE Translate(w)
  <2> PICK j : j = JobOf(w)
    OBVIOUS
  <2>1. /\ pc[w] = "translate" /\ pc'[w] \in {"save", "record_failure"}
        /\ UNCHANGED <<streamVars, cur>>
        /\ calls' = [calls EXCEPT ![j] = @ + 1]
    BY <1>8 DEF Translate, Goto, TypeOK
  <2>2. j \in Jobs /\ cur[w] \in Due(j)
    BY <1>2, <2>1, DueOfOnly DEF Due
  <2>3. \A k \in Jobs : Due(k)' \subseteq Due(k) \ {cur[w]}
    BY <1>4, <2>1, DueOfOnly, SameEntries DEF Due
  <2>4. Weight(j)' <= Weight(j)
    <3>1. calls'[j] = calls[j] + 1
      BY <2>1, <2>2 DEF TypeOK
    <3> QED
      BY <1>5, <2>2, <2>3, <3>1, WeightOfCall
  <2>5. ASSUME NEW k \in Jobs, k # j PROVE Weight(k)' <= Weight(k)
    <3>1. calls'[k] = calls[k]
      BY <2>1, <2>5 DEF TypeOK
    <3>2. Due(k)' \subseteq Due(k)
      BY <2>3
    <3> QED
      BY <1>5, <3>1, <3>2, WeightKept
  <2> QED
    BY <1>4, <2>4, <2>5 DEF Settles
<1>9. CASE SaveResult(w) \/ RecordFailure(w)
  <2>1. /\ pc[w] \in {"save", "record_failure"} /\ pc'[w] = "ack"
        /\ UNCHANGED <<streamVars, calls, cur>>
    BY <1>9 DEF SaveResult, RecordFailure, Goto, TypeOK, history
  <2>2. \A k \in Jobs : Due(k)' \subseteq Due(k)
    BY <1>4, <2>1, DueOfOnly, SameEntries DEF Due
  <2> QED
    BY <1>4, <1>5, <2>1, <2>2, SettlesWhen
<1>10. CASE SaveRefused(w) \/ RecordFailureRefused(w)
  <2>1. /\ pc[w] \in {"save", "record_failure"} /\ pc'[w] \in {"abandon", "next"}
        /\ UNCHANGED <<streamVars, calls>>
    BY <1>10 DEF SaveRefused, RecordFailureRefused, Leave, Goto, TypeOK, history
  <2>2. status[JobOf(w)] = "absent"
    BY <1>10 DEF SaveRefused, RecordFailureRefused, UpdateRefused, IndexAllows, Active
  <2>3. segmentOf[JobOf(w)] \notin segments
    BY <1>2, <2>2, AbsentMeansGone DEF JobOf
  <2>4. \A k \in Jobs : Due(k)' \subseteq Due(k)
    BY <1>3, <1>4, <2>1, <2>3, DueOfOnly, SameEntries DEF Due
  <2> QED
    BY <1>4, <1>5, <2>1, <2>4, SettlesWhen
<1>11. CASE Abandon(w)
  <2>1. pc[w] = "abandon" /\ pc'[w] = "next" /\ UNCHANGED <<streamVars, calls>>
    BY <1>11 DEF Abandon, MarkJobState, Leave, Goto, TypeOK, history
  <2>2. \A k \in Jobs : Due(k)' \subseteq Due(k)
    BY <1>4, <2>1, DueOfOnly, SameEntries DEF Due
  <2> QED
    BY <1>4, <1>5, <2>1, <2>2, SettlesWhen
<1>12. CASE Ack(w)
  <2>1. /\ pc[w] = "ack" /\ pc'[w] = "next" /\ pel' = pel \ {cur[w]}
        /\ UNCHANGED <<stream, delivered, calls>>
    BY <1>12 DEF Ack, Leave, Goto, TypeOK, history
  <2>2. \A k : Unacked(k)' \subseteq Unacked(k) \ {cur[w]}
    BY <2>1 DEF Unacked, Entries, TypeOK
  <2>3. \A k \in Jobs : Due(k)' \subseteq Due(k)
    BY <1>4, <2>1, <2>2, DueOfOnly DEF Due
  <2> QED
    BY <1>4, <1>5, <2>1, <2>3, SettlesWhen
<1>13. CASE RequestInvalid(w)
  <2>1. pc[w] = "translate" /\ pc'[w] = "abandon" /\ UNCHANGED <<streamVars, calls>>
    BY <1>13 DEF RequestInvalid, Goto, TypeOK, history
  <2>2. \A k \in Jobs : Due(k)' \subseteq Due(k)
    BY <1>3, <1>4, <2>1, DueOfOnly, SameEntries DEF Due
  <2> QED
    BY <1>4, <1>5, <2>1, <2>2, SettlesWhen
<1> QED
  BY <1>6, <1>7, <1>8, <1>9, <1>10, <1>11, <1>12, <1>13

(* One job is charged for a fault.                                          *)
LEMMA ChargesWhen ==
  ASSUME TypeOK, TypeOK', NEW j \in Jobs, calls' = calls, Weight(j)' <= Weight(j) + 1,
         \A k \in Jobs \ {j} : Due(k)' \subseteq Due(k) /\ (ToPublish(k)' => ToPublish(k))
  PROVE  Charges
<1>1. ASSUME NEW k \in Jobs \ {j} PROVE Weight(k)' <= Weight(k)
  BY WeightKept
<1> QED
  BY <1>1 DEF Charges

(* A call that was made is lost with the entry unacknowledged.              *)
LEMMA ChargeForAnswer ==
  ASSUME OneWorker, TypeOK, TypeOK', NEW w \in Workers,
         pc[w] \in {"save", "record_failure", "ack"},
         pc'[w] \in {"dispatch", "abandon", "next"},
         UNCHANGED <<dbVars, stream, delivered, calls>>, pel' \subseteq pel
  PROVE  Charges
<1>1. JobOf(w) \in Jobs
  BY JobOfType DEF Processing
<1>2. \A k : Unacked(k)' \subseteq Unacked(k)
  <2>1. delivered \in Nat
    BY DEF TypeOK
  <2> QED
    BY <2>1, UnackedShrinks
<1>3. \A k \in Jobs : ToPublish(k)' => ToPublish(k)
  BY DueOfOnly DEF dbVars
<1> PICK j : j = JobOf(w)
  OBVIOUS
<1>4. Due(j)' \subseteq Due(j) \cup {cur[w]}
  BY <1>2, DueOfOnly DEF Due, dbVars
<1>5. \A k \in Jobs \ {j} : cur[w] \notin Unacked(k)
  BY DEF Unacked, JobOf
<1>6. \A k \in Jobs \ {j} : Due(k)' \subseteq Due(k)
  BY <1>2, <1>5, DueOfOnly DEF Due, dbVars
<1>7. Weight(j)' <= Weight(j) + 1
  BY <1>1, <1>3, <1>4, WeightOfEntry
<1> QED
  BY <1>1, <1>3, <1>6, <1>7, ChargesWhen

(* The worker starts again from nothing.                                    *)
LEMMA ChargeForRestart ==
  ASSUME OneWorker, TypeOK, TypeOK', NEW w \in Workers, pc'[w] = "dispatch",
         UNCHANGED <<dbVars, streamVars, calls>>
  PROVE  Settles \/ Charges
<1>1. CASE pc[w] \in {"save", "record_failure", "ack"}
  BY <1>1, ChargeForAnswer DEF streamVars
<1>2. CASE pc[w] = "commit"
  <2>1. \A k \in Jobs : Due(k)' \subseteq Due(k)
    BY <1>2, DueOfOnly, SameEntries DEF Due, dbVars
  <2>2. CASE First(batch[w]) = {}
    <3>1. \A k \in Jobs : ToPublish(k)' => ToPublish(k)
      BY <2>2, DueOfOnly DEF dbVars
    <3> QED
      BY <2>1, <3>1, SettlesWhen
  <2>3. CASE First(batch[w]) # {}
    <3>1. PICK j \in First(batch[w]) : TRUE
      BY <2>3
    <3>2. j \in Jobs /\ First(batch[w]) = {j}
      BY FirstIsOne
    <3>3. \A k \in Jobs \ {j} : ToPublish(k)' => ToPublish(k)
      BY <3>2, DueOfOnly DEF dbVars
    <3>4. Weight(j)' <= Weight(j) + 1
      BY <2>1, <3>2, WeightOfPublishing
    <3> QED
      BY <2>1, <3>2, <3>3, <3>4, ChargesWhen
  <2> QED
    BY <2>2, <2>3
<1>3. CASE pc[w] \notin {"save", "record_failure", "ack", "commit"}
  <2>1. \A k \in Jobs : Due(k)' \subseteq Due(k) /\ (ToPublish(k)' => ToPublish(k))
    BY <1>3, DueOfOnly, SameEntries DEF Due, dbVars
  <2> QED
    BY <2>1, SettlesWhen
<1> QED
  BY <1>1, <1>2, <1>3

LEMMA WeightFault ==
  ASSUME OneWorker, TypeOK, TypeOK', NEW w \in Workers, WorkerFault(w)
  PROVE  faults' = faults + 1 /\ (Settles \/ Charges)
<1>1. faults' = faults + 1 /\ UNCHANGED <<dbVars, calls>>
  BY DEF WorkerFault, PublishFails, DispatchCommitFails, ReadFails, DatabaseFails, AckFails, Crash,
         Fault
<1>2. CASE PublishFails(w)
  <2>1. PICK j \in First(batch[w]) : /\ stream' \in {stream, Append(stream, j)}
                                     /\ pc'[w] \in {"reclaim", "dispatch"}
    BY <1>2 DEF PublishFails, Goto, TypeOK
  <2>2. j \in Jobs
    BY FirstIsOne
  <2>3. pc[w] = "publish" /\ UNCHANGED <<delivered, pel>>
    BY <1>2 DEF PublishFails
  <2>4. \A k \in Jobs : ToPublish(k)' => ToPublish(k)
    BY <1>1, <2>1, <2>3, DueOfOnly DEF dbVars
  <2>5. \A i : ~Answered(i) /\ ~Answered(i)' /\ ~Asking(i) /\ ~Asking(i)'
    BY <2>1, <2>3, DueOfOnly
  <2>6. CASE stream' = stream
    <3>1. \A k \in Jobs : Due(k)' \subseteq Due(k)
      BY <1>1, <2>3, <2>5, <2>6, SameEntries DEF Due, dbVars, streamVars
    <3> QED
      BY <1>1, <2>4, <3>1, SettlesWhen
  <2>7. CASE stream' = Append(stream, j)
    <3>1. /\ Unacked(j)' \subseteq Unacked(j) \cup {Len(stream) + 1}
          /\ \A k \in Jobs \ {j} : Unacked(k)' \subseteq Unacked(k)
      BY <2>2, <2>3, <2>7, UnackedAppended
    <3>2. /\ Due(j)' \subseteq Due(j) \cup {Len(stream) + 1}
          /\ \A k \in Jobs \ {j} : Due(k)' \subseteq Due(k)
      BY <1>1, <2>5, <3>1 DEF Due, dbVars
    <3>3. Weight(j)' <= Weight(j) + 1
      BY <1>1, <2>2, <2>4, <3>2, WeightOfEntry
    <3> QED
      BY <1>1, <2>2, <2>4, <3>2, <3>3, ChargesWhen
  <2> QED
    BY <2>1, <2>6, <2>7
<1>3. CASE DispatchCommitFails(w) \/ Crash(w)
  <2>1. pc'[w] = "dispatch" /\ UNCHANGED streamVars
    BY <1>3 DEF DispatchCommitFails, Crash, Restart, Goto, TypeOK
  <2> QED
    BY <1>1, <2>1, ChargeForRestart
<1>4. CASE ReadFails(w)
  <2>1. /\ pc[w] = "read" /\ pc'[w] = "dispatch" /\ stream' = stream
        /\ pel' = pel \cup (delivered + 1)..delivered'
    BY <1>4 DEF ReadFails, Restart, Goto, TypeOK
  <2>2. delivered' \in Nat /\ delivered <= delivered'
    <3>1. PICK last : last = IF delivered + ReadCount <= Len(stream)
                               THEN delivered + ReadCount ELSE Len(stream)
      OBVIOUS
    <3>2. last \in 0..Len(stream) /\ delivered <= last
      BY <3>1, NextDelivery
    <3>3. delivered' = last
      BY <1>4, <3>1 DEF ReadFails
    <3> QED
      BY <3>2, <3>3 DEF TypeOK
  <2>3. \A k : Unacked(k)' \subseteq Unacked(k)
    BY <2>1, <2>2, UnackedShrinks
  <2>4. \A k \in Jobs : Due(k)' \subseteq Due(k) /\ (ToPublish(k)' => ToPublish(k))
    BY <1>1, <2>1, <2>3, DueOfOnly DEF Due, dbVars
  <2> QED
    BY <1>1, <2>4, SettlesWhen
<1>5. CASE DatabaseFails(w)
  <2>1. UNCHANGED streamVars
    BY <1>5 DEF DatabaseFails
  <2>2. CASE pc[w] \in {"save", "record_failure"}
    <3>1. pc'[w] \in {"abandon", "next"}
      BY <1>5, <2>2 DEF DatabaseFails, AfterDatabaseError, Leave, Goto, TypeOK
    <3> QED
      BY <1>1, <2>1, <2>2, <3>1, ChargeForAnswer DEF streamVars
  <2>3. CASE pc[w] \notin {"save", "record_failure"}
    <3>1. /\ pc[w] \in {"mark_queued", "mark_running", "load", "abandon"}
          /\ pc'[w] \in {"mark_running", "load", "abandon", "next"}
      BY <1>5, <2>3 DEF DatabaseFails, AfterDatabaseError, Leave, Goto, TypeOK
    <3>2. \A k \in Jobs : Due(k)' \subseteq Due(k) /\ (ToPublish(k)' => ToPublish(k))
      BY <1>1, <2>1, <3>1, DueOfOnly, SameEntries DEF Due, dbVars
    <3> QED
      BY <1>1, <3>2, SettlesWhen
  <2> QED
    BY <2>2, <2>3
<1>6. CASE AckFails(w)
  <2>1. /\ pc[w] = "ack" /\ pc'[w] = "dispatch" /\ UNCHANGED <<stream, delivered>>
        /\ pel' \subseteq pel
    BY <1>6 DEF AckFails, Restart, Goto, TypeOK
  <2> QED
    BY <1>1, <2>1, ChargeForAnswer
<1> QED
  BY <1>1, <1>2, <1>3, <1>4, <1>5, <1>6 DEF WorkerFault

-----------------------------------------------------------------------------
(* The invariant                                                            *)

LEMMA UncalledKept ==
  ASSUME TypeOK, TypeOK', BackedInv, Calm, NEW w \in Workers, WorkerStep(w) \/ WorkerFault(w)
  PROVE  Uncalled'
<1>1. lastJob' = lastJob
  BY DEF WorkerStep, DispatchSelect, Publish, DispatchCommit, DispatchCommitRefused, Reclaim,
     ReadNew, TakeMessage, RoundDone, MarkQueued, MarkRunning, LoadRows, Translate,
     RequestInvalid, SaveResult,
     SaveRefused, RecordFailure, RecordFailureRefused, Abandon, Ack, MarkJobState, WorkerFault,
     PublishFails, DispatchCommitFails, ReadFails, DatabaseFails, AckFails, Crash, dbVars
<1>2. CASE Translate(w)
  <2>1. JobOf(w) \in Jobs /\ JobOf(w) <= lastJob
    BY <1>2, JobOfType DEF Translate, Processing, BackedInv, Inserted, JobOf
  <2>2. \A k \in Jobs : k # JobOf(w) => calls'[k] = calls[k]
    BY <1>2 DEF Translate, TypeOK
  <2>3. \A k \in Jobs : k > lastJob => k # JobOf(w)
    BY <2>1 DEF Jobs, TypeOK
  <2> QED
    BY <1>1, <2>2, <2>3 DEF Calm, Uncalled
<1>3. CASE ~Translate(w)
  <2>1. calls' = calls
    BY <1>3 DEF WorkerStep, DispatchSelect, Publish, DispatchCommit, DispatchCommitRefused, Reclaim,
       ReadNew, TakeMessage, RoundDone, MarkQueued, MarkRunning, LoadRows, RequestInvalid,
       SaveResult,
       SaveRefused, RecordFailure, RecordFailureRefused, Abandon, Ack, MarkJobState, WorkerFault,
       PublishFails, DispatchCommitFails, ReadFails, DatabaseFails, AckFails, Crash, Fault, history
  <2> QED
    BY <1>1, <2>1 DEF Calm, Uncalled
<1> QED
  BY <1>2, <1>3

(* The worker neither removes rows nor puts them back to pending.           *)
LEMMA RowsStay ==
  ASSUME TypeOK, NEW w \in Workers, WorkerStep(w) \/ WorkerFault(w)
  PROVE  /\ UNCHANGED <<segments, segmentOf, lastJob>>
         /\ \A j \in Jobs : status'[j] = "absent" <=> status[j] = "absent"
<1>1. UNCHANGED <<segments, segmentOf, lastJob>>
  BY DEF WorkerStep, DispatchSelect, Publish, DispatchCommit, DispatchCommitRefused, Reclaim,
     ReadNew, TakeMessage, RoundDone, MarkQueued, MarkRunning, LoadRows, Translate,
     RequestInvalid, SaveResult,
     SaveRefused, RecordFailure, RecordFailureRefused, Abandon, Ack, MarkJobState, WorkerFault,
     PublishFails, DispatchCommitFails, ReadFails, DatabaseFails, AckFails, Crash, dbVars
<1>2. \/ UNCHANGED status
      \/ \E j, s : UpdateStatus(j, s) /\ s # "absent"
  <2>1. CASE DispatchCommit(w)
    BY <2>1 DEF DispatchCommit
  <2>2. CASE MarkQueued(w) \/ MarkRunning(w) \/ Abandon(w)
    <3>1. PICK s : MarkJobState(w, s) /\ s # "absent"
      BY <2>2 DEF MarkQueued, MarkRunning, Abandon
    <3> QED
      BY <3>1 DEF MarkJobState, UpdateRefused
  <2>3. CASE SaveResult(w) \/ RecordFailure(w)
    BY <2>3 DEF SaveResult, RecordFailure
  <2>4. CASE ~(DispatchCommit(w) \/ MarkQueued(w) \/ MarkRunning(w) \/ Abandon(w)
               \/ SaveResult(w) \/ RecordFailure(w))
    BY <2>4 DEF WorkerStep, DispatchSelect, Publish, DispatchCommitRefused, Reclaim,
       ReadNew, TakeMessage, RoundDone, LoadRows, Translate, RequestInvalid, SaveRefused,
       RecordFailureRefused,
       Ack, UpdateRefused, WorkerFault, PublishFails, DispatchCommitFails, ReadFails,
       DatabaseFails, AckFails, Crash, dbVars
  <2> QED
    BY <2>1, <2>2, <2>3, <2>4
<1>3. \A j \in Jobs : status'[j] = "absent" <=> status[j] = "absent"
  <2>1. ASSUME NEW j, NEW s, UpdateStatus(j, s), s # "absent"
        PROVE  \A k \in Jobs : status'[k] = "absent" <=> status[k] = "absent"
    BY <2>1 DEF UpdateStatus, TypeOK
  <2> QED
    BY <1>2, <2>1
<1> QED
  BY <1>1, <1>3

LEMMA SelectedKept ==
  ASSUME OneWorker, TypeOK, TypeOK', Calm, NEW w \in Workers, WorkerStep(w) \/ WorkerFault(w)
  PROVE  Selected'
<1> SUFFICES /\ pc'[w] \notin {"publish", "commit"} => batch'[w] = {}
             /\ \A j \in batch'[w] : status'[j] \in {"pending_enqueue", "absent"}
  BY DEF Selected, OneWorker
<1>1. /\ pc[w] \notin {"publish", "commit"} => batch[w] = {}
      /\ batch[w] \subseteq Jobs
      /\ \A j \in batch[w] : status[j] \in {"pending_enqueue", "absent"}
  BY DEF Calm, Selected, TypeOK
<1>2. CASE DispatchSelect(w)
  <2>1. PICK S \in SUBSET Jobs : /\ \A j \in S : status[j] = "pending_enqueue"
                                /\ batch' = [batch EXCEPT ![w] = S]
                                /\ Goto(w, IF S = {} THEN "reclaim" ELSE "publish")
    BY <1>2 DEF DispatchSelect
  <2>2. batch'[w] = S /\ (pc'[w] # "publish" => S = {}) /\ status' = status
    BY <1>2, <2>1 DEF DispatchSelect, Goto, TypeOK, dbVars
  <2> QED
    BY <2>1, <2>2
<1>3. CASE Publish(w)
  <2>1. pc'[w] = "commit" /\ batch' = batch /\ status' = status
    BY <1>3 DEF Publish, Goto, TypeOK, dbVars
  <2> QED
    BY <1>1, <2>1
<1>4. CASE DispatchCommit(w)
  <2>1. PICK j \in First(batch[w]) :
          /\ status' = [status EXCEPT ![j] = "queued"]
          /\ batch' = [batch EXCEPT ![w] = @ \ {j}]
          /\ Goto(w, IF batch[w] = {j} THEN "reclaim" ELSE "publish")
    BY <1>4 DEF DispatchCommit, UpdateStatus
  <2>2. batch'[w] = batch[w] \ {j} /\ (pc'[w] # "publish" => batch[w] = {j})
    BY <2>1 DEF Goto, TypeOK
  <2>3. \A k \in batch[w] \ {j} : status'[k] = status[k]
    BY <1>1, <2>1 DEF TypeOK
  <2> QED
    BY <1>1, <2>2, <2>3
<1>5. CASE DispatchCommitRefused(w) \/ PublishFails(w) \/ DispatchCommitFails(w) \/ ReadFails(w)
           \/ AckFails(w) \/ Crash(w)
  <2>1. batch'[w] = {}
    BY <1>5 DEF DispatchCommitRefused, PublishFails, DispatchCommitFails, ReadFails, AckFails, Crash,
       Restart, TypeOK
  <2> QED
    BY <2>1
<1>6. CASE ~(DispatchSelect(w) \/ Publish(w) \/ DispatchCommit(w) \/ DispatchCommitRefused(w)
             \/ PublishFails(w) \/ DispatchCommitFails(w) \/ ReadFails(w) \/ AckFails(w) \/ Crash(w))
  <2>1. pc[w] \notin {"publish", "commit"} /\ batch' = batch
    BY <1>6 DEF WorkerStep, Reclaim, ReadNew, TakeMessage, RoundDone, MarkQueued, MarkRunning,
       LoadRows, Translate, RequestInvalid, SaveResult, SaveRefused, RecordFailure,
       RecordFailureRefused,
       Abandon, Ack, MarkJobState, WorkerFault, DatabaseFails, AfterDatabaseError
  <2> QED
    BY <1>1, <2>1
<1> QED
  BY <1>2, <1>3, <1>4, <1>5, <1>6

(* A step that settles weights, or charges a fault, keeps their sum within  *)
(* the faults.                                                              *)
LEMMA SumStep ==
  ASSUME TypeOK, TypeOK', WeightWithinFaults, WeightStep
  PROVE  WeightWithinFaults'
<1> DEFINE f == [j \in Jobs |-> Above(Weight(j)')]
           g == [j \in Jobs |-> Above(Weight(j))]
<1>1. IsFiniteSet(Jobs)
  BY ConstantsAssumption, FS_Interval DEF Jobs
<1>2. \A j \in Jobs : Weight(j) \in Nat /\ Weight(j)' \in Nat
  <2>1. ASSUME NEW j \in Jobs PROVE Weight(j) \in Nat
    BY DueIsFinite
  <2>2. ASSUME NEW j \in Jobs PROVE Weight(j)' \in Nat
    <3>1. Len(stream') \in Nat /\ calls'[j] \in Nat
      BY DEF TypeOK
    <3>2. IsFiniteSet(1..Len(stream'))
      BY <3>1, FS_Interval
    <3>3. Due(j)' \subseteq 1..Len(stream')
      BY DEF Due, Unacked, Entries
    <3>4. Cardinality(Due(j)') \in Nat
      BY <3>2, <3>3, FS_Subset, FS_CardinalityType
    <3>5. Weight(j)' = calls'[j] + Cardinality(Due(j)') + (IF ToPublish(j)' THEN 1 ELSE 0)
      BY DEF Weight
    <3> QED
      BY <3>1, <3>4, <3>5
  <2> QED
    BY <2>1, <2>2
<1>3. \A j \in Jobs : f[j] \in Nat /\ g[j] \in Nat
  BY <1>2 DEF Above
<1>4. SumFunctionOnSet(f, Jobs) \in Nat /\ SumFunctionOnSet(g, Jobs) \in Nat
  BY <1>1, <1>3, SumOfFiniteSet
<1>5. SumFunctionOnSet(g, Jobs) <= faults
  BY DEF WeightWithinFaults
<1>6. faults \in Nat
  BY DEF TypeOK
<1>7. CASE Settles
  <2>1. \A j \in Jobs : f[j] <= g[j]
    BY <1>2, <1>7 DEF Settles, Above
  <2>2. SumFunctionOnSet(f, Jobs) <= SumFunctionOnSet(g, Jobs)
    BY <1>1, <1>3, <2>1, SumMonotone
  <2>3. faults <= faults'
    BY <1>6 DEF WeightStep
  <2> HIDE DEF f, g
  <2>4. SumFunctionOnSet(f, Jobs) <= faults'
    BY <1>4, <1>5, <1>6, <2>2, <2>3 DEF TypeOK
  <2> QED
    BY <2>4 DEF WeightWithinFaults, f, Jobs
<1>8. CASE faults' = faults + 1 /\ Charges
  <2>1. PICK k \in Jobs : /\ Weight(k)' <= Weight(k) + 1
                          /\ \A j \in Jobs \ {k} : Weight(j)' <= Weight(j)
    BY <1>8 DEF Charges
  <2>2. f[k] <= g[k] + 1 /\ \A j \in Jobs \ {k} : f[j] <= g[j]
    BY <1>2, <2>1 DEF Above
  <2>3. SumFunctionOnSet(f, Jobs) <= SumFunctionOnSet(g, Jobs) + 1
    BY <1>1, <1>3, <2>2, SumGrowsByOne
  <2> HIDE DEF f, g
  <2>4. SumFunctionOnSet(f, Jobs) <= faults'
    BY <1>4, <1>5, <1>6, <1>8, <2>3
  <2> QED
    BY <2>4 DEF WeightWithinFaults, f, Jobs
<1> QED
  BY <1>7, <1>8 DEF WeightStep

LEMMA RepeatNext ==
  ASSUME OneWorker
  PROVE  TypeOK /\ TypeOK' /\ BackedInv /\ OneActiveJobPerSegment /\ RepeatInv /\ [Next]_vars
           => RepeatInv'
<1> SUFFICES ASSUME TypeOK, TypeOK', BackedInv, OneActiveJobPerSegment, RepeatInv, [Next]_vars
             PROVE  RepeatInv'
  OBVIOUS
<1>1. Calm /\ WeightWithinFaults
  BY DEF RepeatInv
<1>2. CASE Api
  <2>1. WeightStep /\ Calm'
    BY <1>1, <1>2, WeightApi DEF WeightStep
  <2> QED
    BY <1>1, <2>1, SumStep DEF RepeatInv
<1>3. ASSUME NEW w \in Workers, WorkerStep(w) \/ WorkerFault(w) PROVE RepeatInv'
  <2>1. WeightStep
    <3>1. CASE WorkerStep(w)
      <4>1. faults' = faults /\ Settles
        BY <1>1, <3>1, WeightDispatch, WeightRead, WeightProcess DEF WorkerStep
      <4> QED
        BY <4>1 DEF WeightStep
    <3>2. CASE WorkerFault(w)
      BY <3>2, WeightFault DEF WeightStep
    <3> QED
      BY <1>3, <3>1, <3>2
  <2>2. Uncalled' /\ Selected'
    BY <1>1, <1>3, UncalledKept, SelectedKept
  <2>3. Gone'
    BY <1>1, <1>3, RowsStay DEF Calm, Gone
  <2> QED
    BY <1>1, <2>1, <2>2, <2>3, SumStep DEF RepeatInv, Calm
<1>4. CASE UNCHANGED vars
  <2>1. /\ UNCHANGED <<faults, calls, status, lastJob, segments, segmentOf, pc, batch>>
        /\ \A k : Unacked(k)' = Unacked(k)
        /\ \A i : Answered(i)' = Answered(i) /\ Asking(i)' = Asking(i)
    BY <1>4 DEF vars, dbVars, streamVars, workerVars, history, Unacked, Entries, Answered, Asking
  <2>2. \A k \in Jobs : Due(k)' \subseteq Due(k) /\ (ToPublish(k)' => ToPublish(k))
    BY <2>1 DEF Due, ToPublish
  <2>3. WeightStep
    BY <2>1, <2>2, SettlesWhen DEF WeightStep
  <2>4. Calm'
    BY <1>1, <2>1 DEF Calm, Uncalled, Gone, Selected
  <2> QED
    BY <1>1, <2>3, <2>4, SumStep DEF RepeatInv
<1> QED
  BY <1>2, <1>3, <1>4 DEF Next

LEMMA RepeatInit == Init => RepeatInv
<1> SUFFICES ASSUME Init PROVE RepeatInv
  OBVIOUS
<1>1. Calm
  <2>1. lastJob = 0 /\ \A j \in Jobs : ~(j <= lastJob)
    BY DEF Init, Jobs
  <2>2. Uncalled /\ Gone
    BY <2>1 DEF Init, Uncalled, Gone
  <2>3. Selected
    BY DEF Init, Selected
  <2> QED
    BY <2>2, <2>3 DEF Calm
<1>2. Entries = {}
  BY DEF Init, Entries
<1>3. \A j \in Jobs : Weight(j) = 0
  <2>1. ASSUME NEW j \in Jobs PROVE Weight(j) = 0
    <3>1. Due(j) = {} /\ calls[j] = 0 /\ ~ToPublish(j)
      BY <1>2 DEF Init, Due, Unacked, ToPublish
    <3>2. Cardinality(Due(j)) = 0
      BY <3>1, FS_EmptySet
    <3> QED
      BY <3>1, <3>2 DEF Weight
  <2> QED
    BY <2>1
<1>4. IsFiniteSet(Jobs)
  BY ConstantsAssumption, FS_Interval DEF Jobs
<1> DEFINE g == [j \in Jobs |-> Above(Weight(j))]
<1>5. \A j \in Jobs : g[j] = 0
  BY <1>3 DEF Above
<1>6. SumFunctionOnSet(g, Jobs) = 0
  BY <1>4, <1>5, SumOfZeros
<1> QED
  BY <1>1, <1>6 DEF RepeatInv, WeightWithinFaults, Init

(* With one worker a provider call is repeated for a job only because of a  *)
(* fault: over all jobs there are no more repetitions than faults           *)
(* (translator_worker.py:167, 402-421).                                     *)
THEOREM RepeatedCallsCorrect ==
  ASSUME OneWorker
  PROVE  Spec => []RepeatedCallsWithinFaults
<1>1. TypeOK /\ TypeOK' /\ BackedInv /\ OneActiveJobPerSegment /\ RepeatInv /\ [Next]_vars
        => RepeatInv'
  BY RepeatNext
<1>2. Spec => []BackedInv
  BY BackedAlways
<1>3. Spec => []RepeatInv
  BY <1>1, <1>2, RepeatInit, TypeCorrect, OneActiveCorrect, PTL DEF Spec
<1>4. TypeOK /\ RepeatInv => RepeatedCallsWithinFaults
  <2> SUFFICES ASSUME TypeOK, RepeatInv PROVE RepeatedCallsWithinFaults
    OBVIOUS
  <2> DEFINE f == [j \in Jobs |-> Above(calls[j])]
             g == [j \in Jobs |-> Above(Weight(j))]
  <2>1. IsFiniteSet(Jobs)
    BY ConstantsAssumption, FS_Interval DEF Jobs
  <2>2. ASSUME NEW j \in Jobs PROVE f[j] \in Nat /\ g[j] \in Nat /\ f[j] <= g[j]
    <3>1. calls[j] \in Nat /\ Cardinality(Due(j)) \in Nat /\ Weight(j) \in Nat
      BY DueIsFinite DEF TypeOK
    <3>2. calls[j] <= Weight(j)
      BY <3>1 DEF Weight
    <3> QED
      BY <3>1, <3>2 DEF Above
  <2>3. SumFunctionOnSet(f, Jobs) <= SumFunctionOnSet(g, Jobs)
    BY <2>1, <2>2, SumMonotone
  <2>4. SumFunctionOnSet(f, Jobs) \in Nat /\ SumFunctionOnSet(g, Jobs) \in Nat
    BY <2>1, <2>2, SumOfFiniteSet
  <2>5. SumFunctionOnSet(g, Jobs) <= faults
    BY DEF RepeatInv, WeightWithinFaults
  <2> HIDE DEF f, g
  <2>6. SumFunctionOnSet(f, Jobs) <= faults
    BY <2>3, <2>4, <2>5 DEF TypeOK
  <2> QED
    BY <2>6 DEF RepeatedCallsWithinFaults, f
<1> QED
  BY <1>3, <1>4, TypeCorrect, PTL

===============================================================================
