-------------------------- MODULE TranslationPipeline --------------------------
(***************************************************************************)
(* Translation jobs from the API call to the settled row: the table        *)
(* translation_jobs in PostgreSQL, the HTTP handlers that insert and       *)
(* delete rows, the Redis stream with its consumer group, and the worker   *)
(* processes, each of which alternates between dispatching pending rows    *)
(* to the stream and processing the entries the group delivers to it.      *)
(*                                                                         *)
(* A database transaction is one step, and so is a Redis command.  What    *)
(* lies between two of them can interleave with other workers and with     *)
(* the API, and can be cut short by a crash.  Job ids are handed out in    *)
(* the order of created_at.                                                *)
(***************************************************************************)
EXTENDS Naturals, Sequences, FiniteSets, Functions

CONSTANTS
    Workers,               \* translator worker processes
    Segments,              \* segment ids that exist at the start
    NoSegment,             \* the segment of a job id not handed out yet
    MaxJobs,               \* bound on the rows ever inserted
    BatchSize,             \* translation_queue_batch_size
    ReadCount,             \* count of XREADGROUP and of XAUTOCLAIM
    MaxFaults,             \* bound on crashes, outages and lost replies
    ReplyForms             \* what the Redis client may return XAUTOCLAIM's reply as

ASSUME ConstantsAssumption ==
    /\ NoSegment \notin Segments
    /\ MaxJobs \in Nat
    /\ BatchSize \in Nat \ {0}
    /\ ReadCount \in Nat \ {0}
    /\ MaxFaults \in Nat
    /\ ReplyForms \subseteq {"list", "tuple"}
    /\ ReplyForms # {}

VARIABLES
    \* the database
    segments,    \* segments that exist
    lastJob,     \* the last job id handed out
    status,      \* status[j], "absent" when there is no row j
    segmentOf,   \* segmentOf[j], also the segment_id of j's messages
    \* HTTP handlers between their check and their insert
    retrying,    \* failed jobs whose retry is about to be inserted
    \* Redis
    stream,      \* the job of each stream entry, entries numbered from 1
    delivered,   \* last entry the consumer group delivered
    pel,         \* entries delivered and not acknowledged
    \* the workers
    pc,          \* where worker w is
    batch,       \* rows its dispatcher selected and has not gone through
    locks,       \* rows its dispatcher's transaction has locked
    inbox,       \* entries it read and has not taken up
    cur,         \* the entry it is processing, 0 for none
    \* history
    faults,      \* faults so far
    calls,       \* calls[j]: provider calls made for job j
    stored       \* jobs whose translation and QA report were committed

dbVars     == <<segments, lastJob, status, segmentOf>>
streamVars == <<stream, delivered, pel>>
workerVars == <<pc, batch, locks, inbox, cur>>
history    == <<faults, calls, stored>>
vars       == <<dbVars, retrying, streamVars, workerVars, history>>

Jobs    == 1..MaxJobs
Active  == {"pending_enqueue", "queued", "running"}
Settled == {"completed", "failed"}
Status  == Active \cup Settled \cup {"absent"}

\* While a worker is at one of these it processes the entry cur[w].
Processing == {"mark_queued", "mark_running", "load", "translate", "save",
               "record_failure", "abandon", "ack"}
Labels     == Processing \cup {"dispatch", "publish", "commit", "reclaim", "read", "next"}

Entries == 1..Len(stream)

Init ==
    /\ segments = Segments
    /\ lastJob = 0
    /\ status = [j \in Jobs |-> "absent"]
    /\ segmentOf = [j \in Jobs |-> NoSegment]
    /\ retrying = {}
    /\ stream = << >>
    /\ delivered = 0
    /\ pel = {}
    /\ pc = [w \in Workers |-> "dispatch"]
    /\ batch = [w \in Workers |-> {}]
    /\ locks = [w \in Workers |-> {}]
    /\ inbox = [w \in Workers |-> {}]
    /\ cur = [w \in Workers |-> 0]
    /\ faults = 0
    /\ calls = [j \in Jobs |-> 0]
    /\ stored = {}

--------------------------------------------------------------------------------
(* Rows, entries and program counters *)

\* The least element of S as a set: work is taken in the order of ids.
First(S) == {x \in S : \A y \in S : x <= y}

ActiveJobs(s) == {j \in Jobs : status[j] \in Active /\ segmentOf[j] = s}

\* Entries that will still be delivered, or may be delivered again.
Unacked(j) == {i \in Entries : stream[i] = j /\ (i \in pel \/ i > delivered)}

Published(j) == \E i \in Entries : stream[i] = j

\* Faulty variant: the index is missing.
NoIndex(j, s) == TRUE

\* uq_translation_jobs_active_segment lets row j take status s.
IndexAllows(j, s) == s \in Active => ActiveJobs(segmentOf[j]) \subseteq {j}

\* A statement that writes row j waits while another dispatcher has it locked.
LockedByOther(w, j) == \E v \in Workers \ {w} : j \in locks[v]

\* UPDATE translation_jobs SET status = s WHERE id = j, whatever the status was.
UpdateStatus(j, s) ==
    /\ status[j] # "absent"
    /\ IndexAllows(j, s)
    /\ status' = [status EXCEPT ![j] = s]

\* The same statement finds no row, or violates the index.
UpdateRefused(j, s) ==
    /\ status[j] = "absent" \/ ~IndexAllows(j, s)
    /\ UNCHANGED status

\* Faulty variant: the row is inserted without its segment.
InsertUnlinked(s) ==
    /\ lastJob < MaxJobs
    /\ lastJob' = lastJob + 1
    /\ status' = [status EXCEPT ![lastJob + 1] = "pending_enqueue"]
    /\ UNCHANGED segmentOf

InsertJob(s) ==
    /\ lastJob < MaxJobs
    /\ lastJob' = lastJob + 1
    /\ status' = [status EXCEPT ![lastJob + 1] = "pending_enqueue"]
    /\ segmentOf' = [segmentOf EXCEPT ![lastJob + 1] = s]

Goto(w, label) == pc' = [pc EXCEPT ![w] = label]

\* The loop's outer except, or a new process: what the worker held is gone.
Restart(w) ==
    /\ Goto(w, "dispatch")
    /\ batch' = [batch EXCEPT ![w] = {}]
    /\ locks' = [locks EXCEPT ![w] = {}]
    /\ inbox' = [inbox EXCEPT ![w] = {}]
    /\ cur' = [cur EXCEPT ![w] = 0]

Fault ==
    /\ faults < MaxFaults
    /\ faults' = faults + 1
    /\ UNCHANGED <<calls, stored>>

--------------------------------------------------------------------------------
(* HTTP handlers *)

\* POST /segments/{s}/translation-jobs.  The handler's own check for an active
\* job only rejects earlier what the index would reject at the commit.
CreateJob(s) ==
    /\ s \in segments
    /\ ActiveJobs(s) = {}
    /\ InsertJob(s)
    /\ UNCHANGED <<segments, retrying, streamVars, workerVars, history>>

\* POST /translation-jobs/{j}/retry reads the row and accepts only a failed one.
RetryCheck(j) ==
    /\ status[j] = "failed"
    /\ retrying' = retrying \cup {j}
    /\ UNCHANGED <<dbVars, streamVars, workerVars, history>>

\* Faulty variant: the retry is inserted beside another active job.
RetryBesideActive(j) ==
    /\ j \in retrying
    /\ segmentOf[j] \in segments
    /\ InsertJob(segmentOf[j])
    /\ retrying' = retrying \ {j}
    /\ UNCHANGED <<segments, streamVars, workerVars, history>>

\* Its commit: a new pending row for the same segment.
RetryInsert(j) ==
    /\ j \in retrying
    /\ segmentOf[j] \in segments
    /\ ActiveJobs(segmentOf[j]) = {}
    /\ InsertJob(segmentOf[j])
    /\ retrying' = retrying \ {j}
    /\ UNCHANGED <<segments, streamVars, workerVars, history>>

\* Its commit violates the index, or the foreign key of a deleted segment.
RetryRefused(j) ==
    /\ j \in retrying
    /\ segmentOf[j] \notin segments \/ ActiveJobs(segmentOf[j]) # {}
    /\ retrying' = retrying \ {j}
    /\ UNCHANGED <<dbVars, streamVars, workerVars, history>>

\* DELETE of a segment, or of a chapter or book with all its segments: their
\* job rows go with them.  It waits for rows a dispatcher has locked.
DeleteSegments(S) ==
    /\ S # {}
    /\ \A j \in Jobs, w \in Workers : j \in locks[w] => segmentOf[j] \notin S
    /\ segments' = segments \ S
    /\ status' = [j \in Jobs |-> IF segmentOf[j] \in S THEN "absent" ELSE status[j]]
    /\ UNCHANGED <<lastJob, segmentOf, retrying, streamVars, workerVars, history>>

--------------------------------------------------------------------------------
(* dispatch_pending *)

\* SELECT ... WHERE status = 'pending_enqueue' ORDER BY created_at LIMIT n
\* FOR UPDATE SKIP LOCKED.
DispatchSelect(w) ==
    /\ pc[w] = "dispatch"
    /\ LET ready == {j \in Jobs : status[j] = "pending_enqueue" /\ ~LockedByOther(w, j)}
       IN \E S \in SUBSET ready :
            /\ Cardinality(S) <= BatchSize
            /\ \A j \in ready \ S : Cardinality(S) = BatchSize /\ \A k \in S : k < j
            /\ batch' = [batch EXCEPT ![w] = S]
            /\ locks' = [locks EXCEPT ![w] = S]
            /\ Goto(w, IF S = {} THEN "reclaim" ELSE "publish")
    /\ UNCHANGED <<dbVars, retrying, streamVars, inbox, cur, history>>

\* Faulty variant: the row is committed as queued without waiting for XADD.
PublishNotAwaited(w) ==
    /\ pc[w] = "publish"
    /\ Goto(w, "commit")
    /\ UNCHANGED <<dbVars, retrying, streamVars, batch, locks, inbox, cur, history>>

\* XADD for the next selected row.  The loop tests the row as it was selected,
\* so a row another worker has moved on since is published again.
Publish(w) ==
    /\ pc[w] = "publish"
    /\ \E j \in First(batch[w]) : stream' = Append(stream, j)
    /\ Goto(w, "commit")
    /\ UNCHANGED <<dbVars, retrying, delivered, pel, batch, locks, inbox, cur, history>>

\* XADD raises, before or after Redis appended the entry.  The rollback expires
\* the loaded rows: with a row left in the batch, reading it raises again, out
\* of dispatch_pending and into the loop's outer except.
PublishFails(w) ==
    /\ pc[w] = "publish"
    /\ \E j \in First(batch[w]) :
         /\ stream' \in {stream, Append(stream, j)}
         /\ Goto(w, IF batch[w] = {j} THEN "reclaim" ELSE "dispatch")
    /\ batch' = [batch EXCEPT ![w] = {}]
    /\ locks' = [locks EXCEPT ![w] = {}]
    /\ Fault
    /\ UNCHANGED <<dbVars, retrying, delivered, pel, inbox, cur>>

\* The published row becomes queued.  The commit ends the transaction, and with
\* it the locks on the rows of the batch that are still to be published.
DispatchCommit(w) ==
    /\ pc[w] = "commit"
    /\ \E j \in First(batch[w]) :
         /\ ~LockedByOther(w, j)
         /\ UpdateStatus(j, "queued")
         /\ batch' = [batch EXCEPT ![w] = @ \ {j}]
         /\ Goto(w, IF batch[w] = {j} THEN "reclaim" ELSE "publish")
    /\ locks' = [locks EXCEPT ![w] = {}]
    /\ UNCHANGED <<segments, lastJob, segmentOf, retrying, streamVars, inbox, cur, history>>

\* The row is gone, or another job of the segment became active in between.
DispatchCommitRefused(w) ==
    /\ pc[w] = "commit"
    /\ \E j \in First(batch[w]) : ~LockedByOther(w, j) /\ UpdateRefused(j, "queued")
    /\ Restart(w)
    /\ UNCHANGED <<segments, lastJob, segmentOf, retrying, streamVars, history>>

\* The database is unavailable at the commit.
DispatchCommitFails(w) ==
    /\ pc[w] = "commit"
    /\ Restart(w)
    /\ Fault
    /\ UNCHANGED <<dbVars, retrying, streamVars>>

--------------------------------------------------------------------------------
(* Reading from the consumer group *)

\* The entries reclaim_pending returns of those XAUTOCLAIM moved to this consumer:
\* none unless the client's reply is a tuple.  The client that requirements.txt
\* pins returns a list, the fake client of the tests a tuple.
Reclaimed(form, S) == IF form = "tuple" THEN S ELSE {}

\* XAUTOCLAIM from 0-0 takes over the first ReadCount idle entries.  Any entry
\* not acknowledged may have been idle long enough, also one that another worker
\* is still processing.
Reclaim(w, S) ==
    /\ pc[w] = "reclaim"
    /\ Cardinality(S) <= ReadCount
    /\ \E form \in ReplyForms : inbox' = [inbox EXCEPT ![w] = Reclaimed(form, S)]
    /\ Goto(w, "read")
    /\ UNCHANGED <<dbVars, retrying, streamVars, batch, locks, cur, history>>

\* Faulty variant: XREADGROUP with NOACK, entries never become pending.
ReadNoAck(w) ==
    /\ pc[w] = "read"
    /\ LET last == IF delivered + ReadCount <= Len(stream)
                     THEN delivered + ReadCount ELSE Len(stream)
       IN /\ delivered' = last
          /\ inbox' = [inbox EXCEPT ![w] = @ \cup (delivered + 1)..last]
    /\ Goto(w, "next")
    /\ UNCHANGED <<dbVars, retrying, stream, pel, batch, locks, cur, history>>

\* XREADGROUP with ">" delivers the next entries and makes them pending.
ReadNew(w) ==
    /\ pc[w] = "read"
    /\ LET last == IF delivered + ReadCount <= Len(stream)
                     THEN delivered + ReadCount ELSE Len(stream)
           new  == (delivered + 1)..last
       IN /\ delivered' = last
          /\ pel' = pel \cup new
          /\ inbox' = [inbox EXCEPT ![w] = @ \cup new]
    /\ Goto(w, "next")
    /\ UNCHANGED <<dbVars, retrying, stream, batch, locks, cur, history>>

\* The reply is lost after Redis delivered the entries; what was reclaimed in
\* this round is dropped with it.
ReadFails(w) ==
    /\ pc[w] = "read"
    /\ delivered' = IF delivered + ReadCount <= Len(stream)
                      THEN delivered + ReadCount ELSE Len(stream)
    /\ pel' = pel \cup (delivered + 1)..delivered'
    /\ Restart(w)
    /\ Fault
    /\ UNCHANGED <<dbVars, retrying, stream>>

TakeMessage(w) ==
    /\ pc[w] = "next"
    /\ \E i \in First(inbox[w]) :
         /\ cur' = [cur EXCEPT ![w] = i]
         /\ inbox' = [inbox EXCEPT ![w] = @ \ {i}]
    /\ Goto(w, "mark_queued")
    /\ UNCHANGED <<dbVars, retrying, streamVars, batch, locks, history>>

\* Every message of the round is done: back to the top of the loop.
RoundDone(w) ==
    /\ pc[w] = "next"
    /\ inbox[w] = {}
    /\ Goto(w, "dispatch")
    /\ UNCHANGED <<dbVars, retrying, streamVars, batch, locks, inbox, cur, history>>

--------------------------------------------------------------------------------
(* process_translation_job *)

JobOf(w) == stream[cur[w]]

\* The worker is done with the entry and leaves it acknowledged or not.
Leave(w) ==
    /\ Goto(w, "next")
    /\ cur' = [cur EXCEPT ![w] = 0]

\* _mark_job_state: its own transaction, whatever the status was; a missing row
\* and an error are passed over.
MarkJobState(w, s) ==
    /\ ~LockedByOther(w, JobOf(w))
    /\ UpdateStatus(JobOf(w), s) \/ UpdateRefused(JobOf(w), s)
    /\ UNCHANGED <<segments, lastJob, segmentOf, retrying, streamVars,
                   batch, locks, inbox, history>>

MarkQueued(w) ==
    /\ pc[w] = "mark_queued"
    /\ MarkJobState(w, "queued")
    /\ Goto(w, "mark_running")
    /\ UNCHANGED cur

MarkRunning(w) ==
    /\ pc[w] = "mark_running"
    /\ MarkJobState(w, "running")
    /\ Goto(w, "load")
    /\ UNCHANGED cur

\* What the loaded rows decide.
LoadOutcome(j) ==
    CASE segmentOf[j] \notin segments -> "abandon"
      [] segmentOf[j] \in segments /\ status[j] = "completed" -> "ack"
      [] OTHER -> "translate"

LoadRows(w) ==
    /\ pc[w] = "load"
    /\ Goto(w, LoadOutcome(JobOf(w)))
    /\ UNCHANGED <<dbVars, retrying, streamVars, batch, locks, inbox, cur, history>>

\* The provider call, retries included: a translation or a TranslationError.
Translate(w) ==
    /\ pc[w] = "translate"
    /\ calls' = [calls EXCEPT ![JobOf(w)] = @ + 1]
    /\ \E outcome \in {"save", "record_failure"} : Goto(w, outcome)
    /\ UNCHANGED <<dbVars, retrying, streamVars, batch, locks, inbox, cur, faults, stored>>

\* Building the TranslationRequest raises ValidationError: a blank text, or two
\* equal languages.  It is no TranslationError: the provider is not called and
\* the outer except treats it like an error of the database.
RequestInvalid(w) ==
    /\ pc[w] = "translate"
    /\ Goto(w, "abandon")
    /\ UNCHANGED <<dbVars, retrying, streamVars, batch, locks, inbox, cur, history>>

\* Segment, QA report and job in one transaction.
SaveResult(w) ==
    /\ pc[w] = "save"
    /\ ~LockedByOther(w, JobOf(w))
    /\ UpdateStatus(JobOf(w), "completed")
    /\ stored' = stored \cup {JobOf(w)}
    /\ Goto(w, "ack")
    /\ UNCHANGED <<segments, lastJob, segmentOf, retrying, streamVars,
                   batch, locks, inbox, cur, faults, calls>>

\* The segment was deleted during the provider call.
SaveRefused(w) ==
    /\ pc[w] = "save"
    /\ UpdateRefused(JobOf(w), "completed")
    /\ Goto(w, "abandon")
    /\ UNCHANGED <<segments, lastJob, segmentOf, retrying, streamVars,
                   batch, locks, inbox, cur, history>>

\* Faulty variant: a recorded failure is left for redelivery.
RecordFailureUnacked(w) ==
    /\ pc[w] = "record_failure"
    /\ ~LockedByOther(w, JobOf(w))
    /\ UpdateStatus(JobOf(w), "failed")
    /\ Leave(w)
    /\ UNCHANGED <<segments, lastJob, segmentOf, retrying, streamVars,
                   batch, locks, inbox, history>>

\* A TranslationError is recorded and acknowledged...
RecordFailure(w) ==
    /\ pc[w] = "record_failure"
    /\ ~LockedByOther(w, JobOf(w))
    /\ UpdateStatus(JobOf(w), "failed")
    /\ Goto(w, "ack")
    /\ UNCHANGED <<segments, lastJob, segmentOf, retrying, streamVars,
                   batch, locks, inbox, cur, history>>

\* ... unless the row is gone: a persistence error, not acknowledged.
RecordFailureRefused(w) ==
    /\ pc[w] = "record_failure"
    /\ UpdateRefused(JobOf(w), "failed")
    /\ Leave(w)
    /\ UNCHANGED <<segments, lastJob, segmentOf, retrying, streamVars,
                   batch, locks, inbox, history>>

\* Faulty variant: the job is not marked failed.
AbandonUnmarked(w) ==
    /\ pc[w] = "abandon"
    /\ Leave(w)
    /\ UNCHANGED <<dbVars, retrying, streamVars, batch, locks, inbox, history>>

\* After any other error: mark the job failed if possible, do not acknowledge.
Abandon(w) ==
    /\ pc[w] = "abandon"
    /\ MarkJobState(w, "failed")
    /\ Leave(w)

Ack(w) ==
    /\ pc[w] = "ack"
    /\ pel' = pel \ {cur[w]}
    /\ Leave(w)
    /\ UNCHANGED <<dbVars, retrying, stream, delivered, batch, locks, inbox, history>>

--------------------------------------------------------------------------------
(* Faults while processing *)

\* Faulty variant: a result that could not be stored is acknowledged all the same.
AckUnstoredResult == [mark_queued |-> "mark_running", mark_running |-> "load",
                      load |-> "abandon", save |-> "ack"]

\* Where an error of the database leads: the marks are best effort, the load
\* and the save go on to mark the job failed.
AfterDatabaseError == [mark_queued |-> "mark_running", mark_running |-> "load",
                       load |-> "abandon", save |-> "abandon"]

DatabaseFails(w) ==
    /\ \/ /\ pc[w] \in DOMAIN AfterDatabaseError
          /\ Goto(w, AfterDatabaseError[pc[w]])
          /\ UNCHANGED cur
       \/ /\ pc[w] \in {"record_failure", "abandon"}
          /\ Leave(w)
    /\ Fault
    /\ UNCHANGED <<dbVars, retrying, streamVars, batch, locks, inbox>>

\* XACK raises, before or after Redis applied it: the rest of the round is
\* dropped and its entries stay pending.
AckFails(w) ==
    /\ pc[w] = "ack"
    /\ pel' \in {pel, pel \ {cur[w]}}
    /\ Restart(w)
    /\ Fault
    /\ UNCHANGED <<dbVars, retrying, stream, delivered>>

\* The process dies, its open transaction rolls back, and it is started again.
Crash(w) ==
    /\ Restart(w)
    /\ Fault
    /\ UNCHANGED <<dbVars, retrying, streamVars>>

--------------------------------------------------------------------------------
Api ==
    \/ \E s \in segments : CreateJob(s)
    \/ \E j \in Jobs : RetryCheck(j) \/ RetryInsert(j) \/ RetryRefused(j)
    \/ \E S \in SUBSET segments : DeleteSegments(S)

WorkerStep(w) ==
    \/ DispatchSelect(w) \/ Publish(w) \/ DispatchCommit(w) \/ DispatchCommitRefused(w)
    \/ \E S \in SUBSET pel : Reclaim(w, S)
    \/ ReadNew(w) \/ TakeMessage(w) \/ RoundDone(w)
    \/ MarkQueued(w) \/ MarkRunning(w) \/ LoadRows(w)
    \/ Translate(w) \/ RequestInvalid(w)
    \/ SaveResult(w) \/ SaveRefused(w) \/ RecordFailure(w) \/ RecordFailureRefused(w)
    \/ Abandon(w) \/ Ack(w)

WorkerFault(w) ==
    \/ PublishFails(w) \/ DispatchCommitFails(w) \/ ReadFails(w)
    \/ DatabaseFails(w) \/ AckFails(w) \/ Crash(w)

Next == Api \/ \E w \in Workers : WorkerStep(w) \/ WorkerFault(w)

Spec == Init /\ [][Next]_vars

\* The entry ids of a run with one worker: one per job and one per fault.
EntryIds == 1..(MaxJobs + MaxFaults)

\* Workers run on and are restarted.
FairSpec == Spec /\ \A w \in Workers : WF_vars(WorkerStep(w))

\* Besides, an entry that stays unacknowledged is idle for long enough in the
\* end, and XAUTOCLAIM moves it.
ReclaimingSpec ==
    /\ FairSpec
    /\ \A w \in Workers, i \in EntryIds :
         SF_vars(\E S \in SUBSET pel : i \in S /\ Reclaim(w, S))

--------------------------------------------------------------------------------
(* Properties *)

\* What some properties need: a single worker process, as docker-compose.yml has it.
OneWorker == \A v, w \in Workers : v = w

\* Every variable stays in its domain.
TypeOK ==
    /\ segments \subseteq Segments
    /\ lastJob \in 0..MaxJobs
    /\ status \in [Jobs -> Status]
    /\ segmentOf \in [Jobs -> Segments \cup {NoSegment}]
    /\ \A j \in Jobs : IF j > lastJob THEN status[j] = "absent" ELSE segmentOf[j] \in Segments
    /\ retrying \subseteq Jobs
    /\ stream \in Seq(Jobs)
    /\ delivered \in 0..Len(stream)
    /\ pel \subseteq 1..delivered
    /\ pc \in [Workers -> Labels]
    /\ batch \in [Workers -> SUBSET Jobs]
    /\ locks \in [Workers -> SUBSET Jobs]
    /\ inbox \in [Workers -> SUBSET (1..delivered)]
    /\ cur \in [Workers -> 0..delivered]
    /\ \A w \in Workers : pc[w] \in Processing => cur[w] # 0
    /\ faults \in 0..MaxFaults
    /\ calls \in [Jobs -> Nat]
    /\ stored \subseteq Jobs

\* Two jobs of one segment are never active at once, whatever redelivery,
\* retries and stale dispatcher rows do to their status (README.md:31).
OneActiveJobPerSegment ==
    \A j, k \in Jobs :
        /\ status[j] \in Active
        /\ status[k] \in Active
        /\ segmentOf[j] = segmentOf[k]
        => j = k

\* A queued or running job has an entry that is still to be delivered or still
\* pending.  Without one nothing in Redis would lead to the job any more, and it
\* would hold its segment's only active place whatever a worker reclaims.  Needs
\* a single worker.
ActiveJobBacked ==
    \A j \in Jobs : status[j] \in {"queued", "running"} => Unacked(j) # {}

\* A row leaves pending_enqueue only after its entry is in the stream.
PublishBeforeQueued ==
    \A j \in Jobs :
        status[j] \notin {"absent", "pending_enqueue"} => Published(j)

\* An entry is acknowledged only once its job is settled in the database or
\* gone with its segment.  Needs a single worker.
AckOnlySettled ==
    [][\A i \in pel \ pel' : status[stream[i]] \in Settled \cup {"absent"}]_vars

\* A settled job none of whose entries is outstanding keeps its outcome: the
\* status a client polled is final.  Needs a single worker.
FinalMeansFinal ==
    [][\A j \in Jobs :
          status[j] \in Settled /\ Unacked(j) = {} => status'[j] \in {status[j], "absent"}]_vars

\* translator_worker.py:167: "Duplicate delivery of an already-completed job: no
\* re-translation, no second QA report."
NoRetranslation == [][\A j \in stored : calls'[j] = calls[j]]_vars

\* One less than n, but not less than 0.
Above(n) == IF n > 0 THEN n - 1 ELSE 0

\* A provider call is repeated for a job only because of a fault: over all jobs
\* there are no more repetitions than faults.  Needs a single worker.
RepeatedCallsWithinFaults == SumFunctionOnSet([j \in Jobs |-> Above(calls[j])], Jobs) <= faults

\* The table implements one slot per segment (SegmentSlots): a segment passes
\* from one job to another only through a state in which it has no active job.
Slots == INSTANCE SegmentSlots
    WITH holders <- [s \in Segments |-> ActiveJobs(s)]
SlotsSpec == Slots!Spec

\* A job waiting for the dispatcher is settled in the end, or deleted with its
\* segment, unless another fault comes first: no fault that is over keeps the
\* dispatcher and the worker from it, and no refusal, deletion or error of the
\* request needs the entry to be delivered twice.
PendingSettles ==
    \A j \in Jobs, n \in 0..MaxFaults :
        status[j] = "pending_enqueue" /\ faults = n
            ~> status[j] \in Settled \cup {"absent"} \/ faults > n

\* translator_worker.py:417: "leaving message unacked for redelivery": a worker
\* takes up again, or has acknowledged, every entry that is pending.
PendingEntryRedelivered ==
    \A i \in EntryIds : i \in pel ~> (i \notin pel \/ \E w \in Workers : i \in inbox[w])

================================================================================
