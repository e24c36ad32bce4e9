# BookTranslate AI Lab: specification and proofs

This directory holds TLA+ models of the BookTranslate backend and workspace,
the TLC configurations that check them on small instances, and TLAPS proofs of
the results that hold for every size. Line references are to the sources at
this commit.

## 1. The system

A FastAPI application keeps books, chapters, segments, translation jobs,
quality reports and benchmark runs in PostgreSQL. A separate worker process
moves jobs through a Redis stream and calls the translation providers. A
Next.js page edits segments and follows jobs.

| Component | State | Operations | Hard behaviour |
|---|---|---|---|
| Job table and HTTP handlers (`api/v1/translation_jobs.py`, `models/translation_job.py`) | one row per job, status, segment; partial unique index on active rows | create, retry, delete with the segment | check and insert are separate transactions; the index arbitrates |
| Dispatcher (`translation_queue/dispatcher.py`) | a batch of rows loaded and locked | `dispatch_pending`: select for update skip locked, XADD, commit per row | the first commit releases all locks; crash between XADD and commit; stale loaded rows |
| Stream queue (`translation_queue/redis_stream.py`) | entries, last-delivered id, pending list | XADD, XREADGROUP, XAUTOCLAIM, XACK | at-least-once delivery, lost replies, reply shape |
| Worker (`workers/translator_worker.py`) | the entries of a round, the one in process | the loop and `process_translation_job` | blind status updates, best-effort marks, errors that leave an entry unacknowledged |
| Segments (`services/segment_service.py`), chapters, books | text, status, QA fields | create, patch, edit translation, delete | edits during a provider call; derived columns a client may set as well |
| Quality assurance (`quality/`) | reports per job or segment and version | `evaluate_segment`, latest report, book summary | get-or-create races, checksums of older text, thresholds |
| Benchmarks (`benchmarks/`) | run and per-case results | create, execute, resume, cancel | double execution, a cancel overwritten, the budget guard with concurrency |
| Ingestion (`document/ingestion_service.py`, `storage.py`) | uploaded file, book with chapters and segments | `ingest_upload`, `save_upload`, cleanup | crash between file and transaction, cancelled requests, a lost reply of the commit |
| Parsing (`document/*_parser.py`, `segmentation.py`, `archive_validation.py`) | none | archive checks, chapters, segments of bounded length | order of what is collected apart, limits and separators, words that fit nowhere |
| Translation service (`ai/translation_service.py`) and providers | none | `translate` with timeout and retries; each provider's mapping of replies to errors | attempts, retryable or not, two timeouts at once, the total time |
| Quality rules (`quality/deterministic.py`, `ai_evaluator.py`, `config.py`) | none | 16 rules with weights, audit, verdict | weights, rounding and thresholds together; an audit that fails |
| Workspace page (`frontend/app/page.tsx`, `lib/`) | selection, draft, tokens, polling | load, save, poll, quality check | answers out of order, abort, draft against refresh |
| Configuration (`core/config.py`) | settings | validators | thresholds and weights |

Job rows are the shared state of the API and the worker; the stream carries
only job and segment ids. The worker writes segments and quality reports in the
transaction that completes a job.

What makes each component correct:

- jobs: at most one active job per segment; a queued or running job always has
  an entry that will settle it; an entry is acknowledged only after its job is
  settled; a settled job stays settled; a provider is paid again only because of
  a fault; every created job is settled in the end.
- segments and QA: a result that was computed from older text does not bring that
  text back; a verdict shown with a segment belongs to its texts; one report per
  job and version.
- benchmarks: a completed case is kept and not paid for again, a run is reported
  completed only when its cases are, spending stays within the budget, a terminal
  status is final.
- ingestion: a book exists only with its file; a failed upload leaves neither; the
  segments of a book hold its words, each once and in order, within the limit.
- translation service: a call gives up only when no attempt is left or a retry is
  useless, and holds its caller for a bounded time.
- quality rules: a translation that lost a number, a placeholder or is a copy of
  the source never passes; an audit moves the score by its share at most.
- page: the editor shows the selected segment and never replaces a newer draft
  with an older answer; a save in flight does not block it for good.

## 2. Modules

| Module | Content |
|---|---|
| `TranslationPipeline` | job table, HTTP handlers, dispatcher, stream, workers, faults |
| `SegmentSlots` | abstract specification of the job table: one slot per segment, vacated before it is taken again |
| `TranslationPipelineProofs` | theorems about `TranslationPipeline` |
| `MCTranslationPipeline` | its instances for TLC |
| `SegmentQA`, `MCSegmentQA` | one segment, its quality reports, and the sessions of edits, checks and jobs |
| `SegmentQAProofs` | theorems about `SegmentQA` |
| `BenchmarkRun`, `MCBenchmarkRun` | one benchmark run and the requests that execute, resume and cancel it |
| `BenchmarkRunProofs` | theorems about `BenchmarkRun` |
| `FiniteSums` | facts about sums over finite sets, proved once and used by the proofs |
| `EditorSave` | the editor of the workspace page and every answer it may get |
| `EditorSaveProofs` | theorems about `EditorSave` |
| `DocumentText` | archive checks, parsers and segmenter as functions |
| `DocumentIngestion`, `MCDocumentIngestion` | uploads: file, checks, transaction, cleanup; extends `DocumentText` |
| `DocumentIngestionProofs` | theorems about `DocumentIngestion` |
| `TranslationService` | one call: attempts, provider replies, delays |
| `TranslationServiceProofs` | theorems about `TranslationService` |
| `QualityRules`, `MCQualityRules` | one quality check: rules, score, audit, verdict |
| `QualityRulesProofs` | theorems about `QualityRules` |

How they fit together. `TranslationPipeline` takes a provider call as one step
with two outcomes; `TranslationService` is the inside of that step, and its time
bound is what makes entries idle. `SegmentQA` takes a verdict as any value;
`QualityRules` says which. `EditorSave` takes the server's answers as any order
of the writes of `SegmentQA` and of jobs. `DocumentIngestion` makes the rows the
others start from.

A definition named `Faulty variant` in its comment is not part of any
specification. It is a plausible mistake in the definition below it, and each
checked property is known to be violated when one of them is put in its place.

### TranslationPipeline

Steps are database transactions and Redis commands; everything between two of
them can interleave with other workers and the API.

| Code | Model |
|---|---|
| `translation_jobs` rows, `uq_translation_jobs_active_segment` | `status`, `segmentOf`, `lastJob`; `IndexAllows` |
| `create_translation_job_for_segment`, `retry_translation_job` | `CreateJob`; `RetryCheck`, then `RetryInsert` or `RetryRefused` |
| deletes of segments, chapters, books (cascade to jobs) | `DeleteSegments` |
| `dispatch_pending` | `DispatchSelect`, then per row `Publish` and `DispatchCommit`, with their failures |
| `_reclaim_stale_jobs`, `_read_jobs` | `Reclaim`, `ReadNew`, `ReadFails` |
| the loop in `run` | `TakeMessage`, `RoundDone`, `Restart` (outer except) |
| `process_translation_job` | `MarkQueued`, `MarkRunning`, `LoadRows`, `Translate`, `RequestInvalid`, `SaveResult`, `RecordFailure`, `Abandon`, `Ack` and what each does when the database refuses or fails |
| process death | `Crash` |

Abstractions. `attempt`, `max_attempts` and `retry_of_id` are left out: no code
reads them to decide anything. A commit either takes effect and is answered or
does neither; a lost reply of a commit is not modelled. The graceful stop on
SIGTERM, which only ends the loop between rounds, is covered by `RoundDone`
followed by `Crash`. Idle time is not counted: any pending entry may be
reclaimed at any moment, also one a worker is still processing. `ReplyForms` is what
the Redis client may return the reply of XAUTOCLAIM as: `reclaim_pending` takes
entries only from a tuple, the client `requirements.txt` pins (redis 6.4.0) returns
a list, and the fake client of the tests a tuple. A translation is one step with two
outcomes, stored as such or as a recorded failure. `RequestInvalid` is the third way
out: building the `TranslationRequest` (`translator_worker.py:191-199`) raises
pydantic's `ValidationError` for a blank text or equal languages, which is no
`TranslationError`, so the job is marked failed and the entry is not acknowledged,
without a provider call and without any fault. `SaveResult`
writes segment, report and job together, as their transaction does. Redis keeps
its data through a restart of a worker.

`faults` counts crashes, outages and lost replies, bounded by `MaxFaults`;
`calls` and `stored` are history variables and no guard reads them.

### SegmentQA

Every request loads the row in a database session, works on the copy, and
commits. `session[r]` holds what the session has loaded, or what it is about to
write; `Commit` writes the columns that differ from the loaded copy (`Changes`),
which is what the ORM's UPDATE does, so overlapping sessions mix their columns.

| Code | Model |
|---|---|
| ingestion, `POST` of a segment (`SegmentCreate`) | `Init`: no translation and nothing judged, or any row |
| `PATCH .../translation` (`update_segment_translation`) | `OpenEdit` with `Edited`, then `Write` |
| `PATCH /segments/{id}` (`SegmentUpdate`, `update_segment`) | `OpenPatch` with `Fields`, `Patched`, then `Write` |
| `POST .../quality-check` (`evaluate_segment`) | `OpenCheck`, `FindManual`, then `ReuseReport` or `InsertReport` |
| `process_translation_job` | `OpenJob`, `StoreResult` |
| a request cut off or refused by an index | `Close` |

A PATCH may carry any of the columns, `status` and `qa_status` among them, and
`update_segment` sets every field sent (`WithFields`) before it works out the status
when the translation has changed and makes the QA result stale when either text has
(`DerivedByPatch`). So a client may leave a status or a verdict that no operation has
worked out. `loose` is the set of derived columns in that state, or last written by a
session whose copy was older than the row; `dirty` is the set of those sessions. Both
are history. An operation that works a column out takes it off `loose`, unless its
session is dirty.

Abstractions. Nothing is awaited between the load and the commit of an edit or a
PATCH, so what it will write is settled when it is opened. `qa` stands for
`qa_status`; `qa_score` and `qa_comment` are left out, because no code reads them to
decide anything, and so are the columns a PATCH may set that none of the properties
speaks of. A verdict is any of `Verdicts`, because how it is computed does
not matter to the properties. The lookup and the rewriting of a job's report are one
step with the commit: autoflush writes the segment row before the lookup, and the row
lock holds to the end. Reports are a set; `created_at`, and with it the choice of the
latest report, is left out. The foreign key to a job and the deletion of segments
belong to `TranslationPipeline`.

### BenchmarkRun

| Code | Model |
|---|---|
| `execute_run`: guard, status running | `Load`, `Start` |
| the planning loop with the budget | `PlanCase` |
| `_run_case`: read, insert or update as running | `SelectCase`, `ClaimCase`, `ClaimRefused` |
| a case's end | `RunDry`, `RunLive`, `RunFails` |
| outcome and last commit | `Finish` |
| isolated cases that outlive a failed request | `pc` "orphan", `OrphanEnds` |
| `cancel_run` | `CancelLoad`, `CancelCommit` |

`run` holds the parameters given at creation. A run that is live, or has
concurrency 1, is one transaction from the first case to the outcome, so
`records` changes in `Finish`; a dry run with more concurrency commits case by
case. `resume_run` is `execute_run` after the same guard.

Abstractions. Attempts, tokens, latency and metrics are left out, and money is
counted in small units. A session that overwrites a stored cost with the value it
loaded earlier leaves that column out of its UPDATE; the model writes it, which
matters to none of the properties because the cost of a dry case is always the
same. The check of the dataset checksum, which can only refuse, is left out.

### EditorSave

| Code (`page.tsx`, `lib/`) | Model |
|---|---|
| `openBook`, `openChapter`, `openSegment`, `changeSection` | `OpenChapter`, `OpenSegment`, `ChangeSection`, `DetailRead`, `DetailAnswered`, `DetailFails` |
| `invalidateSaveRequest`, `clearSegmentState` | `InvalidateSaveRequest`, `Select` |
| `handleDraftChange`, `resetDraft` | `ChangeDraft`, `ResetDraft` |
| `saveTranslation` | `SaveTranslation`, then `SaveStored`, `SaveAnswered` or `SaveGivenUp` |
| `createJob`, the polling effect, `refreshCompletedSegment` | `CreateJob`, `JobCreated`, `JobSeen`, `PollEnds`, `RefreshRead`, `Refreshed` |
| `runQualityCheck` | `RunQualityCheck`, `CheckAnswered` |
| the server | `SaveStored`, `JobEnds`, `CheckExecuted` |

A request stays executable after the page has aborted it or given it up, since
the server is not told. State and the ref that mirrors it are one variable,
because the code sets them together. The refresh after a job reads segment and report
with two requests at once; the model answers both in one step (`RefreshRead`). Left out: the lists of books, jobs and
benchmark runs, which each answer replaces and no guard reads; messages;
rendering. `written`, `lost` are history.

### DocumentIngestion and DocumentText

| Code | Model |
|---|---|
| `ingest_upload` up to the file | `Receive`, `Save`, `SaveFails` |
| `_validate_docx_file`, `_validate_epub_file`, `validate_zip_archive` | `Check` with `Accepted`, `ArchiveAccepted`, `EntryAccepted` |
| `DocxParser._parse_sync`, `EpubParser._parse_sync` | `Parse`, `Rows` with `ParseDocx`, `ParseEpub` |
| `TextSegmenter` | `Segments`, `SegmentParagraph`, `AddSentence`, `SplitWords` |
| flush of the rows, commit | `WriteRows`, `Commit`, `CommitUnanswered` |
| the two handlers and `finally` | `StepFails`, `Discard`, `Cancel` |
| process death, `BookService.delete_book` | `Crash`, `DeleteBook` |

A word is its number of characters, a sentence a sequence of words, a text a
sequence of sentences; a paragraph carries the style level and whether it is
bold, an EPUB item its heading, its flags and its content. How a sentence is
recognised, and what python-docx, ebooklib and BeautifulSoup read, is outside.
`Words`, `Sentences`, `Texts`, `Paragraphs` and `Items` are the inputs of the
parsers; the only limits on them are those of `InputsAssumption`. Every loop is a
fold from the left.
The stored name is fresh for each upload (a UUID). A failure rolls back and removes
the file in one step (`Discard`): what a crash between the two leaves, a file without
a book, `Crash` before the step leaves as well. Only books that were uploaded are
modelled. POST and PATCH of a book take any `file_path` from the client, whether the
file exists or not, so `BookHasFile` is about uploaded books.

### TranslationService

| Code | Model |
|---|---|
| validators of `TranslationRequest` | `Valid`, `Refuse` |
| registry, configuration checks | `Begin` with `Unsupported`, `NotCalled` |
| one attempt under `asyncio.wait_for` | `Called`, `Answered`, `Unanswered` |
| mapping of replies in each adapter | `OpenAICode`, `AnthropicCode`, `DeepLCode` |
| the retry loop | `Settle`, `Retry`, `LastAttempt`, `RetryDelays`, `Wake` |
| cancellation | `Cancel` |

Time is counted in quarters of a second, while the call waits. `LongestDelay`
bounds the wait a rate limit error may ask for: the code obeys it without a cap,
but no adapter passes one on today.

### QualityRules

| Code | Model |
|---|---|
| `evaluate` of the deterministic evaluator and its checks | `Evaluate`, `Found`, one operator per rule |
| `_finalize_score`, `_score_to_status` | `Score`, `Verdict` |
| `AIQualityEvaluator.evaluate` | `Audits`, `OpenAIAudit` |
| `evaluate_segment`, scoring part | `Refuse`, `WithoutAudit`, `WithAudit`, `Overall`, `Rounded` |
| threshold settings with their legacy names | `Threshold` |

A text is a sequence of tokens, each of a kind the rules tell apart: words,
numbers, placeholders, addresses, code, marks of Markdown, control and
replacement characters. The regular expressions that find them are left out, and
so is everything about which text is checked (`SegmentQA`).

## 3. What the runs check

| Run | Instance | Question |
|---|---|---|
| `one_worker` | 1 worker, 2 segments, 2 jobs, batches and reads of 2, 1 fault, both forms of the reply, `FairSpec` | do jobs lose their entries, are entries acknowledged too early, outcomes revised, providers called again without cause, waiting jobs settled? |
| `two_workers` | 2 workers, 2 segments, 2 jobs, 1 fault, the pinned client | does the index alone keep one active job per segment when dispatchers work on stale batches? |
| `segment_qa` | 2 sessions, 2 sources, 1 text and none, 1 job, 2 verdicts, payloads of up to two columns | are reports unique and permanent, is the row right where it was worked out, do late results keep edited texts? |
| `benchmark_run` | 3 kinds of run, 2 executors, 2 executions, `FairSpec` | are completed results kept, is the outcome true, do overlapping executions end? |
| `editor_save` | 2 segments, 2 texts, 6 saves and navigations, 1 job | do late answers stay off the wrong segment and the draft, does the save button come back? |
| `ingestion` | 1 upload of each of some ten thousand documents, and of archives | has a book its file and its words, in order and within the limit? |
| `translation_retry` | 5 retries, timeout 30 s, cap 5 s, a wait of 6 s that was asked for | is every attempt used and none wasted, is the time bounded? |
| `quality_rules` | all pairs of texts of up to two tokens and some longer, 5 audits | does a translation with a loss never pass? |
| `no_retranslation`, `redelivery`, `report_reuse`, `live_budget` | small | see section 5 |

Properties and what makes them fail when the code is wrong:

- `OneActiveJobPerSegment`, `SlotsSpec`: blind status updates of redelivered
  entries, retries and stale dispatcher rows all try to make a second row active.
- `PublishBeforeQueued`, `ActiveJobBacked`: a row that is queued or running but
  has no entry left holds its segment's only place for ever.
- `AckOnlySettled`, `FinalMeansFinal`: the acknowledgement is the last thing said
  about a job, and only entries that are still outstanding may reopen it.
- `RepeatedCallsWithinFaults`: redelivery pays a provider again only after a fault.
- `PendingSettles`: dispatch, processing and every error path end with the job
  settled, without the help of a second delivery, which the pinned client never makes.
  Only a fault after the job was created may prevent it, and a job that is still
  waiting survives that too.
- `RowConsistent`: the status says whether there is a translation, and a verdict
  shown with a segment is that of a report for its present texts, except for columns
  in `loose`. An operation that forgets to derive a column, or derives it from the
  wrong text, breaks it, also when a client has sent that column along.
- `LateResultsKeepTexts`: a check may wait for an AI call and a job for the provider
  while the texts are edited; committing the whole copy would bring back the old ones.
- `ReportsUnique`, `ManualReportsPermanent`: get-or-create races leave no second
  report, and a check never rewrites the record of another.
- `DryWithinBudget`, `CompletedIsKept`, `CompletedMeansAll`, `ExecutionEnds`: see
  the comments in `BenchmarkRun`; the last one is about lock waits between
  executions that hold the rows of their cases to the end.
- `ShownBelongsToSegment`, `DraftSurvivesAnswers`: an answer that is accepted after
  a navigation, or that resets the draft, would lose or misplace a text.
- `OneSaveAtATime`, `SaveEnds`: the busy flag is cleared by the answer or by the
  navigation, and must be cleared by exactly one of them.
- `ShownIsStored`, `MarkedUnlessJobs`: a save that was given up, or a job, may change
  the row behind the page; nothing else may make page and row differ unmarked.
- `BookHasFile`, `FilesAccounted`: the file is outside the transaction, so each
  failure between the two has to be undone by hand.
- `WordsKept`, `SegmentsUsable`, `ParsedInOrder`: packing by two limits with the
  separator counted, chunks handled apart, paragraphs collected apart.
- `EveryAttemptUsed`, `CallWithinTime`, `CallEnds`: a wrong class of an error, an
  attempt too many, or a wait without a limit.
- `LossNeverPasses`, `AuditWithinShare`: whether a text with a loss can reach the
  threshold hangs on the weight of its rule, the share of the audit and the
  rounding together.

### Bounds, and why they are enough

- Jobs: two on two segments give a batch of two, a retry after a failure, and an entry
  that outlives the deletion of its segment. The safety properties of `one_worker` have
  been run with three jobs as well, which adds a retry beside another segment's job,
  without a violation; two are kept because `PendingSettles` needs the states without
  symmetry.
- Workers: two overlap in every way two steps can; the properties that hold for
  any number of workers are also proved for any number.
- Faults: each fault action fires with one, and what follows it has none. A fault on
  the recovery from another is left to the proofs, which have no bound on faults.
- The reply of XAUTOCLAIM: `one_worker` takes both forms, so that its properties hold
  with a redelivery and without. `two_workers` and the runs of section 5
  take the list of the pinned client.
- Sessions: the races in `SegmentQA` are between two commits and two loads. Edits,
  checks and jobs repeat without a bound, so sequences of any length are covered.
  Two sources and a translation besides none are enough to make texts differ. A blank
  translation, which differs from none only in being another text, is left to the
  proofs. Payloads set up to two of the four columns: each pair of a text and a derived
  column, of two texts, and of two derived ones. All payloads give the same states in
  more time, and the proofs cover them.
- Benchmarks: costs 2, 3, 1 with budget 5 make the budget end before the third
  case while it covers the first two; concurrency 2 with three cases makes a case
  wait for the semaphore. Three executions have been run as well (361 000
  states), without a violation; two are kept because the run then takes half a
  minute instead of two.
- Page: two segments are needed for an answer to land on the wrong one, and two
  texts for a draft to differ; six tokens are a save, a navigation away and back,
  a second save, and two more. Segments of a third text add nothing the guards
  look at. The proofs have neither bound.
- Documents: three paragraphs or items give introduction, heading and body in
  every order, a heading without content, and equal titles apart; target 6 and
  limit 8 with words of 1 to 9 characters make every comparison of the segmenter
  go both ways, one below, at and above each limit.
- Calls: the default is three retries, and five show nothing that three do not; a reply
  of a quarter second, the timeout, and a delay above the cap cover every kind of
  wait.
- Rules: two tokens on each side are enough for every rule but repetition, counts
  of numbers and length, which have longer texts of their own. Audits of impact
  0, 3, 50, 100, 250 give the best, an odd, a middling and two worst scores.
- Symmetry is used in safety runs only, over workers and segments, or over
  sessions, sources and texts.
- Deadlock is checked in the pipeline and QA runs. The others switch it off,
  because a terminal run, an ended call, a finished check, a finished upload and a
  page whose token bound is reached really stop; where something has to end,
  `ExecutionEnds`, `CallEnds` and `SaveEnds` say so.

## 4. Fairness

`TranslationPipeline!FairSpec`: every worker keeps taking steps (weak fairness on
`WorkerStep`), which is what the process loop and `restart: on-failure` in
`docker-compose.yml` provide. Faults are bounded, since no job is settled while a
dependency is down for good. Nothing is assumed of a second delivery, because with the
pinned client there is none, and nothing of the API: no user ever has to retry, edit or
delete.

`ReclaimingSpec`, for the run `redelivery` only, adds that an entry that stays pending
is among those XAUTOCLAIM moves again and again (strong fairness on `Reclaim` with that
entry): it gets older than `translation_job_max_stale_ms` (`config.py:47`), which is the
idle time the worker asks for, and XAUTOCLAIM always scans from `0-0`. The property fails
although Redis does its part.

`BenchmarkRun!FairSpec`: a request that is being served goes on (asyncio), and a
lock is granted when it is free (PostgreSQL).

`EditorSave!FairSpec`: a save whose request is still waited for ends, because
`request()` aborts it after 15 s whatever the server does (`lib/api.ts:58-62`).
Nothing is assumed of the server or of the user.

`TranslationService!FairSpec`: a call that is under way goes on; a wait for the
provider ends by the timer of `asyncio.wait_for` and a delay by its sleep. The
provider need not answer.

## 5. Disagreements between code and text

Each is a run whose only property states the text, and TLC shows how the code
breaks it.

- `no_retranslation`: a second entry of a completed job is translated again.
  The worker writes queued and running before it looks whether the job was
  completed, so the guard at `translator_worker.py:167` sees running.
- `redelivery`: an entry that is left "unacked for redelivery"
  (`translator_worker.py:417`) is never processed again. `reclaim_pending` takes entries
  only from a tuple (`redis_stream.py:89-94`), and redis 6.4.0, which
  `requirements.txt` pins, returns a list; the fake client of the tests returns a tuple.
  XAUTOCLAIM moves the entry at every round and the worker drops it. If the worker died
  between marking a job queued and settling it, the job keeps that status, and its
  segment can get no other job.
- `report_reuse`: after an edit and its check, a repeated check of the same text
  fails on the unique index. The same index makes a full check fail after a
  deterministic one.
- `live_budget`: a live run gives every case the budget computed before the first.

What else the models show, or was met in writing them; each is what the code does,
and most contradict no text.

Pipeline. With two workers `ActiveJobBacked` fails: a worker whose batch lost its
locks writes queued over a job the other has meanwhile completed and acknowledged.
The entry of a job whose segment was deleted is never acknowledged and never sent to a
dead-letter stream. A request the service refuses (a blank text, equal languages)
raises a validation error that leaves its entry unacknowledged as well
(`RequestInvalid`); both would be processed at every reclaim if there were one.

Segments. A source edited during the provider call gets the translation of the old
source, and a translation edited meanwhile is overwritten. An edit that loaded an
already stale row does not write `qa_status` at all, so a check that commits in between
leaves its verdict on the edited text. POST and PATCH of a segment let a client set
`status` and `qa_status`, so a segment may be "passed" without any report.
`RowConsistent` excepts all three under `loose`.

Benchmarks. With two overlapping live executions `CompletedMeansAll` and
`CompletedIsKept` fail: one execution fails a case the other has read as completed
and kept. An execution under way overwrites a cancel with its outcome. The outer
timeout of a case is no longer than that of one attempt, so no attempt follows one
that timed out.

Page. A job that completes while the draft is edited replaces the row but not the
draft, and the draft is not marked when it differs. A save that was aborted or
timed out may be stored later than one sent after it. The refresh after a job is
lost when the section was changed before it. A report of the text before a save
stays shown after the save.

Documents. A first-level heading without content loses its title; a heading of a
lower level before any content moves to the front of the first chapter; EPUB items
with equal titles are merged; an item without heading whose text mentions
"contents" is dropped; a word longer than the limit stays whole. Files stay after a
cancel, a crash and the deletion of their book; when the reply to a commit is lost
the file of a stored book is removed.

Calls. Errors 400 and 404 of the two SDKs are retried as unexpected errors. With
the defaults a call may take about 135 s, longer than the 60 s of
`translation_job_max_stale_ms` after which its entry counts as idle, so a client that
returns a tuple would let a second worker take it; `translation_queue_reclaim_idle_ms`
is read nowhere. `translation_job_timeout_seconds` is read nowhere.

Rules. When the audit fails, a text the rules fail becomes `needs_review`, not
`failed`; `_worse_status` has no caller. The audit goes to the provider named by
`model_used`, which after a translation by a worker is the name of a model. An
Anthropic client has no `chat`, and errors of the SDKs are not caught, so either
ends the request. One control or replacement character costs ten points and
still passes.

## 6. What is proved

`TranslationPipelineProofs` proves, for every number of workers, segments, jobs
and faults and for both forms of XAUTOCLAIM's reply, from `ConstantsAssumption`
alone:

- `TypeCorrect`: `Spec => []TypeOK`;
- `OneActiveCorrect`: `Spec => []OneActiveJobPerSegment`;
- `SlotsRefinement`: `Spec => SlotsSpec`;
- `PublishBeforeQueuedCorrect`: `Spec => []PublishBeforeQueued`;

and, with the further assumption `OneWorker`, which is how `docker-compose.yml`
deploys the worker:

- `ActiveJobBackedCorrect`: `Spec => []ActiveJobBacked`;
- `AckOnlySettledCorrect`: `Spec => AckOnlySettled`;
- `FinalMeansFinalCorrect`: `Spec => FinalMeansFinal`;
- `RepeatedCallsCorrect`: `Spec => []RepeatedCallsWithinFaults`.

The argument. `TableStep` reduces the many actions to the four things a step can
do to the table: nothing, one update under the index, one insert for a segment
without an active job, a deletion. `OneActiveJobPerSegment` and the refinement
need no more than that. `PublishBeforeQueued` is not inductive, because a commit
relies on an earlier XADD; `PublishInv` adds that a worker at its commit has
published the row. `ActiveJobBacked` needs `BackedInv`, which adds that rows
selected or published have been inserted (`Inserted`), and that what a worker
holds is pending in the group while a job it is about to acknowledge is settled
(`Held`). `Held` is where a second worker would break in, by acknowledging an
entry the first still processes. The two action properties follow from the same
invariant, one action at a time.

For `RepeatedCallsCorrect` every job has a weight: the calls made for it, the entries
that will still lead to a call (`Due`), and one more while its row is to be
published (`ToPublish`). A step without a fault raises no weight above 1, because a
call uses up an entry and an entry uses up the pending row; a fault raises one weight
by 1, by losing an answer, a publication or its record. So the parts of the weights
above 1 add up to no more than the faults (`WeightWithinFaults`), and the calls are
part of the weights. That steps without a fault do not raise a weight rests on
`Selected`, `Gone` and `OneActiveJobPerSegment`: what the dispatcher holds is pending
or deleted, so a commit it is refused publishes nothing twice.

`SegmentQAProofs`, from the assumptions of `SegmentQA`: `TypeCorrect`,
`ReportsUniqueCorrect`, `RowConsistentCorrect`, `ManualReportsCorrect`,
`LateResultsCorrect`, for every set of sessions, texts, statuses, QA states and
payloads. The invariant adds that the copy of a session which is not `dirty` is the
row (`Current`); that what such a session is about to write makes each column it has
worked out right, and leaves the texts of the others alone (`Plans`); and that a report
a check has found is still there (`Checks`). `CommitStep` takes any commit from there:
a dirty session makes both derived columns `loose`, and another one leaves a column
outside `loose` only when it has worked it out or has changed nothing it depends on.

`BenchmarkRunProofs`, from `ConstantsAssumption`, for every number of cases,
executors and executions: `TypeCorrect`, `CompletedMeansAllCorrect`,
`CompletedIsKeptCorrect`, `DryResultsDetermined`, `DryWithinBudgetCorrect`. The
outcome is computed from results read earlier, so the invariant has to say that what was read still holds
(`ReadStillHolds`). For live runs that is so while executions do not overlap
(`Alone`). For dry runs it is so although they overlap, for a reason that is not
in any one step: every execution gives case c the same budget, because a completed
case has the cost a planned one is given, so a case that one execution completes is
never failed by another. `Shares` names these budgets; that they exist for every
number of cases is an induction (`SharesExist`), which rests on `LeastNumber` of `FiniteSums`, the
well-foundedness of the natural numbers stated for sets. `DryPlan` and `DryRecords`
then tie tasks and records to them, and `AffordableCasesFit` adds up any cases whose
budgets cover them. It cites `FiniteSums`, which shows that the sum the community
modules define by a recursive function can be split at any element
(`SumOfFiniteSet`); the induction is over sets of subsets (`SubsetInduction`).

Two more theorems are the part of `ExecutionEnds` that needs no fairness.
`NoCircularWaitCorrect`: while an execution is going on, one that is going on has a
step to take (`MayGoOn` has a disjunct for each guard of `Advance`). An execution
that claims a case waits while another holds its row. A single transaction then holds
rows of earlier cases only, because it takes the cases in the order of the dataset
(`TakenInOrder`). In a circle, the one that waits for the furthest case would wait for
one that itself waits for a case further on (`HolderIsFurther`). `EveryStepCountsCorrect`: each step of an execution lowers its
`Remaining`, the ranks of its cases summed up and its own stage, and leaves those of
the others alone; a case goes from unread to done in at most four steps.

`EditorSaveProofs`, from `EditorAssumption`, for every number of segments, texts,
saves, navigations and jobs: `TypeCorrect`, `ShownBelongsCorrect`, `OneSaveCorrect`,
`ShownIsStoredCorrect`, `MarkedCorrect`, `DraftSurvivesCorrect`. The invariant adds
that every save carries a token of the past, and only the one of the present token
is waited for and not aborted (`SaveInv`); that every text on its way, in a detail
answer, a refresh or a check, is one its segment has had (`Had`); and that page and
row agree outside `lost` (`Fresh`).

`DocumentIngestionProofs`, from the assumptions on inputs and limits, for any number
of overlapping uploads: `TypeCorrect`, `BookHasFileCorrect`, `FilesAccountedCorrect`.
The invariant adds that an upload between its file and its end has its file. And for
every document, of any length, and every pair of limits: `WordsKeptCorrect`,
`SegmentsUsableCorrect`, `ParsedInOrderCorrect`. Parsers and segmenter are folds, so
each has a lemma on one step, which says what a loop's accumulator keeps: that the
segments closed and the one being filled, joined, hold the words met so far; that what
is closed has words and fits, or is a single word; that the chapters closed and the
current one, after the introduction, hold the body read so far, or each title's items
in order. The induction over the length of the sequence is stated for the set of
sequences that have the property, since the induction theorems of the library, which take an operator,
cannot be used. Every sentence, paragraph and chapter adds its words at the end of what
is joined already, and so do the words of a sentence that is split.

`TranslationServiceProofs`, from the assumptions on retries, timeouts and delays:
`TypeCorrect`, `EveryAttemptUsedCorrect`, `CallWithinTimeCorrect`,
`EveryCallStepCountsCorrect`. The invariant adds that before the end all attempts have
failed in a way worth a retry and one more is allowed (`Attempts`). The last theorem
is the part of `CallEnds` that needs no fairness: each step lowers `StepsLeft`, which is
never more than two for each attempt and one to begin with.

`QualityRulesProofs`, for all texts of the tokens modelled and all audits:
`TypeCorrect`, `LossNeverPassesCorrect`, `AuditWithinShareCorrect`,
`DefaultsKeepVerdicts`. The two middle ones depend on the settings, so each states the
condition it needs. `LossOutweighsAudit`: the best audit does not lift a score of 80,
the best a loss allows, to the threshold. `AuditLiftsNothing`: no audit lifts a score
that rules can give and that is below the threshold to it. `DefaultsMeetConditions`
shows both for the default weight of 80 and threshold of 85: 80 becomes 84, and so does
every lower score at most, since the weights of the rules are multiples of 5
(`ScoreOfRules`) and no score lies between 80 and 85. The invariant says that the issues
are those the rules find, that score and verdict were computed from them, and that an
audit has not been there before it was asked for. Scores add up issue by issue with the
sums of `FiniteSums`, which also shows that a sum of multiples is one
(`SumOfMultiples`) and that a sum gets smaller with one of its parts (`SumDecreases`).

Only model-checked:

- liveness (`PendingSettles`, `ExecutionEnds`, `SaveEnds`, `CallEnds`): fairness and ENABLED are beyond the prover. What `ExecutionEnds` and
  `CallEnds` rest on besides fairness is proved, see above;
- the counterexamples of section 5.

## 7. Not modelled, and why

- Benchmark dataset, prices, metrics and command line: constant data, and numbers
  computed for display that no guard reads. So are the attempts, tokens and
  exports of a run.
- Prompts, token counts and the HTTP clients of the providers: text, and services
  outside the repository.
- What python-docx, ebooklib and BeautifulSoup read; title, author and metadata of a
  document: library work, and fields nothing depends on.
- HTTP routing, schemas, error bodies, pagination, logging, rendering: no state.
- Configuration: read at start; what the models depend on is a constant there and
  the validators are the assumptions. Only the thresholds, which are computed from
  several settings, are modelled.
- Pool sizes and memory limits: deployment settings.
- Plain reads, such as lists, the latest report and summaries, change nothing; the
  properties speak of the state they read.
- The page's lists of books, jobs and benchmark runs: each answer replaces them.

## 8. What remains

1. Composition of `TranslationPipeline` with the row of `SegmentQA`, so that a
   redelivered entry and an edit meet, and of `EditorSave` with the same row.
2. `TranslationService` as a refinement of the two outcomes of `Translate`, with
   the idle time of an entry counted.
3. What `PendingSettles` rests on besides fairness, in the way of `EveryStepCounts`.
