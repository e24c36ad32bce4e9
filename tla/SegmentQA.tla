------------------------------- MODULE SegmentQA -------------------------------
(***************************************************************************)
(* One segment and its quality reports.  Edits, quality checks and         *)
(* translation jobs work on the row at the same time, each in a database   *)
(* session of its own that loads the row, works on the loaded copy, and    *)
(* commits later.                                                          *)
(*                                                                         *)
(* A commit writes only the columns whose value differs from the loaded    *)
(* one.  Which checks a text passes is left open: a verdict is any of      *)
(* Verdicts.                                                               *)
(***************************************************************************)
CONSTANTS
    Sessions,     \* sessions that may be open at once
    Sources,      \* values of original_text
    Texts,        \* values of translated_text that are not blank
    Blanks,       \* values of translated_text that are blank and not null
    NoText,       \* translated_text null
    Statuses,     \* values of status, those only a client writes included
    QAStates,     \* values of qa_status but null, the same
    Jobs,         \* translation jobs of the segment
    NoJob,        \* translation_job_id of a report made by a quality check
    Modes,        \* modes of the quality checks that are made
    Keep,         \* a column that a payload or an UPDATE leaves out
    Payloads,     \* the payloads of a PATCH that are sent
    Verdicts,     \* what a report can say, out of the three of the code
    NoReport      \* the query for a report has no result

AllTexts == Texts \cup Blanks \cup {NoText}
Rows     == [source : Sources, text : AllTexts, status : Statuses, qa : QAStates \cup {"none"}]
Reports  == [job : Jobs \cup {NoJob}, mode : {"deterministic", "full"}, source : Sources,
             text : Texts, verdict : Verdicts]

\* Values for some of the columns: the payload of a PATCH, which has no null but
\* for the translation, and the SET of an UPDATE.
Fields == [source : Sources \cup {Keep}, text : AllTexts \cup {Keep},
           status : Statuses \cup {Keep}, qa : QAStates \cup {Keep}]

ASSUME ConstantsAssumption ==
    /\ Texts \cap (Blanks \cup {NoText}) = {}
    /\ {"pending", "translated"} \subseteq Statuses
    /\ Verdicts \cup {"stale"} \subseteq QAStates
    /\ NoJob \notin Jobs
    /\ Keep \notin Sources \cup Texts \cup Blanks \cup {NoText} \cup Statuses \cup QAStates
    /\ Modes \subseteq {"deterministic", "full"}
    /\ Verdicts \subseteq {"passed", "needs_review", "failed"}
    /\ NoReport \notin Reports
    /\ Payloads \subseteq Fields

VARIABLES
    row,       \* the segment: source, text, status and qa_status
    reports,   \* translation_quality_reports
    session,   \* what each session has loaded, found or is about to write
    dirty,     \* sessions that loaded the row before another one's commit
    loose      \* history: columns written by a client itself or from an outdated copy

vars == <<row, reports, session, dirty, loose>>

\* The columns worked out from the texts and from reports.
Derived == {"status", "qa"}

Idle == [pc |-> "idle"]

\* A segment of an uploaded document starts without a translation.  One that is
\* posted has whatever the client sends.
Init ==
    /\ row \in Rows
    /\ loose \in {{}, Derived}
    /\ loose = {} => row.text = NoText /\ row.status = "pending" /\ row.qa = "none"
    /\ reports = {}
    /\ session = [r \in Sessions |-> Idle]
    /\ dirty = {}

--------------------------------------------------------------------------------
(* The row as a session leaves it *)

StatusOf(text) == IF text \in Texts THEN "translated" ELSE "pending"

\* Faulty variant: a field that is left out is written as null.
WithNulls(x, fields) == [c \in DOMAIN x |-> fields[c]]

\* The row with the fields that have a value set to it.
WithFields(x, fields) == [c \in DOMAIN x |-> IF fields[c] = Keep THEN x[c] ELSE fields[c]]

\* The columns in which a session's copy differs from the row it has loaded.
Changes(loaded, new) == [c \in DOMAIN loaded |-> IF new[c] = loaded[c] THEN Keep ELSE new[c]]

\* update_segment_translation
Edited(loaded, text) ==
    [loaded EXCEPT !.text = text, !.status = StatusOf(text), !.qa = "stale"]

\* The derived columns update_segment works out for a payload.
DerivedByPatch(loaded, new) ==
    CASE new.text # loaded.text -> Derived
      [] new.text = loaded.text /\ new.source # loaded.source -> {"qa"}
      [] OTHER -> {}

\* Faulty variant: the QA result survives a change of the source.
PatchedKeepingQA(loaded, fields) ==
    LET new == WithFields(loaded, fields)
    IN IF new.text = loaded.text THEN new
       ELSE [new EXCEPT !.status = StatusOf(new.text), !.qa = "stale"]

\* update_segment: every field sent is set, then the status is worked out when
\* the translation has changed, and the QA result dropped when either text has.
Patched(loaded, fields) ==
    LET new     == WithFields(loaded, fields)
        derived == DerivedByPatch(loaded, new)
    IN [new EXCEPT !.status = IF "status" \in derived THEN StatusOf(new.text) ELSE @,
                   !.qa     = IF "qa" \in derived THEN "stale" ELSE @]

\* _sync_legacy_fields
Checked(loaded, verdict) == [loaded EXCEPT !.qa = verdict]

\* The worker's segment after the provider's answer and its QA report.
Translated(loaded, text, verdict) ==
    [loaded EXCEPT !.text = text, !.status = "translated", !.qa = verdict]

--------------------------------------------------------------------------------
(* Reports *)

Manual   == {p \in reports : p.job = NoJob}
OfJob(j) == {p \in reports : p.job = j}
ForTexts(source, text) == {p \in reports : p.source = source /\ p.text = text}

\* Faulty variant: no unique index on the manual reports.
AnyManual(source, text) == TRUE

\* uq_translation_quality_reports_segment_evaluator admits a new manual report.
ManualIndexAllows(source, text) == Manual \cap ForTexts(source, text) = {}

\* same_payload: report p was made in this mode for these texts.
SamePayload(p, mode, source, text) ==
    p # NoReport /\ p.mode = mode /\ p.source = source /\ p.text = text

--------------------------------------------------------------------------------
(* Sessions *)

Open(r, state) ==
    /\ session[r] = Idle
    /\ session' = [session EXCEPT ![r] = state]
    /\ dirty' = dirty \ {r}
    /\ UNCHANGED <<row, reports, loose>>

\* PATCH .../translation and PATCH of the segment: nothing is awaited between
\* loading the row and the commit, so what will be written is settled here.
OpenEdit(r, text) ==
    Open(r, [pc |-> "write", fields |-> Changes(row, Edited(row, text)), derived |-> Derived])

OpenPatch(r, fields) ==
    LET new == Patched(row, fields)
    IN Open(r, [pc |-> "write", fields |-> Changes(row, new),
                derived |-> DerivedByPatch(row, new)])

\* POST quality-check.  A segment without a translation is rejected.
OpenCheck(r, mode) ==
    row.text \in Texts /\ Open(r, [pc |-> "check", mode |-> mode, row |-> row])

\* The worker with a job, on its way to the provider.
OpenJob(r, job) == Open(r, [pc |-> "translate", job |-> job, row |-> row])

\* The session ends without a commit: the request was cut off, the provider
\* failed, or the database refused the statement.
Close(r) ==
    /\ session[r] # Idle
    /\ session' = [session EXCEPT ![r] = Idle]
    /\ dirty' = dirty \ {r}
    /\ UNCHANGED <<row, reports, loose>>

At(r, pc) == session[r].pc = pc

\* An UPDATE of the changed columns.  Sessions that are open have loaded an older
\* row.  A copy older than the row leaves a mixture; otherwise a column holds what
\* a client wrote, or the mixture, until an operation works it out.
Commit(r, fields, derived) ==
    /\ row' = WithFields(row, fields)
    /\ session' = [session EXCEPT ![r] = Idle]
    /\ dirty' = (dirty \cup {q \in Sessions : session[q] # Idle}) \ {r}
    /\ loose' = IF r \in dirty THEN Derived
                ELSE (loose \cup {c \in Derived : fields[c] # Keep}) \ derived

Write(r) ==
    /\ At(r, "write")
    /\ Commit(r, session[r].fields, session[r].derived)
    /\ UNCHANGED reports

--------------------------------------------------------------------------------
(* evaluate_segment for a quality check *)

\* get_by_segment_and_version: the first row of a query without an order.
FindManual(r) ==
    /\ At(r, "check")
    /\ \E p \in IF Manual = {} THEN {NoReport} ELSE Manual :
         session' = [session EXCEPT ![r] =
           [pc |-> "found", mode |-> @.mode, row |-> @.row, found |-> p]]
    /\ UNCHANGED <<row, reports, dirty, loose>>

\* Faulty variant: every column of the loaded copy is written.
CommitWholeCopy(r, verdict) == Commit(r, Checked(session[r].row, verdict), {"qa"})

\* The verdict of a check is mirrored in the row.
CommitVerdict(r, verdict) ==
    LET s == session[r] IN Commit(r, Changes(s.row, Checked(s.row, verdict)), {"qa"})

\* The report found has the payload of the check: it is returned as it is.
ReuseReport(r) ==
    LET s == session[r]
    IN /\ At(r, "found")
       /\ SamePayload(s.found, s.mode, s.row.source, s.row.text)
       /\ CommitVerdict(r, s.found.verdict)
       /\ UNCHANGED reports

\* The report a check makes.
NewReport(s, verdict) ==
    [job |-> NoJob, mode |-> s.mode, source |-> s.row.source, text |-> s.row.text,
     verdict |-> verdict]

\* Faulty variant: the report found is rewritten for the new texts.
RewriteReport(r) ==
    LET s == session[r]
    IN /\ At(r, "found")
       /\ ~SamePayload(s.found, s.mode, s.row.source, s.row.text)
       /\ \E v \in Verdicts :
            /\ reports' = (reports \ {s.found}) \cup {NewReport(s, v)}
            /\ CommitVerdict(r, v)

\* The checks run, with an AI call in full mode, and a new report is inserted.
InsertReport(r) ==
    LET s == session[r]
    IN /\ At(r, "found")
       /\ ~SamePayload(s.found, s.mode, s.row.source, s.row.text)
       /\ ManualIndexAllows(s.row.source, s.row.text)
       /\ \E v \in Verdicts :
            /\ reports' = reports \cup {NewReport(s, v)}
            /\ CommitVerdict(r, v)

--------------------------------------------------------------------------------
(* process_translation_job after the provider's answer *)

\* The query for the job's report flushes the new text first, so the row stays
\* locked from there to the commit: lookup, report and row are one step.  The
\* checks of a job are deterministic, and a job has one report, rewritten when
\* the job is processed again.
StoreResult(r, text, verdict) ==
    LET s    == session[r]
        j    == s.job
        same == {p \in OfJob(j) : SamePayload(p, "deterministic", s.row.source, text)}
    IN /\ At(r, "translate")
       /\ IF same # {}
            THEN (\E p \in same : verdict = p.verdict) /\ UNCHANGED reports
            ELSE reports' = (reports \ OfJob(j)) \cup
                   {[job |-> j, mode |-> "deterministic", source |-> s.row.source,
                     text |-> text, verdict |-> verdict]}
       /\ Commit(r, Changes(s.row, Translated(s.row, text, verdict)), Derived)

--------------------------------------------------------------------------------

Next ==
    \E r \in Sessions :
        \/ \E t \in AllTexts : OpenEdit(r, t)
        \/ \E fields \in Payloads : OpenPatch(r, fields)
        \/ \E m \in Modes : OpenCheck(r, m)
        \/ \E j \in Jobs : OpenJob(r, j)
        \/ Close(r)
        \/ Write(r)
        \/ FindManual(r) \/ ReuseReport(r) \/ InsertReport(r)
        \/ \E t \in Texts, v \in Verdicts : StoreResult(r, t, v)

Spec == Init /\ [][Next]_vars

--------------------------------------------------------------------------------
(* Properties *)

SessionStates ==
    {Idle}
    \cup [pc : {"write"}, fields : Fields, derived : SUBSET Derived]
    \cup [pc : {"check"}, mode : Modes, row : Rows]
    \cup [pc : {"found"}, mode : Modes, row : Rows, found : Reports \cup {NoReport}]
    \cup [pc : {"translate"}, job : Jobs, row : Rows]

TypeOK ==
    /\ row \in Rows
    /\ reports \subseteq Reports
    /\ session \in [Sessions -> SessionStates]
    /\ dirty \subseteq Sessions
    /\ loose \subseteq Derived

\* Unless a client has written it itself or an overlap has mixed it up, the status
\* says whether there is a translation, and a verdict mirrored in the row is that
\* of a report for the row's own texts (quality/service.py:383, "atomically with
\* the report").  Neither lasts: the next edit of the translation or job that
\* overlaps no other session makes both columns right again, the next check the
\* verdict.
RowConsistent ==
    /\ "status" \notin loose => row.status = StatusOf(row.text)
    /\ "qa" \notin loose /\ row.qa \in Verdicts =>
         \E p \in ForTexts(row.source, row.text) : p.verdict = row.qa

\* A job never has two reports, nor a pair of texts two manual ones, however
\* often the job is delivered and whatever checks overlap.
ReportsUnique ==
    \A p, q \in reports :
        /\ p.job = q.job
        /\ p.job = NoJob => p.source = q.source /\ p.text = q.text
        => p = q

\* A manual report is a record of what was checked: it is never rewritten.  Only
\* the report of a job follows its job.
ManualReportsPermanent ==
    [][Manual \subseteq reports']_vars

\* What took long does not bring back the texts it started from: a check leaves both
\* texts, and a job the source, as edits made meanwhile have left them.
LateResultsKeepTexts ==
    [][\A r \in Sessions : session'[r] # session[r] =>
          /\ At(r, "found") => row'.source = row.source /\ row'.text = row.text
          /\ At(r, "translate") => row'.source = row.source]_vars

\* tests/test_quality_service.py:235, "reuses_existing_manual_report_for_same_checksum":
\* a check that nothing overlaps is answered with the report of its texts and mode.
ReportReused ==
    \A r \in Sessions \ dirty :
        At(r, "found") =>
            LET s == session[r]
            IN (\E p \in Manual : SamePayload(p, s.mode, s.row.source, s.row.text))
                 => SamePayload(s.found, s.mode, s.row.source, s.row.text)

================================================================================
