------------------------------ MODULE EditorSave ------------------------------
(***************************************************************************)
(* The translation editor of the workspace page: one page that edits one   *)
(* segment at a time and saves it, while translation jobs and quality      *)
(* checks of the segment run, and the user moves between segments and      *)
(* sections without waiting for answers.                                   *)
(*                                                                         *)
(* A request the page has aborted or given up may still be executed: the   *)
(* server is not told.  selectedSegment and activeSegmentIdRef are always  *)
(* set together, as are draftTranslation and its ref: one variable each.   *)
(***************************************************************************)
EXTENDS Naturals

CONSTANTS
    Segments,   \* segments of the open chapter
    Texts,      \* translations; a missing one is an element like the others
    None,       \* nothing selected, loaded or reported
    MaxToken,   \* bound: saves sent and navigations made
    MaxJobs     \* bound: translation jobs created from the page

ASSUME EditorAssumption ==
    /\ None \notin Segments \cup Texts
    /\ None \notin [Segments -> Texts]
    /\ MaxToken \in Nat
    /\ MaxJobs \in Nat

VARIABLES
    stored,     \* segments.translated_text in the database
    written,    \* history: every translation a segment has had there
    judged,     \* the text the latest report of a segment is about
    list,       \* segments: the rows of the list, once loaded
    detail,     \* the detail request that was not aborted
    selected,   \* activeSegmentIdRef, the id of selectedSegment
    shown,      \* selectedSegment.translated_text
    draft,      \* draftTranslation
    dirty,      \* draftDirty
    section,    \* the section of the page that is shown
    report,     \* qualityReport: the segment and the text it is about
    token,      \* saveRequestToken
    saveBusy,   \* a save of the selected segment is on its way
    saves,      \* PATCH requests: sent, executed or not, answered or not
    running,    \* segments with a job the worker has not ended
    posting,    \* segment a job is being created for
    jobs,       \* number of jobs created
    job,        \* selectedJob as the page knows it
    check,      \* the quality check that is being requested
    lost        \* history: segments changed behind the page's back

server == <<stored, written, judged, running>>
editor == <<selected, shown, draft, dirty, report>>
saving == <<token, saveBusy, saves>>
work   == <<posting, jobs, job, check>>
vars   == <<server, list, detail, editor, section, saving, work, lost>>

Sections == {"books", "jobs", "quality"}

Init ==
    /\ \E first \in Texts : stored = [s \in Segments |-> first]
    /\ written = [s \in Segments |-> {stored[s]}]
    /\ judged = [s \in Segments |-> None]
    /\ list = None
    /\ detail = None
    /\ selected = None /\ shown = None /\ draft = None /\ dirty = FALSE /\ report = None
    /\ section = "books"
    /\ token = 0 /\ saveBusy = FALSE /\ saves = {}
    /\ running = {} /\ posting = None /\ jobs = 0 /\ job = None /\ check = None
    /\ lost = {}

--------------------------------------------------------------------------------
(* Navigation *)

\* The effect that polls: it runs again when the section, the segment or the job
\* changes, and what it was waiting for is aborted.
Watched(j, sec, segment) ==
    IF j = None THEN None
    ELSE [j EXCEPT !.poll = (sec = "jobs" /\ segment = j.segment /\ ~j.ended), !.fetched = None]

\* Faulty variant: the busy flag is left to the answer of the save.
InvalidateKeepingBusy ==
    /\ token < MaxToken
    /\ token' = token + 1
    /\ saves' = {[q EXCEPT !.aborted = TRUE] : q \in saves}
    /\ lost' = lost \cup {q.segment : q \in {p \in saves : p.client = "waiting"}}
    /\ UNCHANGED saveBusy

\* invalidateSaveRequest.  The answer of an aborted save is never shown.
InvalidateSaveRequest ==
    /\ token < MaxToken
    /\ token' = token + 1
    /\ saveBusy' = FALSE
    /\ saves' = {[q EXCEPT !.aborted = TRUE] : q \in saves}
    /\ lost' = lost \cup {q.segment : q \in {p \in saves : p.client = "waiting"}}

\* clearSegmentState, and the new selection.
Select(segment, text) ==
    /\ selected' = segment
    /\ shown' = text
    /\ draft' = text
    /\ dirty' = FALSE
    /\ report' = None
    /\ job' = None

\* openBook, openChapter: the segments are loaded anew.
OpenChapter ==
    /\ section = "books"
    /\ InvalidateSaveRequest
    /\ Select(None, None)
    /\ list' = None
    /\ detail' = [kind |-> "segments", rows |-> None]
    /\ UNCHANGED <<server, section, posting, jobs, check>>

\* openSegment, moveToSegment: an unsaved draft has been given up.
OpenSegment(s) ==
    /\ section = "books"
    /\ list # None
    /\ InvalidateSaveRequest
    /\ Select(s, list[s])
    /\ detail' = [kind |-> "report", judged |-> None, read |-> FALSE]
    /\ UNCHANGED <<server, list, section, posting, jobs, check>>

\* changeSection: the selected segment stays, an unsaved draft is given up.
ChangeSection(next) ==
    /\ section # next
    /\ InvalidateSaveRequest
    /\ section' = next
    /\ draft' = IF dirty THEN shown ELSE draft
    /\ dirty' = FALSE
    /\ job' = Watched(job, next, selected)
    /\ UNCHANGED <<server, list, detail, selected, shown, report, posting, jobs, check>>

\* The server executes the detail request, and the page takes the answer.
DetailRead ==
    /\ \/ /\ detail # None /\ detail.kind = "segments" /\ detail.rows = None
          /\ detail' = [detail EXCEPT !.rows = stored]
       \/ /\ detail # None /\ detail.kind = "report" /\ ~detail.read
          /\ detail' = [detail EXCEPT !.read = TRUE, !.judged = judged[selected]]
    /\ UNCHANGED <<server, list, editor, section, saving, work, lost>>

DetailAnswered ==
    /\ detail # None
    /\ \/ /\ detail.kind = "segments" /\ detail.rows # None
          /\ list' = detail.rows
          /\ UNCHANGED report
       \/ /\ detail.kind = "report" /\ detail.read
          /\ report' = IF detail.judged = None THEN report
                       ELSE [segment |-> selected, text |-> detail.judged]
          /\ UNCHANGED list
    /\ detail' = None
    /\ UNCHANGED <<server, selected, shown, draft, dirty, section, saving, work, lost>>

\* The request failed: the list stays empty, or the report is not shown.
DetailFails ==
    /\ detail # None
    /\ detail' = None
    /\ UNCHANGED <<server, list, editor, section, saving, work, lost>>

--------------------------------------------------------------------------------
(* The draft and its save *)

\* busy: a job or a check is being requested.
Busy == posting # None \/ check # None

\* handleDraftChange
ChangeDraft(text) ==
    /\ section = "books"
    /\ selected # None
    /\ draft' = text
    /\ dirty' = (text # shown)
    /\ UNCHANGED <<server, list, detail, selected, shown, report, section, saving, work, lost>>

\* resetDraft
ResetDraft == ChangeDraft(shown)

\* Faulty variant: Ctrl+S is taken while a save is on its way.
CanSaveTwice == selected # None /\ ~Busy /\ draft # shown

\* The save button and Ctrl+S, which works in every section.
CanSave == selected # None /\ ~Busy /\ ~saveBusy /\ draft # shown

SaveTranslation ==
    /\ CanSave
    /\ token < MaxToken
    /\ token' = token + 1
    /\ saveBusy' = TRUE
    /\ saves' = saves \cup {[id |-> token', segment |-> selected, text |-> draft, aborted |-> FALSE,
                             client |-> "waiting", done |-> FALSE]}
    /\ UNCHANGED <<server, list, detail, editor, section, work, lost>>

Write(s, text) ==
    /\ stored' = [stored EXCEPT ![s] = text]
    /\ written' = [written EXCEPT ![s] = @ \cup {text}]

\* The save is executed, whether or not the page still waits for it.
SaveStored(q) ==
    /\ ~q.done
    /\ Write(q.segment, q.text)
    /\ saves' = (saves \ {q}) \cup
         (IF q.client = "waiting" THEN {[q EXCEPT !.done = TRUE]} ELSE {})
    /\ UNCHANGED <<judged, running, list, detail, editor, section, token, saveBusy, work, lost>>

\* Faulty variant: the answer is taken whatever has happened since.
AnyAnswer(q) == TRUE

\* The page still waits for the answer of this save.
Current(q) == ~q.aborted /\ token = q.id /\ selected = q.segment

\* finally: only the answer of the current save frees the button.
Freed(q) == saveBusy' = (saveBusy /\ ~(token = q.id /\ selected = q.segment))

\* The rows of the list with a new text for one segment; an empty list has no row.
Listed(s, text) == IF list = None THEN None ELSE [list EXCEPT ![s] = text]

\* Faulty variant: the draft becomes the saved text.
TakeAnswerOverDraft(q) ==
    /\ shown' = q.text /\ list' = Listed(q.segment, q.text)
    /\ draft' = q.text /\ dirty' = FALSE /\ report' = None

\* Faulty variant: the list keeps the old text.
TakeAnswerNotListed(q) ==
    /\ shown' = q.text /\ dirty' = (draft # q.text) /\ report' = None
    /\ UNCHANGED <<list, draft>>

\* Faulty variant: a newer draft counts as saved.
TakeAnswerAsClean(q) ==
    /\ shown' = q.text /\ list' = Listed(q.segment, q.text)
    /\ dirty' = FALSE /\ report' = None
    /\ UNCHANGED draft

\* A newer draft stays, and stays unsaved.
TakeAnswer(q) ==
    /\ shown' = q.text /\ list' = Listed(q.segment, q.text)
    /\ dirty' = (draft # q.text) /\ report' = None
    /\ UNCHANGED draft

SaveAnswered(q) ==
    /\ q.client = "waiting" /\ q.done
    /\ IF Current(q) THEN TakeAnswer(q) ELSE UNCHANGED <<list, shown, draft, dirty, report>>
    /\ Freed(q)
    /\ saves' = saves \ {q}
    /\ UNCHANGED <<server, detail, selected, section, token, work, lost>>

\* Timeout, network or server error, or the abort: the save may yet be executed.
SaveGivenUp(q) ==
    /\ q.client = "waiting"
    /\ Freed(q)
    /\ lost' = lost \cup {q.segment}
    /\ saves' = (saves \ {q}) \cup
         (IF q.done THEN {} ELSE {[q EXCEPT !.client = "gone"]})
    /\ UNCHANGED <<server, list, detail, editor, section, token, work>>

--------------------------------------------------------------------------------
(* Translation jobs of the selected segment *)

\* A segment with a job under way gets no other (409).
CreateJob ==
    /\ section = "jobs" /\ selected # None /\ ~Busy /\ jobs < MaxJobs
    /\ selected \notin running
    /\ running' = running \cup {selected}
    /\ posting' = selected
    /\ jobs' = jobs + 1
    /\ UNCHANGED <<stored, written, judged, list, detail, editor, section, saving, job, check, lost>>

\* The new job is selected, whatever segment is shown by now.
JobCreated ==
    /\ posting # None
    /\ job' = Watched([segment |-> posting, ended |-> FALSE, poll |-> FALSE, fetched |-> None],
                      section, selected)
    /\ posting' = None
    /\ UNCHANGED <<server, list, detail, editor, section, saving, jobs, check, lost>>

\* The worker stores a translation and its report.
JobEnds(s, text) ==
    /\ s \in running
    /\ Write(s, text)
    /\ judged' = [judged EXCEPT ![s] = text]
    /\ running' = running \ {s}
    /\ lost' = lost \cup {s}
    /\ UNCHANGED <<list, detail, editor, section, saving, work>>

\* pollUntilTerminal: the page sees that the job has completed.
JobSeen ==
    /\ job # None /\ job.poll /\ ~job.ended /\ job.segment \notin running
    /\ job' = [job EXCEPT !.ended = TRUE]
    /\ UNCHANGED <<server, list, detail, editor, section, saving, posting, jobs, check, lost>>

\* The job has failed, or a poll has: nothing is refreshed.
PollEnds ==
    /\ job # None /\ job.poll
    /\ \E ended \in {job.ended, job.segment \notin running} :
         job' = [job EXCEPT !.ended = ended, !.poll = FALSE, !.fetched = None]
    /\ UNCHANGED <<server, list, detail, editor, section, saving, posting, jobs, check, lost>>

\* refreshCompletedSegment: the segment and its report are read ...
RefreshRead ==
    /\ job # None /\ job.poll /\ job.ended /\ job.fetched = None
    /\ job' = [job EXCEPT !.fetched = [text |-> stored[job.segment], judged |-> judged[job.segment]]]
    /\ UNCHANGED <<server, list, detail, editor, section, saving, posting, jobs, check, lost>>

\* ... and shown; the draft stays.
Refreshed ==
    /\ job # None /\ job.fetched # None
    /\ shown' = job.fetched.text
    /\ list' = Listed(job.segment, job.fetched.text)
    /\ report' = IF job.fetched.judged = None THEN None
                 ELSE [segment |-> job.segment, text |-> job.fetched.judged]
    /\ job' = [job EXCEPT !.poll = FALSE, !.fetched = None]
    /\ UNCHANGED <<server, detail, selected, draft, dirty, section, saving, posting, jobs, check, lost>>

--------------------------------------------------------------------------------
(* Quality checks of the selected segment *)

RunQualityCheck ==
    /\ section = "quality" /\ selected # None /\ ~Busy
    /\ check' = [segment |-> selected, text |-> None]
    /\ UNCHANGED <<server, list, detail, editor, section, saving, posting, jobs, job, lost>>

CheckExecuted ==
    /\ check # None /\ check.text = None
    /\ judged' = [judged EXCEPT ![check.segment] = stored[check.segment]]
    /\ check' = [check EXCEPT !.text = stored[check.segment]]
    /\ UNCHANGED <<stored, written, running, list, detail, editor, section, saving, posting, jobs, job, lost>>

\* Faulty variant: a check that failed is shown as a report.
ShowsFailed(c) == c.segment = selected

\* The report of a check is shown while its segment is.
Shows(c) == c.text # None /\ c.segment = selected

CheckAnswered ==
    /\ check # None
    /\ report' = IF Shows(check) THEN check ELSE report
    /\ check' = None
    /\ UNCHANGED <<server, list, detail, selected, shown, draft, dirty, section, saving,
                   posting, jobs, job, lost>>

--------------------------------------------------------------------------------
SaveEndsFor(q) == SaveAnswered(q) \/ SaveGivenUp(q)

Next ==
    \/ OpenChapter \/ DetailRead \/ DetailAnswered \/ DetailFails
    \/ \E s \in Segments : OpenSegment(s)
    \/ \E next \in Sections : ChangeSection(next)
    \/ \E text \in Texts : ChangeDraft(text)
    \/ ResetDraft \/ SaveTranslation
    \/ \E q \in saves : SaveStored(q) \/ SaveAnswered(q) \/ SaveGivenUp(q)
    \/ CreateJob \/ JobCreated \/ JobSeen \/ PollEnds \/ RefreshRead \/ Refreshed
    \/ \E s \in Segments, text \in Texts : JobEnds(s, text)
    \/ RunQualityCheck \/ CheckExecuted \/ CheckAnswered

Spec == Init /\ [][Next]_vars

\* Every request of the page ends: request() aborts it after its timeout.
FairSpec == Spec /\ WF_vars(\E q \in saves : SaveEndsFor(q))

--------------------------------------------------------------------------------
Saves == [id : 1..MaxToken, segment : Segments, text : Texts, aborted : BOOLEAN,
          client : {"waiting", "gone"}, done : BOOLEAN]
Jobs  == [segment : Segments, ended : BOOLEAN, poll : BOOLEAN,
          fetched : [text : Texts, judged : Texts \cup {None}] \cup {None}]
Details ==
    [kind : {"segments"}, rows : [Segments -> Texts] \cup {None}]
    \cup [kind : {"report"}, judged : Texts \cup {None}, read : BOOLEAN]

\* Every variable has its type.
TypeOK ==
    /\ stored \in [Segments -> Texts]
    /\ written \in [Segments -> SUBSET Texts]
    /\ judged \in [Segments -> Texts \cup {None}]
    /\ list \in [Segments -> Texts] \cup {None}
    /\ detail \in Details \cup {None}
    /\ selected \in Segments \cup {None}
    /\ shown \in Texts \cup {None}
    /\ draft \in Texts \cup {None}
    /\ dirty \in BOOLEAN /\ saveBusy \in BOOLEAN
    /\ section \in Sections
    /\ report \in [segment : Segments, text : Texts] \cup {None}
    /\ token \in 0..MaxToken
    /\ saves \in SUBSET Saves
    /\ running \in SUBSET Segments /\ lost \in SUBSET Segments
    /\ posting \in Segments \cup {None}
    /\ jobs \in 0..MaxJobs
    /\ job \in Jobs \cup {None}
    /\ check \in [segment : Segments, text : Texts \cup {None}] \cup {None}

\* Whatever answer arrives after whatever navigation, the translation in the
\* editor, those in the list and the one the quality report is about are ones their
\* own segment has had: no answer of a save, a refresh, a check or a detail request
\* lands on another segment.
ShownBelongsToSegment ==
    /\ selected # None => list # None /\ shown \in written[selected]
    /\ list # None => \A s \in Segments : list[s] \in written[s]
    /\ report # None => report.segment = selected /\ report.text \in written[selected]

\* The save button is blocked exactly while one save of this visit to the
\* segment is waited for: no second save is sent, none is waited for unseen.
OneSaveAtATime ==
    LET live == {q \in saves : q.client = "waiting" /\ ~q.aborted}
    IN /\ saveBusy <=> live # {}
       /\ \A p, q \in live : p = q

\* While no save is waited for, the editor shows what the database holds, unless
\* a save of the segment was given up or a job has translated it.
ShownIsStored ==
    selected # None /\ selected \notin lost /\ ~saveBusy => shown = stored[selected]

\* As long as no job was created, exactly the drafts that differ from the shown
\* translation are marked as unsaved: navigation asks before it drops one.
MarkedUnlessJobs ==
    selected # None /\ jobs = 0 => (dirty <=> draft # shown)

\* No answer changes the draft: it changes when the user types or resets it, and
\* when a navigation gives it up.
DraftSurvivesAnswers ==
    [][(draft' # draft) => \/ token' # token
                           \/ UNCHANGED <<shown, saves, job, check, detail>>]_vars

\* The save button does not stay blocked, whatever becomes of the save.
SaveEnds == saveBusy ~> ~saveBusy
===============================================================================
