--------------------------- MODULE EditorSaveProofs ---------------------------
(***************************************************************************)
(* Proofs about EditorSave, for any number of segments, translations,      *)
(* saves, navigations and jobs.                                            *)
(***************************************************************************)
EXTENDS EditorSave, TLAPS

USE EditorAssumption
USE DEF server, editor, saving, work

\* A save the page waits for and has not aborted.
Live == {q \in saves : q.client = "waiting" /\ ~q.aborted}

\* A selected segment is one of the list, and the editor shows its row; before one
\* is selected the list is what is requested, and after it the report.
Ready ==
    /\ selected # None => list # None /\ shown = list[selected] /\ draft \in Texts
    /\ detail # None => (detail.kind = "segments" <=> selected = None)

\* A live save is the last request of this visit, and saveBusy says there is one.
SaveInv ==
    /\ \A q \in saves : q.id <= token /\ (q.aborted => q.id < token)
    /\ \A p, q \in saves : p.id = q.id => p = q
    /\ \A q \in Live : q.id = token /\ q.segment = selected
    /\ saveBusy <=> Live # {}

\* Every text on its way to the page is one its segment has had, and what answers
\* for a job or a report is about the selected segment.
HadStored ==
    \A s \in Segments : /\ stored[s] \in written[s]
                        /\ judged[s] # None => judged[s] \in written[s]
HadList == list # None => \A s \in Segments : list[s] \in written[s]
HadDetail ==
    detail # None =>
      /\ detail.kind = "segments" /\ detail.rows # None =>
           \A s \in Segments : detail.rows[s] \in written[s]
      /\ detail.kind # "segments" /\ detail.judged # None => detail.judged \in written[selected]
HadReport == report # None => report.segment = selected /\ report.text \in written[selected]
HadSaves == \A q \in saves : q.done => q.text \in written[q.segment]
HadJob ==
    job # None =>
      /\ job.poll => job.segment = selected
      /\ job.fetched # None =>
           /\ job.segment = selected
           /\ job.fetched.text \in written[selected]
           /\ job.fetched.judged # None => job.fetched.judged \in written[selected]
HadCheck == check # None /\ check.text # None => check.text \in written[check.segment]

Had == HadStored /\ HadList /\ HadDetail /\ HadReport /\ HadSaves /\ HadJob /\ HadCheck

\* For a segment nothing has changed behind the page's back, the row of the list
\* and the one being requested are stored, up to a save that is executed but not
\* answered; and all its saves are live.
Fresh ==
    /\ \A q \in saves : q.segment \notin lost =>
         q \in Live /\ (q.done => stored[q.segment] = q.text)
    /\ list # None => \A s \in Segments \ lost :
         (\A q \in saves : q.segment = s => ~q.done) => list[s] = stored[s]
    /\ detail # None => (detail.kind = "segments" /\ detail.rows # None =>
         \A s \in Segments \ lost : detail.rows[s] = stored[s])

\* A job runs or has changed its segment; the segment is fetched after that.
JobRuns ==
    /\ posting # None => posting \in running \cup lost
    /\ job # None =>
         /\ job.segment \in running \cup lost
         /\ job.ended \/ job.fetched # None => job.segment \in lost

\* Before the first job there is none to be refreshed after.
Marked ==
    /\ MarkedUnlessJobs
    /\ jobs = 0 => job = None /\ posting = None

Inv == TypeOK /\ Ready /\ SaveInv /\ Had /\ Fresh /\ JobRuns /\ Marked

--------------------------------------------------------------------------------
(* Records of the requests and the steps they go through *)

LEMMA SaveFields ==
    ASSUME NEW q \in Saves
    PROVE  /\ q.id \in Nat /\ q.segment \in Segments /\ q.text \in Texts
           /\ q.aborted \in BOOLEAN /\ q.client \in {"waiting", "gone"} /\ q.done \in BOOLEAN
BY DEF Saves

\* A save that is aborted, executed or given up is a save with one field changed.
LEMMA SaveUpdates ==
    ASSUME NEW q \in Saves
    PROVE  LET a == [q EXCEPT !.aborted = TRUE]
               d == [q EXCEPT !.done = TRUE]
               g == [q EXCEPT !.client = "gone"]
           IN /\ a \in Saves /\ d \in Saves /\ g \in Saves
              /\ a.id = q.id /\ d.id = q.id /\ g.id = q.id
              /\ a.segment = q.segment /\ d.segment = q.segment /\ g.segment = q.segment
              /\ a.text = q.text /\ d.text = q.text /\ g.text = q.text
              /\ a.aborted /\ d.aborted = q.aborted /\ g.aborted = q.aborted
              /\ a.client = q.client /\ d.client = q.client /\ g.client = "gone"
              /\ a.done = q.done /\ d.done /\ g.done = q.done
BY DEF Saves

\* What the page watches is a job or nothing.
LEMMA WatchedType ==
    ASSUME NEW j \in Jobs \cup {None}, NEW sec, NEW segment
    PROVE  /\ Watched(j, sec, segment) \in Jobs \cup {None}
           /\ j = None => Watched(j, sec, segment) = None
           /\ j # None => /\ Watched(j, sec, segment).fetched = None
                          /\ Watched(j, sec, segment).segment = j.segment
                          /\ Watched(j, sec, segment).ended = j.ended
                          /\ Watched(j, sec, segment).poll => segment = j.segment
BY DEF Watched, Jobs

LEMMA ListedType ==
    ASSUME list \in [Segments -> Texts] \cup {None}, NEW s \in Segments, NEW text \in Texts
    PROVE  /\ Listed(s, text) \in [Segments -> Texts] \cup {None}
           /\ list = None <=> Listed(s, text) = None
           /\ list # None => /\ Listed(s, text)[s] = text
                             /\ \A t \in Segments \ {s} : Listed(s, text)[t] = list[t]
<1>1. None \notin [Segments -> Texts]
    OBVIOUS
<1>2. CASE list = None
    BY <1>2, <1>1 DEF Listed
<1>3. CASE list \in [Segments -> Texts]
  <2>1. Listed(s, text) = [list EXCEPT ![s] = text] /\ list # None
      BY <1>1, <1>3 DEF Listed
  <2>2. Listed(s, text) \in [Segments -> Texts]
      BY <1>3, <2>1
  <2> QED
      BY <1>1, <1>3, <2>1, <2>2
<1> QED
    BY <1>2, <1>3

--------------------------------------------------------------------------------
(* Types *)

LEMMA InitType == Init => TypeOK
<1> SUFFICES ASSUME Init PROVE TypeOK
    OBVIOUS
<1>1. PICK first \in Texts : stored = [s \in Segments |-> first]
    BY DEF Init
<1>2. stored \in [Segments -> Texts]
    BY <1>1
<1>3. written \in [Segments -> SUBSET Texts]
    BY <1>1 DEF Init
<1>4. judged \in [Segments -> Texts \cup {None}]
    BY DEF Init
<1>5. saves \in SUBSET Saves /\ running \in SUBSET Segments /\ lost \in SUBSET Segments
    BY DEF Init
<1>6. token \in 0..MaxToken /\ jobs \in 0..MaxJobs
    BY DEF Init
<1> QED
    BY <1>2, <1>3, <1>4, <1>5, <1>6 DEF Init, TypeOK, Sections

LEMMA InvalidateType ==
    ASSUME TypeOK, InvalidateSaveRequest
    PROVE  /\ saves' \in SUBSET Saves /\ token' \in 0..MaxToken /\ token' = token + 1
           /\ lost' \in SUBSET Segments /\ saveBusy' = FALSE
<1>1. saves \in SUBSET Saves /\ lost \in SUBSET Segments /\ token \in 0..MaxToken
    BY DEF TypeOK
<1>2. \A q \in saves : [q EXCEPT !.aborted = TRUE] \in Saves /\ q.segment \in Segments
    BY <1>1, SaveUpdates, SaveFields
<1>3. saves' \in SUBSET Saves
    BY <1>2 DEF InvalidateSaveRequest
<1>4. lost' \in SUBSET Segments
    BY <1>1, <1>2 DEF InvalidateSaveRequest
<1> QED
    BY <1>1, <1>3, <1>4 DEF InvalidateSaveRequest

LEMMA NavigationType ==
    ASSUME Inv,
           OpenChapter \/ (\E s \in Segments : OpenSegment(s)) \/ (\E n \in Sections : ChangeSection(n))
    PROVE  TypeOK'
<1> USE DEF Inv
<1>1. CASE OpenChapter
    BY <1>1, InvalidateType DEF OpenChapter, Select, TypeOK, Details, Sections
<1>2. ASSUME NEW s \in Segments, OpenSegment(s) PROVE TypeOK'
  <2>1. list[s] \in Texts
      BY <1>2 DEF OpenSegment, TypeOK
  <2> QED
      BY <1>2, <2>1, InvalidateType DEF OpenSegment, Select, TypeOK, Details
<1>3. ASSUME NEW n \in Sections, ChangeSection(n) PROVE TypeOK'
  <2>1. job' \in Jobs \cup {None}
      BY <1>3, WatchedType DEF ChangeSection, TypeOK
  <2>2. /\ saves' \in SUBSET Saves /\ token' \in 0..MaxToken
        /\ lost' \in SUBSET Segments /\ saveBusy' = FALSE
      BY <1>3, InvalidateType DEF ChangeSection
  <2>3. /\ section' \in Sections /\ draft' \in Texts \cup {None} /\ dirty' = FALSE
        /\ UNCHANGED <<server, list, detail, selected, shown, report, posting, jobs, check>>
      BY <1>3 DEF ChangeSection, TypeOK
  <2> QED
      BY <2>1, <2>2, <2>3 DEF TypeOK, server
<1> QED
    BY <1>1, <1>2, <1>3

LEMMA EditorType ==
    ASSUME Inv,
           \/ DetailRead \/ DetailAnswered \/ DetailFails
           \/ \E text \in Texts : ChangeDraft(text)
           \/ SaveTranslation
    PROVE  TypeOK'
<1> USE DEF Inv
<1>1. CASE DetailRead
  <2>1. detail' \in Details
    <3>1. CASE detail.kind = "segments"
        BY <1>1, <3>1 DEF DetailRead, TypeOK, Details
    <3>2. CASE detail.kind # "segments"
      <4>1. selected \in Segments
          BY <1>1, <3>2 DEF DetailRead, TypeOK, Ready
      <4>2. judged[selected] \in Texts \cup {None}
          BY <4>1 DEF TypeOK
      <4> QED
          BY <1>1, <3>2, <4>2 DEF DetailRead, TypeOK, Details
    <3> QED
        BY <3>1, <3>2
  <2> QED
      BY <1>1, <2>1 DEF DetailRead, TypeOK
<1>2. CASE DetailAnswered
  <2>1. CASE detail.kind = "segments"
      BY <1>2, <2>1 DEF DetailAnswered, TypeOK, Details
  <2>2. CASE detail.kind # "segments"
    <3>1. selected \in Segments
        BY <1>2, <2>2 DEF DetailAnswered, TypeOK, Ready
    <3>2. report' \in [segment : Segments, text : Texts] \cup {None}
        BY <1>2, <2>2, <3>1 DEF DetailAnswered, TypeOK, Details
    <3> QED
        BY <1>2, <2>2, <3>2 DEF DetailAnswered, TypeOK
  <2> QED
      BY <2>1, <2>2
<1>3. CASE DetailFails
    BY <1>3 DEF DetailFails, TypeOK
<1>4. ASSUME NEW text \in Texts, ChangeDraft(text) PROVE TypeOK'
    BY <1>4 DEF ChangeDraft, TypeOK
<1>5. CASE SaveTranslation
  <2>1. token' \in 0..MaxToken /\ token' \in 1..MaxToken
      BY <1>5 DEF SaveTranslation, TypeOK
  <2>2. selected \in Segments /\ draft \in Texts
      BY <1>5 DEF SaveTranslation, CanSave, TypeOK, Ready
  <2>3. saves' \in SUBSET Saves
    <3>1. [id |-> token', segment |-> selected, text |-> draft, aborted |-> FALSE,
           client |-> "waiting", done |-> FALSE] \in Saves
        BY <2>1, <2>2 DEF Saves
    <3> QED
        BY <1>5, <3>1 DEF SaveTranslation, TypeOK
  <2> QED
      BY <1>5, <2>1, <2>3 DEF SaveTranslation, TypeOK
<1> QED
    BY <1>1, <1>2, <1>3, <1>4, <1>5

LEMMA WriteType ==
    ASSUME TypeOK, NEW s \in Segments, NEW text \in Texts, Write(s, text)
    PROVE  /\ stored' \in [Segments -> Texts] /\ written' \in [Segments -> SUBSET Texts]
           /\ stored'[s] = text /\ written'[s] = written[s] \cup {text}
           /\ \A t \in Segments \ {s} : stored'[t] = stored[t] /\ written'[t] = written[t]
BY DEF Write, TypeOK

LEMMA SavesType ==
    ASSUME Inv, NEW q \in saves, SaveStored(q) \/ SaveAnswered(q) \/ SaveGivenUp(q)
    PROVE  TypeOK'
<1> USE DEF Inv
<1>1. q \in Saves /\ saves \in SUBSET Saves
    BY DEF TypeOK
<1>2. CASE SaveStored(q)
  <2>1. saves' \in SUBSET Saves
    <3>1. [q EXCEPT !.done = TRUE] \in Saves
        BY <1>1, SaveUpdates
    <3> QED
        BY <1>1, <1>2, <3>1 DEF SaveStored
  <2>2. stored' \in [Segments -> Texts] /\ written' \in [Segments -> SUBSET Texts]
      BY <1>1, <1>2, SaveFields, WriteType DEF SaveStored
  <2> QED
      BY <1>2, <2>1, <2>2 DEF SaveStored, TypeOK
<1>3. CASE SaveAnswered(q)
  <2>1. saves' \in SUBSET Saves /\ saveBusy' \in BOOLEAN
      BY <1>1, <1>3 DEF SaveAnswered, Freed, TypeOK
  <2>2. /\ list' \in [Segments -> Texts] \cup {None} /\ shown' \in Texts \cup {None}
        /\ draft' \in Texts \cup {None} /\ dirty' \in BOOLEAN
        /\ report' \in [segment : Segments, text : Texts] \cup {None}
    <3>1. q.segment \in Segments /\ q.text \in Texts
        BY <1>1, SaveFields
    <3>2. Listed(q.segment, q.text) \in [Segments -> Texts] \cup {None}
        BY <3>1, ListedType DEF TypeOK
    <3> QED
        BY <1>3, <3>1, <3>2 DEF SaveAnswered, TakeAnswer, TypeOK
  <2> QED
      BY <1>3, <2>1, <2>2 DEF SaveAnswered, TypeOK
<1>4. CASE SaveGivenUp(q)
  <2>1. saves' \in SUBSET Saves /\ saveBusy' \in BOOLEAN /\ lost' \in SUBSET Segments
    <3>1. [q EXCEPT !.client = "gone"] \in Saves /\ q.segment \in Segments
        BY <1>1, SaveUpdates, SaveFields
    <3> QED
        BY <1>1, <1>4, <3>1 DEF SaveGivenUp, Freed, TypeOK
  <2> QED
      BY <1>4, <2>1 DEF SaveGivenUp, TypeOK
<1> QED
    BY <1>2, <1>3, <1>4

LEMMA JobsType ==
    ASSUME Inv,
           \/ CreateJob \/ JobCreated \/ JobSeen \/ PollEnds \/ RefreshRead \/ Refreshed
           \/ \E s \in Segments, text \in Texts : JobEnds(s, text)
    PROVE  TypeOK'
<1> USE DEF Inv
<1>1. CASE CreateJob
    BY <1>1 DEF CreateJob, TypeOK
<1>2. CASE JobCreated
  <2>1. [segment |-> posting, ended |-> FALSE, poll |-> FALSE, fetched |-> None] \in Jobs
      BY <1>2 DEF JobCreated, TypeOK, Jobs
  <2>2. job' \in Jobs \cup {None}
      BY <1>2, <2>1, WatchedType DEF JobCreated
  <2> QED
      BY <1>2, <2>2 DEF JobCreated, TypeOK
<1>3. CASE JobSeen
  <2>1. job' \in Jobs
      BY <1>3 DEF JobSeen, TypeOK, Jobs
  <2> QED
      BY <1>3, <2>1 DEF JobSeen, TypeOK
<1>4. CASE PollEnds
  <2>1. job' \in Jobs
      BY <1>4 DEF PollEnds, TypeOK, Jobs
  <2> QED
      BY <1>4, <2>1 DEF PollEnds, TypeOK
<1>5. CASE RefreshRead
  <2>1. job' \in Jobs
    <3>1. job \in Jobs /\ job.segment \in Segments
        BY <1>5 DEF RefreshRead, TypeOK, Jobs
    <3>2. stored[job.segment] \in Texts /\ judged[job.segment] \in Texts \cup {None}
        BY <3>1 DEF TypeOK
    <3> QED
        BY <1>5, <3>1, <3>2 DEF RefreshRead, Jobs
  <2> QED
      BY <1>5, <2>1 DEF RefreshRead, TypeOK
<1>6. CASE Refreshed
  <2>1. /\ job \in Jobs /\ job.segment \in Segments /\ job.fetched.text \in Texts
        /\ job.fetched.judged \in Texts \cup {None}
      BY <1>6 DEF Refreshed, TypeOK, Jobs
  <2>2. job' \in Jobs
      BY <1>6, <2>1 DEF Refreshed, Jobs
  <2>3. list' \in [Segments -> Texts] \cup {None}
      BY <1>6, <2>1, ListedType DEF Refreshed, TypeOK
  <2>4. report' \in [segment : Segments, text : Texts] \cup {None}
      BY <1>6, <2>1 DEF Refreshed
  <2> QED
      BY <1>6, <2>1, <2>2, <2>3, <2>4 DEF Refreshed, TypeOK
<1>7. ASSUME NEW s \in Segments, NEW text \in Texts, JobEnds(s, text) PROVE TypeOK'
    BY <1>7, WriteType DEF JobEnds, TypeOK
<1> QED
    BY <1>1, <1>2, <1>3, <1>4, <1>5, <1>6, <1>7

LEMMA ChecksType ==
    ASSUME Inv, RunQualityCheck \/ CheckExecuted \/ CheckAnswered
    PROVE  TypeOK'
<1> USE DEF Inv
<1>1. CASE RunQualityCheck
    BY <1>1 DEF RunQualityCheck, TypeOK
<1>2. CASE CheckExecuted
  <2>1. check.segment \in Segments /\ stored[check.segment] \in Texts
      BY <1>2 DEF CheckExecuted, TypeOK
  <2> QED
      BY <1>2, <2>1 DEF CheckExecuted, TypeOK
<1>3. CASE CheckAnswered
    BY <1>3 DEF CheckAnswered, Shows, TypeOK
<1> QED
    BY <1>1, <1>2, <1>3

--------------------------------------------------------------------------------
(* Saves *)

\* A navigation aborts every save and frees the button.
LEMMA InvalidateKeeps ==
    ASSUME Inv, InvalidateSaveRequest
    PROVE  SaveInv'
<1> USE DEF Inv
<1>1. saves \in SUBSET Saves /\ token \in Nat /\ token' = token + 1
    BY DEF TypeOK, InvalidateSaveRequest
<1>2. \A q \in saves' : \E p \in saves : q = [p EXCEPT !.aborted = TRUE] /\ p \in Saves
    BY <1>1 DEF InvalidateSaveRequest
<1>3. \A q \in saves' : q.aborted /\ \E p \in saves : q = [p EXCEPT !.aborted = TRUE] /\ q.id = p.id
  <2> SUFFICES ASSUME NEW q \in saves'
               PROVE  q.aborted /\ \E p \in saves : q = [p EXCEPT !.aborted = TRUE] /\ q.id = p.id
      OBVIOUS
  <2>1. PICK p \in saves : q = [p EXCEPT !.aborted = TRUE] /\ p \in Saves
      BY <1>2
  <2>2. [p EXCEPT !.aborted = TRUE].aborted /\ [p EXCEPT !.aborted = TRUE].id = p.id
      BY <2>1, SaveUpdates
  <2> QED
      BY <2>1, <2>2
<1>4. \A q \in saves' : q.id <= token /\ q.id \in Nat /\ q.aborted
  <2> SUFFICES ASSUME NEW q \in saves' PROVE q.id <= token /\ q.id \in Nat /\ q.aborted
      OBVIOUS
  <2>1. PICK p \in saves : q.id = p.id
      BY <1>3
  <2>2. p.id \in Nat
      BY <1>1, SaveFields
  <2> QED
      BY <1>3, <2>1, <2>2 DEF SaveInv
<1>5. \A p, q \in saves' : p.id = q.id => p = q
  <2> SUFFICES ASSUME NEW p \in saves', NEW q \in saves', p.id = q.id PROVE p = q
      OBVIOUS
  <2>1. PICK o \in saves : p = [o EXCEPT !.aborted = TRUE] /\ p.id = o.id
      BY <1>3
  <2>2. PICK r \in saves : q = [r EXCEPT !.aborted = TRUE] /\ q.id = r.id
      BY <1>3
  <2>3. o = r
      BY <2>1, <2>2 DEF SaveInv
  <2> QED
      BY <2>1, <2>2, <2>3
<1>6. Live' = {} /\ saveBusy' = FALSE
    BY <1>4 DEF Live, InvalidateSaveRequest
<1> QED
    BY <1>1, <1>4, <1>5, <1>6 DEF SaveInv

\* A save that is executed, answered or given up leaves the others alone.
LEMMA OneSaveMoves ==
    ASSUME Inv, NEW q \in saves, NEW r \in Saves,
           r.id = q.id, r.segment = q.segment, r.aborted = q.aborted,
           UNCHANGED <<token, selected>>,
           \/ saves' = (saves \ {q}) \cup {r} /\ r.client = q.client /\ UNCHANGED saveBusy
           \/ saves' = saves \ {q} /\ q.client = "gone" /\ UNCHANGED saveBusy
           \/ saves' = saves \ {q} /\ q.client = "waiting" /\ Freed(q)
           \/ saves' = (saves \ {q}) \cup {r} /\ q.client = "waiting" /\ r.client = "gone" /\ Freed(q)
    PROVE  SaveInv'
<1> USE DEF Inv
<1>1. saves \in SUBSET Saves /\ token \in Nat /\ saveBusy \in BOOLEAN
    BY DEF TypeOK
<1>2. \A p \in saves : p.id \in Nat
    BY <1>1, SaveFields
<1>3. \A p \in saves' : p \in saves \ {q} \/ p = r
    OBVIOUS
<1>4. \A p \in saves' : p.id <= token' /\ (p.aborted => p.id < token')
    BY <1>1, <1>2, <1>3 DEF SaveInv
<1>5. \A p \in saves \ {q} : p.id # r.id
    BY DEF SaveInv
<1>6. \A p, o \in saves' : p.id = o.id => p = o
    BY <1>3, <1>5 DEF SaveInv
<1>7. \A p \in Live' : p.id = token' /\ p.segment = selected'
  <2> SUFFICES ASSUME NEW p \in Live' PROVE p.id = token /\ p.segment = selected
      OBVIOUS
  <2>1. p \in saves' /\ p.client = "waiting" /\ ~p.aborted
      BY DEF Live
  <2>2. CASE p \in saves \ {q}
      BY <2>1, <2>2 DEF Live, SaveInv
  <2>3. CASE p = r
    <3>1. q \in Live
        BY <2>1, <2>3, <1>5 DEF Live
    <3> QED
        BY <2>3, <3>1 DEF SaveInv
  <2> QED
      BY <1>3, <2>1, <2>2, <2>3
<1>8. saveBusy' <=> Live' # {}
  <2>1. CASE saves' = (saves \ {q}) \cup {r} /\ r.client = q.client /\ UNCHANGED saveBusy
    <3>1. q \in Live <=> r \in Live'
        BY <2>1 DEF Live
    <3>2. \A p \in saves \ {q} : p \in Live <=> p \in Live'
        BY <2>1 DEF Live
    <3>3. Live # {} <=> Live' # {}
        BY <2>1, <3>1, <3>2 DEF Live
    <3> QED
        BY <2>1, <3>3 DEF SaveInv
  <2>2. CASE saves' = saves \ {q} /\ q.client = "gone" /\ UNCHANGED saveBusy
    <3>1. Live' = Live
        BY <2>2 DEF Live
    <3> QED
        BY <2>2, <3>1 DEF SaveInv
  <2>3. CASE /\ saves' = saves \ {q} \/ (saves' = (saves \ {q}) \cup {r} /\ r.client = "gone")
             /\ q.client = "waiting" /\ Freed(q)
    <3>1. Live' = Live \ {q}
        BY <2>3, <1>3 DEF Live
    <3>2. CASE q \in Live
      <4>1. token = q.id /\ selected = q.segment
          BY <3>2 DEF SaveInv
      <4>2. \A p \in Live : p = q
        <5>1. \A p \in Live : p \in saves /\ p.id = q.id
            BY <4>1 DEF SaveInv, Live
        <5> QED
            BY <5>1 DEF SaveInv
      <4> QED
          BY <2>3, <3>1, <4>1, <4>2 DEF Freed
    <3>3. CASE q \notin Live
      <4>1. q.aborted /\ q.id < token
          BY <2>3, <3>3 DEF Live, SaveInv
      <4>2. token # q.id
          BY <1>1, <1>2, <4>1
      <4> QED
          BY <1>1, <2>3, <3>1, <3>3, <4>2 DEF Freed, SaveInv
    <3> QED
        BY <3>2, <3>3
  <2> QED
      BY <2>1, <2>2, <2>3
<1> QED
    BY <1>4, <1>6, <1>7, <1>8 DEF SaveInv

\* Every move of a save is one of these.
LEMMA SaveMoves ==
    ASSUME Inv, NEW q \in saves, SaveStored(q) \/ SaveAnswered(q) \/ SaveGivenUp(q)
    PROVE  SaveInv'
<1> USE DEF Inv
<1>1. q \in Saves
    BY DEF TypeOK
<1>2. CASE SaveStored(q)
  <2>1. CASE q.client = "waiting"
    <3> DEFINE r == [q EXCEPT !.done = TRUE]
    <3>1. /\ r \in Saves /\ r.id = q.id /\ r.segment = q.segment /\ r.aborted = q.aborted
          /\ r.client = q.client
        BY <1>1, SaveUpdates
    <3>2. saves' = (saves \ {q}) \cup {r} /\ UNCHANGED <<token, selected, saveBusy>>
        BY <1>2, <2>1 DEF SaveStored
    <3> QED
        BY <3>1, <3>2, OneSaveMoves
  <2>2. CASE q.client = "gone"
    <3>1. saves' = saves \ {q} /\ UNCHANGED <<token, selected, saveBusy>>
        BY <1>2, <2>2 DEF SaveStored
    <3> QED
        BY <1>1, <2>2, <3>1, OneSaveMoves
  <2> QED
      BY <1>1, <2>1, <2>2, SaveFields
<1>3. CASE SaveAnswered(q)
  <2>1. saves' = saves \ {q} /\ Freed(q) /\ q.client = "waiting" /\ UNCHANGED <<token, selected>>
      BY <1>3 DEF SaveAnswered
  <2> QED
      BY <1>1, <2>1, OneSaveMoves
<1>4. CASE SaveGivenUp(q)
  <2> DEFINE r == [q EXCEPT !.client = "gone"]
  <2>1. /\ r \in Saves /\ r.id = q.id /\ r.segment = q.segment /\ r.aborted = q.aborted
        /\ r.client = "gone"
      BY <1>1, SaveUpdates
  <2>2. /\ saves' = saves \ {q} \/ saves' = (saves \ {q}) \cup {r}
        /\ Freed(q) /\ q.client = "waiting" /\ UNCHANGED <<token, selected>>
      BY <1>4 DEF SaveGivenUp
  <2> QED
      BY <2>1, <2>2, OneSaveMoves
<1> QED
    BY <1>2, <1>3, <1>4

\* A new save is the only live one: the button was free.
LEMMA SaveSent ==
    ASSUME Inv, SaveTranslation
    PROVE  SaveInv'
<1> USE DEF Inv
<1> DEFINE r == [id |-> token', segment |-> selected, text |-> draft, aborted |-> FALSE,
                 client |-> "waiting", done |-> FALSE]
<1>1. saves' = saves \cup {r} /\ token' = token + 1 /\ saveBusy' = TRUE /\ selected' = selected
    BY DEF SaveTranslation
<1>2. saves \in SUBSET Saves /\ token \in Nat
    BY DEF TypeOK
<1>3. \A p \in saves : p.id \in Nat /\ p.id <= token
    BY <1>2, SaveFields DEF SaveInv
<1>4. Live = {}
    BY DEF SaveTranslation, CanSave, SaveInv
<1>5. Live' = {r}
    BY <1>1, <1>4 DEF Live
<1>6. \A p \in saves' : p.id <= token' /\ (p.aborted => p.id < token')
    BY <1>1, <1>2, <1>3
<1>7. \A p, o \in saves' : p.id = o.id => p = o
  <2>1. \A p \in saves : p.id # r.id
      BY <1>1, <1>2, <1>3
  <2> QED
      BY <1>1, <2>1 DEF SaveInv
<1> QED
    BY <1>1, <1>5, <1>6, <1>7 DEF SaveInv

\* No other step touches a save.
LEMMA SaveInvStep ==
    ASSUME Inv, [Next]_vars
    PROVE  SaveInv'
<1>1. ASSUME UNCHANGED <<saves, token, saveBusy, selected>> PROVE SaveInv'
  <2>1. Live' = Live
      BY <1>1 DEF Live
  <2> QED
      BY <1>1, <2>1 DEF Inv, SaveInv
<1>2. CASE OpenChapter \/ (\E s \in Segments : OpenSegment(s)) \/ (\E n \in Sections : ChangeSection(n))
    BY <1>2, InvalidateKeeps DEF OpenChapter, OpenSegment, ChangeSection
<1>3. CASE \E q \in saves : SaveStored(q) \/ SaveAnswered(q) \/ SaveGivenUp(q)
    BY <1>3, SaveMoves
<1>4. CASE SaveTranslation
    BY <1>4, SaveSent
<1>5. CASE \/ DetailRead \/ DetailAnswered \/ DetailFails
           \/ (\E text \in Texts : ChangeDraft(text)) \/ ResetDraft
           \/ CreateJob \/ JobCreated \/ JobSeen \/ PollEnds \/ RefreshRead \/ Refreshed
           \/ (\E s \in Segments, text \in Texts : JobEnds(s, text))
           \/ RunQualityCheck \/ CheckExecuted \/ CheckAnswered
           \/ UNCHANGED vars
    BY <1>1, <1>5 DEF DetailRead, DetailAnswered, DetailFails, ChangeDraft, ResetDraft, CreateJob,
       JobCreated, JobSeen, PollEnds, RefreshRead, Refreshed, JobEnds, RunQualityCheck,
       CheckExecuted, CheckAnswered, vars
<1> QED
    BY <1>2, <1>3, <1>4, <1>5 DEF Next

--------------------------------------------------------------------------------
(* What the editor shows *)

\* A request for the list or the report keeps its kind when it is read.
LEMMA DetailReads ==
    ASSUME Inv, DetailRead
    PROVE  /\ detail # None /\ detail'.kind = detail.kind
           /\ detail.kind = "segments" => detail'.rows = stored
           /\ detail.kind # "segments" => detail'.judged = judged[selected] /\ selected \in Segments
<1> USE DEF Inv
<1>1. CASE detail.kind = "segments"
    BY <1>1 DEF DetailRead, TypeOK, Details
<1>2. CASE detail.kind # "segments"
    BY <1>2 DEF DetailRead, TypeOK, Details, Ready
<1> QED
    BY <1>1, <1>2

LEMMA ReadyStep ==
    ASSUME Inv, [Next]_vars
    PROVE  Ready'
<1> USE DEF Inv
<1>1. CASE OpenChapter
    BY <1>1 DEF OpenChapter, Select, Ready
<1>2. ASSUME NEW s \in Segments, OpenSegment(s) PROVE Ready'
  <2>1. list[s] \in Texts /\ s # None
      BY <1>2 DEF OpenSegment, TypeOK
  <2> QED
      BY <1>2, <2>1 DEF OpenSegment, Select, Ready
<1>3. ASSUME NEW n \in Sections, ChangeSection(n) PROVE Ready'
    BY <1>3 DEF ChangeSection, Ready, TypeOK
<1>4. CASE DetailRead
  <2>1. UNCHANGED <<selected, list, shown, draft>>
      BY <1>4 DEF DetailRead
  <2> QED
      BY <1>4, <2>1, DetailReads DEF Ready
<1>5. CASE DetailAnswered \/ DetailFails
    BY <1>5 DEF DetailAnswered, DetailFails, Ready
<1>6. ASSUME NEW text \in Texts, ChangeDraft(text) PROVE Ready'
    BY <1>6 DEF ChangeDraft, Ready
<1>7. CASE ResetDraft
  <2>1. shown \in Texts
      BY <1>7 DEF ResetDraft, ChangeDraft, Ready, TypeOK
  <2> QED
      BY <1>6, <1>7, <2>1 DEF ResetDraft
<1>8. ASSUME NEW q \in saves, SaveAnswered(q) PROVE Ready'
  <2>1. q.segment \in Segments /\ q.text \in Texts
      BY SaveFields DEF TypeOK
  <2>2. CASE Current(q)
    <3>1. selected = q.segment /\ selected # None
        BY <2>1, <2>2 DEF Current
    <3>2. list' # None /\ list'[selected] = q.text /\ shown' = q.text
        BY <1>8, <2>1, <2>2, <3>1, ListedType DEF SaveAnswered, TakeAnswer, Ready, TypeOK
    <3> QED
        BY <1>8, <2>2, <3>2 DEF SaveAnswered, TakeAnswer, Ready
  <2>3. CASE ~Current(q)
      BY <1>8, <2>3 DEF SaveAnswered, Ready
  <2> QED
      BY <2>2, <2>3
<1>9. CASE Refreshed
  <2>1. job.segment \in Segments /\ job.fetched.text \in Texts /\ job.segment = selected
      BY <1>9 DEF Refreshed, TypeOK, Jobs, Had, HadJob
  <2>2. list' # None /\ list'[selected] = job.fetched.text /\ shown' = job.fetched.text
      BY <1>9, <2>1, ListedType DEF Refreshed, Ready, TypeOK
  <2> QED
      BY <1>9, <2>2 DEF Refreshed, Ready
<1>10. CASE \/ SaveTranslation \/ (\E q \in saves : SaveStored(q) \/ SaveGivenUp(q))
            \/ CreateJob \/ JobCreated \/ JobSeen \/ PollEnds \/ RefreshRead
            \/ (\E s \in Segments, text \in Texts : JobEnds(s, text))
            \/ RunQualityCheck \/ CheckExecuted \/ CheckAnswered
            \/ UNCHANGED vars
  <2>1. UNCHANGED <<selected, list, shown, draft, detail>>
      BY <1>10 DEF SaveTranslation, SaveStored, SaveGivenUp, CreateJob, JobCreated, JobSeen, PollEnds,
         RefreshRead, JobEnds, RunQualityCheck, CheckExecuted, CheckAnswered, vars
  <2> QED
      BY <2>1 DEF Ready
<1> QED
    BY <1>1, <1>2, <1>3, <1>4, <1>5, <1>6, <1>7, <1>8, <1>9, <1>10 DEF Next

\* Which steps change what.
LEMMA Frame ==
    ASSUME [Next]_vars
    PROVE  /\ \/ UNCHANGED <<stored, written>>
              \/ (\E q \in saves : SaveStored(q))
              \/ (\E s \in Segments, text \in Texts : JobEnds(s, text))
           /\ UNCHANGED judged \/ CheckExecuted \/ (\E s \in Segments, text \in Texts : JobEnds(s, text))
           /\ \/ UNCHANGED list \/ OpenChapter \/ DetailAnswered \/ Refreshed
              \/ (\E q \in saves : SaveAnswered(q))
           /\ \/ UNCHANGED detail \/ OpenChapter \/ (\E s \in Segments : OpenSegment(s))
              \/ DetailRead \/ DetailAnswered \/ DetailFails
           /\ UNCHANGED selected \/ OpenChapter \/ (\E s \in Segments : OpenSegment(s))
           /\ \/ UNCHANGED report \/ OpenChapter \/ (\E s \in Segments : OpenSegment(s))
              \/ DetailAnswered \/ Refreshed \/ CheckAnswered \/ (\E q \in saves : SaveAnswered(q))
           /\ \/ UNCHANGED saves \/ InvalidateSaveRequest \/ SaveTranslation
              \/ (\E q \in saves : SaveStored(q) \/ SaveAnswered(q) \/ SaveGivenUp(q))
           /\ \/ UNCHANGED job \/ OpenChapter \/ (\E s \in Segments : OpenSegment(s))
              \/ (\E n \in Sections : ChangeSection(n))
              \/ JobCreated \/ JobSeen \/ PollEnds \/ RefreshRead \/ Refreshed
           /\ UNCHANGED check \/ RunQualityCheck \/ CheckExecuted \/ CheckAnswered
           /\ \/ UNCHANGED lost \/ InvalidateSaveRequest
              \/ (\E q \in saves : SaveGivenUp(q))
              \/ (\E s \in Segments, text \in Texts : JobEnds(s, text))
           /\ UNCHANGED jobs \/ CreateJob
           /\ UNCHANGED posting \/ CreateJob \/ JobCreated
BY DEF Next, OpenChapter, OpenSegment, ChangeSection, Select, DetailRead, DetailAnswered, DetailFails,
   ChangeDraft, ResetDraft, SaveTranslation, SaveStored, SaveAnswered, SaveGivenUp, CreateJob,
   JobCreated, JobEnds, JobSeen, PollEnds, RefreshRead, Refreshed, RunQualityCheck, CheckExecuted,
   CheckAnswered, vars

\* What a segment has had it keeps having had; writing a text adds it.
LEMMA WrittenGrows ==
    ASSUME Inv, [Next]_vars, NEW s \in Segments
    PROVE  written[s] \subseteq written'[s]
<1> USE DEF Inv
<1>1. ASSUME NEW q \in saves, SaveStored(q) PROVE written[s] \subseteq written'[s]
    BY <1>1, SaveFields, WriteType DEF SaveStored, TypeOK
<1>2. ASSUME NEW t \in Segments, NEW text \in Texts, JobEnds(t, text)
      PROVE  written[s] \subseteq written'[s]
    BY <1>2, WriteType DEF JobEnds
<1> QED
    BY <1>1, <1>2, Frame

LEMMA HadStoredStep ==
    ASSUME Inv, [Next]_vars
    PROVE  HadStored'
<1> USE DEF Inv
<1>1. ASSUME NEW q \in saves, SaveStored(q) PROVE HadStored'
  <2>1. /\ q.segment \in Segments /\ q.text \in Texts /\ Write(q.segment, q.text)
        /\ UNCHANGED judged
      BY <1>1, SaveFields DEF SaveStored, TypeOK
  <2> QED
      BY <2>1, WriteType DEF Had, HadStored
<1>2. ASSUME NEW s \in Segments, NEW text \in Texts, JobEnds(s, text) PROVE HadStored'
  <2>1. /\ Write(s, text) /\ judged'[s] = text
        /\ \A t \in Segments \ {s} : judged'[t] = judged[t]
      BY <1>2 DEF JobEnds, TypeOK
  <2> QED
      BY <2>1, WriteType DEF Had, HadStored
<1>3. CASE CheckExecuted
  <2>1. check.segment \in Segments
      BY <1>3 DEF CheckExecuted, TypeOK
  <2> QED
      BY <1>3, <2>1 DEF CheckExecuted, Had, HadStored, TypeOK
<1>4. CASE UNCHANGED <<stored, written, judged>>
    BY <1>4 DEF Had, HadStored
<1> QED
    BY <1>1, <1>2, <1>3, <1>4, Frame

LEMMA ListedHad ==
    ASSUME Inv, [Next]_vars, NEW s \in Segments, NEW text \in Texts, text \in written[s],
           list' = Listed(s, text)
    PROVE  HadList'
<1> SUFFICES ASSUME list' # None, NEW t \in Segments PROVE list'[t] \in written'[t]
    BY DEF HadList
<1>1. list \in [Segments -> Texts] \cup {None} /\ HadList
    BY DEF Inv, TypeOK, Had
<1>2. list # None /\ list'[s] = text /\ (t # s => list'[t] = list[t])
    BY <1>1, ListedType
<1>3. list'[t] \in written[t]
    BY <1>1, <1>2 DEF HadList
<1> QED
    BY <1>3, WrittenGrows

LEMMA HadListStep ==
    ASSUME Inv, [Next]_vars
    PROVE  HadList'
<1> USE DEF Inv
<1>1. CASE UNCHANGED list
    BY <1>1, WrittenGrows DEF Had, HadList
<1>2. CASE OpenChapter
    BY <1>2 DEF OpenChapter, HadList
<1>3. CASE DetailAnswered
  <2>1. list' = list \/ (detail # None /\ detail.kind = "segments" /\ detail.rows # None /\ list' = detail.rows)
      BY <1>3 DEF DetailAnswered
  <2> QED
      BY <2>1, WrittenGrows DEF Had, HadList, HadDetail
<1>4. CASE Refreshed
  <2>1. job.segment \in Segments /\ job.fetched.text \in Texts /\ job.segment = selected
        /\ job.fetched.text \in written[selected]
      BY <1>4 DEF Refreshed, TypeOK, Jobs, Had, HadJob
  <2>2. list' = Listed(job.segment, job.fetched.text)
      BY <1>4 DEF Refreshed
  <2> QED
      BY <2>1, <2>2, ListedHad
<1>5. ASSUME NEW q \in saves, SaveAnswered(q) PROVE HadList'
  <2>1. q.segment \in Segments /\ q.text \in Texts
      BY SaveFields DEF TypeOK
  <2>2. q.text \in written[q.segment]
      BY <1>5 DEF SaveAnswered, Had, HadSaves
  <2>3. list' = list \/ list' = Listed(q.segment, q.text)
      BY <1>5 DEF SaveAnswered, TakeAnswer
  <2> QED
      BY <1>1, <2>1, <2>2, <2>3, ListedHad
<1> QED
    BY <1>1, <1>2, <1>3, <1>4, <1>5, Frame

LEMMA HadDetailStep ==
    ASSUME Inv, [Next]_vars
    PROVE  HadDetail'
<1> USE DEF Inv
<1>1. CASE UNCHANGED <<detail, selected>>
  <2>1. detail # None /\ detail.kind # "segments" => selected \in Segments
      BY DEF Ready, TypeOK
  <2> QED
      BY <1>1, <2>1, WrittenGrows DEF Had, HadDetail
<1>2. CASE OpenChapter \/ (\E s \in Segments : OpenSegment(s)) \/ DetailAnswered \/ DetailFails
    BY <1>2 DEF OpenChapter, OpenSegment, DetailAnswered, DetailFails, HadDetail
<1>3. CASE DetailRead
  <2>1. UNCHANGED <<stored, written, judged, selected>>
      BY <1>3 DEF DetailRead
  <2> QED
      BY <1>3, <2>1, DetailReads DEF Had, HadDetail, HadStored
<1> QED
    BY <1>1, <1>2, <1>3, Frame

LEMMA HadReportStep ==
    ASSUME Inv, [Next]_vars
    PROVE  HadReport'
<1> USE DEF Inv
<1>1. CASE UNCHANGED <<report, selected>>
  <2>1. report # None => report.segment \in Segments
      BY DEF TypeOK
  <2> QED
      BY <1>1, <2>1, WrittenGrows DEF Had, HadReport
<1>2. CASE OpenChapter \/ (\E s \in Segments : OpenSegment(s))
    BY <1>2 DEF OpenChapter, OpenSegment, Select, HadReport
<1>3. CASE DetailAnswered
  <2>1. UNCHANGED <<written, selected>>
      BY <1>3 DEF DetailAnswered
  <2>2. \/ UNCHANGED report
        \/ /\ report' = [segment |-> selected, text |-> detail.judged]
           /\ detail # None /\ detail.kind # "segments" /\ detail.judged # None
      BY <1>3 DEF DetailAnswered
  <2> QED
      BY <2>1, <2>2 DEF Had, HadReport, HadDetail
<1>4. CASE Refreshed
  <2>1. UNCHANGED <<written, selected>>
      BY <1>4 DEF Refreshed
  <2>2. report' = None \/ (/\ report' = [segment |-> job.segment, text |-> job.fetched.judged]
                           /\ job # None /\ job.fetched # None /\ job.fetched.judged # None)
      BY <1>4 DEF Refreshed
  <2> QED
      BY <2>1, <2>2 DEF Had, HadReport, HadJob
<1>5. CASE CheckAnswered
  <2>1. UNCHANGED <<written, selected>>
      BY <1>5 DEF CheckAnswered
  <2>2. UNCHANGED report \/ (report' = check /\ check # None /\ check.text # None /\ check.segment = selected)
      BY <1>5 DEF CheckAnswered, Shows
  <2> QED
      BY <2>1, <2>2 DEF Had, HadReport, HadCheck
<1>6. ASSUME NEW q \in saves, SaveAnswered(q) PROVE HadReport'
  <2>1. UNCHANGED <<written, selected>> /\ (report' = report \/ report' = None)
      BY <1>6 DEF SaveAnswered, TakeAnswer
  <2> QED
      BY <2>1 DEF Had, HadReport
<1> QED
    BY <1>1, <1>2, <1>3, <1>4, <1>5, <1>6, Frame

LEMMA HadSavesStep ==
    ASSUME Inv, [Next]_vars
    PROVE  HadSaves'
<1> USE DEF Inv
<1>1. \A q \in saves : q \in Saves /\ q.segment \in Segments
    BY SaveFields DEF TypeOK
<1>2. CASE UNCHANGED saves
    BY <1>1, <1>2, WrittenGrows DEF Had, HadSaves
<1>3. CASE InvalidateSaveRequest
  <2> SUFFICES ASSUME NEW q \in saves', q.done PROVE q.text \in written'[q.segment]
      BY DEF HadSaves
  <2>1. PICK p \in saves : q = [p EXCEPT !.aborted = TRUE]
      BY <1>3 DEF InvalidateSaveRequest
  <2>2. q.done = p.done /\ q.text = p.text /\ q.segment = p.segment
      BY <1>1, <2>1, SaveUpdates
  <2> QED
      BY <1>1, <2>2, WrittenGrows DEF Had, HadSaves
<1>4. CASE SaveTranslation
  <2>1. \A q \in saves' : q \in saves \/ ~q.done
      BY <1>4 DEF SaveTranslation
  <2> QED
      BY <1>1, <2>1, WrittenGrows DEF Had, HadSaves
<1>5. ASSUME NEW q \in saves, SaveStored(q) PROVE HadSaves'
  <2>1. q.text \in Texts /\ q.segment \in Segments /\ Write(q.segment, q.text)
      BY <1>1, <1>5, SaveFields DEF SaveStored
  <2>2. q.text \in written'[q.segment]
      BY <2>1, WriteType
  <2>3. /\ saves' \subseteq saves \cup {[q EXCEPT !.done = TRUE]}
        /\ [q EXCEPT !.done = TRUE].text = q.text
        /\ [q EXCEPT !.done = TRUE].segment = q.segment
    <3>1. saves' \subseteq saves \cup {[q EXCEPT !.done = TRUE]}
        BY <1>5 DEF SaveStored
    <3> QED
        BY <1>1, <3>1, SaveUpdates
  <2> QED
      BY <1>1, <2>2, <2>3, WrittenGrows DEF Had, HadSaves
<1>6. ASSUME NEW q \in saves, SaveAnswered(q) PROVE HadSaves'
  <2>1. saves' \subseteq saves
      BY <1>6 DEF SaveAnswered
  <2> QED
      BY <1>1, <2>1, WrittenGrows DEF Had, HadSaves
<1>7. ASSUME NEW q \in saves, SaveGivenUp(q) PROVE HadSaves'
  <2>1. saves' \subseteq saves \cup (IF q.done THEN {} ELSE {[q EXCEPT !.client = "gone"]})
      BY <1>7 DEF SaveGivenUp
  <2>2. [q EXCEPT !.client = "gone"].done = q.done
      BY <1>1, SaveUpdates
  <2>3. \A p \in saves' : p \in saves \/ ~p.done
      BY <2>1, <2>2
  <2> QED
      BY <1>1, <2>3, WrittenGrows DEF Had, HadSaves
<1> QED
    BY <1>2, <1>3, <1>4, <1>5, <1>6, <1>7, Frame

LEMMA HadJobStep ==
    ASSUME Inv, [Next]_vars
    PROVE  HadJob'
<1> USE DEF Inv
<1>0. job # None => job \in Jobs /\ job.segment \in Segments
    BY DEF TypeOK, Jobs
<1>1. CASE UNCHANGED <<job, selected>>
    BY <1>0, <1>1, WrittenGrows DEF Had, HadJob
<1>2. CASE OpenChapter \/ (\E s \in Segments : OpenSegment(s))
    BY <1>2 DEF OpenChapter, OpenSegment, Select, HadJob
<1>3. ASSUME NEW n \in Sections, ChangeSection(n) PROVE HadJob'
  <2>1. job \in Jobs \cup {None} /\ selected' = selected /\ job' = Watched(job, n, selected)
      BY <1>3 DEF ChangeSection, TypeOK
  <2> QED
      BY <2>1, WatchedType DEF HadJob
<1>4. CASE JobCreated
  <2>1. [segment |-> posting, ended |-> FALSE, poll |-> FALSE, fetched |-> None] \in Jobs
      BY <1>4 DEF JobCreated, TypeOK, Jobs
  <2>2. selected' = selected
      BY <1>4 DEF JobCreated
  <2>3. PICK j \in Jobs \cup {None} : job' = Watched(j, section, selected)
      BY <1>4, <2>1 DEF JobCreated
  <2> QED
      BY <2>2, <2>3, WatchedType DEF HadJob
<1>5. CASE JobSeen \/ PollEnds
  <2>1. /\ UNCHANGED <<selected, written>> /\ job # None
        /\ job'.segment = job.segment
        /\ job'.poll => job.poll
        /\ job'.fetched = job.fetched \/ job'.fetched = None
      BY <1>0, <1>5 DEF JobSeen, PollEnds, Jobs
  <2> QED
      BY <2>1 DEF Had, HadJob
<1>6. CASE RefreshRead
  <2>1. /\ UNCHANGED <<selected, written>> /\ job # None /\ job.poll
        /\ job'.segment = job.segment
        /\ job'.fetched = [text |-> stored[job.segment], judged |-> judged[job.segment]]
      BY <1>0, <1>6 DEF RefreshRead, Jobs
  <2>2. job.segment = selected
      BY <2>1 DEF Had, HadJob
  <2> QED
      BY <1>0, <2>1, <2>2 DEF Had, HadJob, HadStored
<1>7. CASE Refreshed
  <2>1. job # None /\ job.fetched # None /\ job'.poll = FALSE /\ job'.fetched = None
      BY <1>0, <1>7 DEF Refreshed, Jobs
  <2> QED
      BY <2>1 DEF HadJob
<1> QED
    BY <1>1, <1>2, <1>3, <1>4, <1>5, <1>6, <1>7, Frame

LEMMA HadCheckStep ==
    ASSUME Inv, [Next]_vars
    PROVE  HadCheck'
<1> USE DEF Inv
<1>0. check # None => check.segment \in Segments
    BY DEF TypeOK
<1>1. CASE UNCHANGED check
    BY <1>0, <1>1, WrittenGrows DEF Had, HadCheck
<1>2. CASE RunQualityCheck \/ CheckAnswered
    BY <1>2 DEF RunQualityCheck, CheckAnswered, HadCheck
<1>3. CASE CheckExecuted
  <2>1. check # None /\ check'.segment = check.segment /\ check'.text = stored[check.segment]
        /\ UNCHANGED written
      BY <1>3 DEF CheckExecuted, TypeOK
  <2> QED
      BY <1>0, <2>1 DEF Had, HadCheck, HadStored
<1> QED
    BY <1>1, <1>2, <1>3, Frame

--------------------------------------------------------------------------------
(* What is stored *)

\* A save of a segment nothing has changed behind the page's back is the live one.
LEMMA FreshIsLive ==
    ASSUME Inv, NEW q \in saves, q.segment \notin lost
    PROVE  /\ q \in Live /\ q.client = "waiting" /\ ~q.aborted
           /\ q.id = token /\ q.segment = selected
           /\ \A p \in saves : p.segment \notin lost => p = q
BY DEF Inv, Fresh, SaveInv, Live

\* The list and the requested rows follow what is stored.
FreshSaves ==
    \A q \in saves : q.segment \notin lost =>
        q \in Live /\ (q.done => stored[q.segment] = q.text)
FreshList ==
    list # None => \A s \in Segments \ lost :
        (\A q \in saves : q.segment = s => ~q.done) => list[s] = stored[s]
FreshDetail ==
    detail # None => (detail.kind = "segments" /\ detail.rows # None =>
        \A s \in Segments \ lost : detail.rows[s] = stored[s])

\* Steps that neither write nor move a save.
LEMMA FreshUnchanged ==
    ASSUME Inv, UNCHANGED <<stored, saves, lost>>
    PROVE  /\ FreshSaves'
           /\ UNCHANGED list => FreshList'
           /\ UNCHANGED detail => FreshDetail'
<1>1. Live' = Live
    BY DEF Live
<1> QED
    BY <1>1 DEF Inv, Fresh, FreshSaves, FreshList, FreshDetail

\* After a navigation every save belongs to a segment that may change unseen.
LEMMA InvalidateFresh ==
    ASSUME Inv, InvalidateSaveRequest, stored' = stored
    PROVE  /\ FreshSaves'
           /\ UNCHANGED list => FreshList'
           /\ UNCHANGED detail => FreshDetail'
<1> USE DEF Inv
<1>1. \A q \in saves : q.segment \in lost'
  <2> SUFFICES ASSUME NEW q \in saves, q.segment \notin lost PROVE q.segment \in lost'
      BY DEF InvalidateSaveRequest
  <2> QED
      BY FreshIsLive DEF InvalidateSaveRequest
<1>2. \A q \in saves' : q.segment \in lost'
  <2> SUFFICES ASSUME NEW q \in saves' PROVE q.segment \in lost'
      OBVIOUS
  <2>1. PICK p \in saves : q = [p EXCEPT !.aborted = TRUE]
      BY DEF InvalidateSaveRequest
  <2>2. q.segment = p.segment
      BY <2>1, SaveUpdates DEF TypeOK
  <2> QED
      BY <1>1, <2>2
<1>3. lost \subseteq lost'
    BY DEF InvalidateSaveRequest
<1>4. \A s \in Segments \ lost' : \A q \in saves : q.segment # s
    BY <1>1
<1>5. UNCHANGED list => FreshList'
    BY <1>3, <1>4 DEF Fresh, FreshList
<1>6. UNCHANGED detail => FreshDetail'
    BY <1>3 DEF Fresh, FreshDetail
<1> QED
    BY <1>2, <1>5, <1>6 DEF FreshSaves

LEMMA FreshStored ==
    ASSUME Inv, NEW q \in saves, SaveStored(q)
    PROVE  FreshSaves' /\ FreshList' /\ FreshDetail'
<1> USE DEF Inv
<1> DEFINE r == [q EXCEPT !.done = TRUE]
<1>1. /\ q \in Saves /\ q.segment \in Segments /\ q.text \in Texts
      /\ r.done /\ r.segment = q.segment /\ r.text = q.text
      /\ r.client = q.client /\ r.aborted = q.aborted
    BY SaveFields, SaveUpdates DEF TypeOK
<1>2. UNCHANGED <<list, detail, selected, lost>> /\ Write(q.segment, q.text)
    BY DEF SaveStored
<1>3. /\ stored'[q.segment] = q.text
      /\ \A s \in Segments \ {q.segment} : stored'[s] = stored[s]
    BY <1>1, <1>2, WriteType
<1>4. saves' \subseteq (saves \ {q}) \cup {r} /\ saves \ {q} \subseteq saves'
      /\ (q.client = "waiting" => r \in saves')
    BY DEF SaveStored
<1>5. CASE q.segment \notin lost
  <2>1. /\ q.client = "waiting" /\ ~q.aborted /\ q.segment = selected
        /\ \A p \in saves : p.segment \notin lost => p = q
      BY <1>5, FreshIsLive
  <2>2. FreshSaves'
      BY <1>1, <1>2, <1>3, <1>4, <2>1 DEF FreshSaves, Live
  <2>3. FreshList'
    <3> SUFFICES ASSUME list # None, NEW s \in Segments \ lost, \A p \in saves' : p.segment = s => ~p.done
                 PROVE  list[s] = stored'[s]
        BY <1>2 DEF FreshList
    <3>1. s # q.segment
        BY <1>1, <1>4, <2>1
    <3>2. \A p \in saves : p.segment = s => ~p.done
        BY <3>1, <2>1
    <3> QED
        BY <1>3, <3>1, <3>2 DEF Fresh
  <2>4. FreshDetail'
    <3>1. selected # None
        BY <1>1, <2>1
    <3> QED
        BY <1>2, <3>1 DEF FreshDetail, Ready
  <2> QED
      BY <2>2, <2>3, <2>4
<1>6. CASE q.segment \in lost
  <2>1. FreshSaves'
    <3> SUFFICES ASSUME NEW p \in saves', p.segment \notin lost
                 PROVE  p \in Live' /\ (p.done => stored'[p.segment] = p.text)
        BY <1>2 DEF FreshSaves
    <3>1. p \in saves /\ p # q /\ p.segment # q.segment /\ p.segment \in Segments
        BY <1>1, <1>4, <1>6, SaveFields DEF TypeOK
    <3>2. p \in Live /\ (p.done => stored[p.segment] = p.text)
        BY <3>1 DEF Fresh
    <3> QED
        BY <1>3, <3>1, <3>2 DEF Live
  <2>2. FreshList'
    <3> SUFFICES ASSUME list # None, NEW s \in Segments \ lost, \A p \in saves' : p.segment = s => ~p.done
                 PROVE  list[s] = stored'[s]
        BY <1>2 DEF FreshList
    <3>1. \A p \in saves : p.segment = s => ~p.done
        BY <1>4, <1>6
    <3> QED
        BY <1>3, <1>6, <3>1 DEF Fresh
  <2>3. FreshDetail'
      BY <1>2, <1>3, <1>6 DEF Fresh, FreshDetail
  <2> QED
      BY <2>1, <2>2, <2>3
<1> QED
    BY <1>5, <1>6

LEMMA FreshAnswered ==
    ASSUME Inv, NEW q \in saves, SaveAnswered(q)
    PROVE  FreshSaves' /\ FreshList' /\ FreshDetail'
<1> USE DEF Inv
<1>1. q.segment \in Segments /\ q.text \in Texts
    BY SaveFields DEF TypeOK
<1>2. UNCHANGED <<stored, detail, selected, lost>> /\ saves' = saves \ {q} /\ q.done
    BY DEF SaveAnswered
<1>3. FreshSaves'
    BY <1>2 DEF Fresh, FreshSaves, Live
<1>4. FreshDetail'
    BY <1>2 DEF Fresh, FreshDetail
<1>5. FreshList'
  <2> SUFFICES ASSUME list' # None, NEW s \in Segments \ lost, \A p \in saves' : p.segment = s => ~p.done
               PROVE  list'[s] = stored[s]
      BY <1>2 DEF FreshList
  <2>1. CASE s = q.segment
    <3>1. q \in Live /\ q.id = token /\ q.segment = selected /\ ~q.aborted
        BY <2>1, FreshIsLive
    <3>2. list' = Listed(q.segment, q.text)
        BY <3>1 DEF SaveAnswered, Current, TakeAnswer
    <3>3. list # None /\ list'[s] = q.text
        BY <1>1, <2>1, <3>2, ListedType DEF TypeOK
    <3>4. stored[s] = q.text
        BY <1>2, <2>1 DEF Fresh
    <3> QED
        BY <3>3, <3>4
  <2>2. CASE s # q.segment
    <3>1. list' = list \/ list' = Listed(q.segment, q.text)
        BY DEF SaveAnswered, TakeAnswer
    <3>2. list # None /\ list'[s] = list[s]
        BY <1>1, <2>2, <3>1, ListedType DEF TypeOK
    <3>3. \A p \in saves : p.segment = s => ~p.done
        BY <1>2, <2>2
    <3> QED
        BY <3>2, <3>3 DEF Fresh
  <2> QED
      BY <2>1, <2>2
<1> QED
    BY <1>3, <1>4, <1>5

LEMMA FreshGivenUp ==
    ASSUME Inv, NEW q \in saves, SaveGivenUp(q)
    PROVE  FreshSaves' /\ FreshList' /\ FreshDetail'
<1> USE DEF Inv
<1> DEFINE r == [q EXCEPT !.client = "gone"]
<1>1. q.segment \in Segments /\ r.segment = q.segment
    BY SaveFields, SaveUpdates DEF TypeOK
<1>2. /\ UNCHANGED <<stored, list, detail>> /\ lost' = lost \cup {q.segment}
      /\ saves' \subseteq (saves \ {q}) \cup {r} /\ saves \ {q} \subseteq saves'
    BY DEF SaveGivenUp
<1>3. \A p \in saves' : p.segment \notin lost' => p \in saves
    BY <1>1, <1>2
<1>4. FreshSaves'
    BY <1>2, <1>3 DEF Fresh, FreshSaves, Live
<1>5. FreshList'
    BY <1>2 DEF Fresh, FreshList
<1>6. FreshDetail'
    BY <1>2 DEF Fresh, FreshDetail
<1> QED
    BY <1>4, <1>5, <1>6

LEMMA FreshJobEnds ==
    ASSUME Inv, NEW s \in Segments, NEW text \in Texts, JobEnds(s, text)
    PROVE  FreshSaves' /\ FreshList' /\ FreshDetail'
<1> USE DEF Inv
<1>1. UNCHANGED <<saves, list, detail>> /\ lost' = lost \cup {s} /\ Write(s, text)
    BY DEF JobEnds
<1>2. \A t \in Segments \ {s} : stored'[t] = stored[t]
    BY <1>1, WriteType
<1>3. \A q \in saves : q.segment \in Segments
    BY SaveFields DEF TypeOK
<1>4. Live' = Live
    BY <1>1 DEF Live
<1> QED
    BY <1>1, <1>2, <1>3, <1>4 DEF Fresh, FreshSaves, FreshList, FreshDetail

LEMMA FreshStep ==
    ASSUME Inv, [Next]_vars
    PROVE  Fresh'
<1> USE DEF Inv
<1> SUFFICES FreshSaves' /\ FreshList' /\ FreshDetail'
    BY DEF Fresh, FreshSaves, FreshList, FreshDetail
<1>1. CASE OpenChapter
  <2>1. list' = None /\ detail'.rows = None /\ InvalidateSaveRequest /\ stored' = stored
      BY <1>1 DEF OpenChapter
  <2> QED
      BY <2>1, InvalidateFresh DEF FreshList, FreshDetail
<1>2. CASE \E s \in Segments : OpenSegment(s)
  <2>1. list' = list /\ detail'.kind = "report" /\ InvalidateSaveRequest /\ stored' = stored
      BY <1>2 DEF OpenSegment
  <2> QED
      BY <2>1, InvalidateFresh DEF FreshDetail
<1>3. CASE \E n \in Sections : ChangeSection(n)
    BY <1>3, InvalidateFresh DEF ChangeSection
<1>4. CASE DetailRead
  <2>1. UNCHANGED <<stored, saves, lost, list>>
      BY <1>4 DEF DetailRead
  <2> QED
      BY <1>4, <2>1, FreshUnchanged, DetailReads DEF FreshDetail
<1>5. CASE DetailAnswered
  <2>1. UNCHANGED <<stored, saves, lost>> /\ detail' = None
      BY <1>5 DEF DetailAnswered
  <2>2. UNCHANGED list \/ (detail # None /\ detail.kind = "segments" /\ detail.rows # None /\ list' = detail.rows)
      BY <1>5 DEF DetailAnswered
  <2> QED
      BY <2>1, <2>2, FreshUnchanged DEF FreshList, FreshDetail, Fresh
<1>6. CASE DetailFails
  <2>1. UNCHANGED <<stored, saves, lost, list>> /\ detail' = None
      BY <1>6 DEF DetailFails
  <2> QED
      BY <2>1, FreshUnchanged DEF FreshDetail
<1>7. CASE SaveTranslation
  <2> DEFINE r == [id |-> token', segment |-> selected, text |-> draft, aborted |-> FALSE,
                   client |-> "waiting", done |-> FALSE]
  <2>1. UNCHANGED <<stored, lost, list, detail>> /\ saves' = saves \cup {r}
      BY <1>7 DEF SaveTranslation
  <2> QED
      BY <2>1 DEF Fresh, FreshSaves, FreshList, FreshDetail, Live
<1>8. CASE Refreshed
  <2>1. UNCHANGED <<stored, saves, lost, detail>>
      BY <1>8 DEF Refreshed
  <2>2. /\ job.segment \in Segments /\ job.fetched.text \in Texts
        /\ job.segment \in lost /\ list' = Listed(job.segment, job.fetched.text)
      BY <1>8 DEF Refreshed, TypeOK, Jobs, JobRuns
  <2>3. \A s \in Segments \ lost : list' # None => list # None /\ list'[s] = list[s]
    <3> SUFFICES ASSUME NEW s \in Segments \ lost, list' # None
                 PROVE  list # None /\ list'[s] = list[s]
        OBVIOUS
    <3>1. s # job.segment /\ list \in [Segments -> Texts] \cup {None}
        BY <2>2 DEF TypeOK
    <3> DEFINE l == Listed(job.segment, job.fetched.text)
    <3>2. (list = None <=> l = None) /\ (list # None => l[s] = list[s])
        BY <2>2, <3>1, ListedType
    <3> QED
        BY <2>2, <3>2
  <2>4. FreshList'
      BY <2>1, <2>3 DEF Fresh, FreshList
  <2> QED
      BY <2>1, <2>4, FreshUnchanged
<1>9. CASE \/ (\E text \in Texts : ChangeDraft(text)) \/ ResetDraft
           \/ CreateJob \/ JobCreated \/ JobSeen \/ PollEnds \/ RefreshRead
           \/ RunQualityCheck \/ CheckExecuted \/ CheckAnswered \/ UNCHANGED vars
  <2>1. UNCHANGED <<stored, saves, lost, list, detail>>
      BY <1>9 DEF ChangeDraft, ResetDraft, CreateJob, JobCreated, JobSeen, PollEnds, RefreshRead,
         RunQualityCheck, CheckExecuted, CheckAnswered, vars
  <2> QED
      BY <2>1, FreshUnchanged
<1>10. CASE \/ (\E q \in saves : SaveStored(q) \/ SaveAnswered(q) \/ SaveGivenUp(q))
            \/ (\E s \in Segments, text \in Texts : JobEnds(s, text))
    BY <1>10, FreshStored, FreshAnswered, FreshGivenUp, FreshJobEnds
<1> QED
    BY <1>1, <1>2, <1>3, <1>4, <1>5, <1>6, <1>7, <1>8, <1>9, <1>10 DEF Next

LEMMA JobRunsStep ==
    ASSUME Inv, [Next]_vars
    PROVE  JobRuns'
<1> USE DEF Inv
<1>0. job # None => job \in Jobs
    BY DEF TypeOK
<1>1. lost \subseteq lost' /\ running \cup lost \subseteq running' \cup lost'
    BY DEF Next, OpenChapter, OpenSegment, ChangeSection, InvalidateSaveRequest, DetailRead,
       DetailAnswered, DetailFails, ChangeDraft, ResetDraft, SaveTranslation, SaveStored,
       SaveAnswered, SaveGivenUp, CreateJob, JobCreated, JobEnds, JobSeen, PollEnds, RefreshRead,
       Refreshed, RunQualityCheck, CheckExecuted, CheckAnswered, vars
<1>2. CASE UNCHANGED <<posting, job>>
    BY <1>1, <1>2 DEF JobRuns
<1>3. CASE OpenChapter \/ \E s \in Segments : OpenSegment(s)
    BY <1>1, <1>3 DEF OpenChapter, OpenSegment, Select, JobRuns
<1>4. ASSUME NEW n \in Sections, ChangeSection(n) PROVE JobRuns'
  <2>1. posting' = posting /\ job' = Watched(job, n, selected) /\ job \in Jobs \cup {None}
      BY <1>4 DEF ChangeSection, TypeOK
  <2> QED
      BY <1>1, <2>1, WatchedType DEF JobRuns
<1>5. CASE CreateJob
    BY <1>1, <1>5 DEF CreateJob, JobRuns
<1>6. CASE JobCreated
  <2> DEFINE j == [segment |-> posting, ended |-> FALSE, poll |-> FALSE, fetched |-> None]
  <2>1. j \in Jobs /\ posting \in running \cup lost /\ posting' = None
      BY <1>6 DEF JobCreated, TypeOK, Jobs, JobRuns
  <2>2. job' = Watched(j, section, selected) /\ j.segment = posting /\ ~j.ended
      BY <1>6 DEF JobCreated
  <2>3. job' # None => job'.segment = posting /\ job'.ended = FALSE /\ job'.fetched = None
    <3> HIDE DEF j
    <3>1. CASE j = None
        BY <2>1, <2>2, <3>1, WatchedType
    <3>2. CASE j # None
        BY <2>1, <2>2, <3>2, WatchedType DEF Jobs
    <3> QED
        BY <3>1, <3>2
  <2> HIDE DEF j
  <2>4. posting \in running' \cup lost' /\ (job'.ended \in BOOLEAN \/ job' = None)
      BY <1>1, <2>1, <2>3
  <2> QED
      BY <2>1, <2>3, <2>4 DEF JobRuns
<1>7. CASE JobSeen \/ PollEnds
  <2>1. /\ job # None /\ job'.segment = job.segment /\ posting' = posting
        /\ job'.fetched = job.fetched \/ job'.fetched = None
        /\ job'.ended => job.ended \/ job.segment \notin running
      BY <1>0, <1>7 DEF JobSeen, PollEnds, Jobs
  <2> QED
      BY <1>1, <2>1 DEF JobRuns
<1>8. CASE RefreshRead \/ Refreshed
  <2>1. /\ job # None /\ job'.segment = job.segment /\ posting' = posting
        /\ job.ended \/ job.fetched # None
      BY <1>0, <1>8 DEF RefreshRead, Refreshed, Jobs
  <2> QED
      BY <1>1, <2>1 DEF JobRuns
<1> QED
    BY <1>2, <1>3, <1>4, <1>5, <1>6, <1>7, <1>8, Frame

--------------------------------------------------------------------------------
(* The draft *)

LEMMA MarkedStep ==
    ASSUME Inv, [Next]_vars
    PROVE  Marked'
<1> USE DEF Inv
<1>0. jobs \in Nat /\ (jobs' = 0 => jobs = 0)
    BY Frame DEF CreateJob, TypeOK
<1>1. jobs' = 0 => job' = None /\ posting' = None
  <2>1. jobs = 0 => job = None /\ posting = None
      BY DEF Marked
  <2>2. CASE CreateJob
      BY <1>0, <2>2 DEF CreateJob, TypeOK
  <2>3. CASE JobCreated \/ JobSeen \/ PollEnds \/ RefreshRead \/ Refreshed
      BY <1>0, <2>1, <2>3 DEF JobCreated, JobSeen, PollEnds, RefreshRead, Refreshed
  <2>4. ASSUME NEW n \in Sections, ChangeSection(n) PROVE jobs' = 0 => job' = None /\ posting' = None
    <3>1. job' = Watched(job, n, selected) /\ posting' = posting
        BY <2>4 DEF ChangeSection
    <3> QED
        BY <1>0, <2>1, <3>1 DEF Watched
  <2>5. CASE OpenChapter \/ \E s \in Segments : OpenSegment(s)
      BY <1>0, <2>1, <2>5 DEF OpenChapter, OpenSegment, Select
  <2>6. CASE UNCHANGED <<job, posting>>
      BY <1>0, <2>1, <2>6
  <2> QED
      BY <2>2, <2>3, <2>4, <2>5, <2>6, Frame
<1>2. MarkedUnlessJobs'
  <2> SUFFICES ASSUME selected' # None, jobs' = 0 PROVE dirty' <=> draft' # shown'
      BY DEF MarkedUnlessJobs
  <2>1. /\ jobs = 0 /\ job = None /\ dirty \in BOOLEAN
        /\ selected # None => (dirty <=> draft # shown)
      BY <1>0 DEF Marked, MarkedUnlessJobs, TypeOK
  <2>2. CASE OpenChapter \/ \E s \in Segments : OpenSegment(s)
      BY <2>2 DEF OpenChapter, OpenSegment, Select
  <2>3. CASE \E n \in Sections : ChangeSection(n)
      BY <2>1, <2>3 DEF ChangeSection
  <2>4. ASSUME NEW text, ChangeDraft(text) PROVE dirty' <=> draft' # shown'
      BY <2>4 DEF ChangeDraft
  <2>5. ASSUME NEW q \in saves, SaveAnswered(q) PROVE dirty' <=> draft' # shown'
    <3>1. selected' = selected /\ shown' \in Texts \cup {None}
        BY <2>5, SavesType DEF SaveAnswered, TypeOK
    <3>2. CASE Current(q)
        BY <2>5, <3>2 DEF SaveAnswered, TakeAnswer
    <3>3. CASE ~Current(q)
        BY <2>1, <2>5, <3>1, <3>3 DEF SaveAnswered
    <3> QED
        BY <3>2, <3>3
  <2>6. CASE UNCHANGED <<selected, draft, dirty, shown>>
      BY <2>1, <2>6
  <2>7. CASE Refreshed
      BY <2>1, <2>7 DEF Refreshed
  <2>8. CASE \/ DetailRead \/ DetailAnswered \/ DetailFails \/ SaveTranslation
             \/ (\E q \in saves : SaveStored(q) \/ SaveGivenUp(q))
             \/ CreateJob \/ JobCreated \/ JobSeen \/ PollEnds \/ RefreshRead
             \/ (\E s \in Segments, text \in Texts : JobEnds(s, text))
             \/ RunQualityCheck \/ CheckExecuted \/ CheckAnswered \/ UNCHANGED vars
    <3>1. UNCHANGED <<selected, draft, dirty, shown>>
        BY <2>8 DEF DetailRead, DetailAnswered, DetailFails, SaveTranslation, SaveStored, SaveGivenUp,
           CreateJob, JobCreated, JobSeen, PollEnds, RefreshRead, JobEnds, RunQualityCheck,
           CheckExecuted, CheckAnswered, vars
    <3> QED
        BY <2>6, <3>1
  <2> QED
      BY <2>2, <2>3, <2>4, <2>5, <2>7, <2>8 DEF Next, ResetDraft
<1> QED
    BY <1>1, <1>2 DEF Marked

--------------------------------------------------------------------------------
LEMMA InitInv == Init => Inv
<1> SUFFICES ASSUME Init PROVE Inv
    OBVIOUS
<1>1. TypeOK
    BY InitType
<1>2. SaveInv /\ Fresh /\ Ready /\ JobRuns
    BY DEF Init, SaveInv, Live, Fresh, Ready, JobRuns
<1>3. Had
  <2>1. HadStored
      BY DEF Init, HadStored
  <2> QED
      BY <2>1 DEF Init, Had, HadList, HadDetail, HadReport, HadSaves, HadJob, HadCheck
<1>4. Marked
    BY DEF Init, Marked, MarkedUnlessJobs
<1> QED
    BY <1>1, <1>2, <1>3, <1>4 DEF Inv

LEMMA NextType ==
    ASSUME Inv, [Next]_vars
    PROVE  TypeOK'
<1>1. CASE ResetDraft
  <2>1. shown \in Texts
      BY <1>1 DEF ResetDraft, ChangeDraft, Inv, Ready, TypeOK
  <2> QED
      BY <1>1, <2>1, EditorType DEF ResetDraft
<1>2. CASE UNCHANGED vars
    BY <1>2 DEF Inv, TypeOK, vars
<1> QED
    BY <1>1, <1>2, NavigationType, EditorType, SavesType, JobsType, ChecksType DEF Next

LEMMA NextInv == Inv /\ [Next]_vars => Inv'
<1> SUFFICES ASSUME Inv, [Next]_vars PROVE Inv'
    OBVIOUS
<1>1. Had'
    BY HadStoredStep, HadListStep, HadDetailStep, HadReportStep, HadSavesStep, HadJobStep,
       HadCheckStep DEF Had
<1> QED
    BY <1>1, NextType, ReadyStep, SaveInvStep, FreshStep, JobRunsStep, MarkedStep DEF Inv

LEMMA AlwaysInv == Spec => []Inv
BY InitInv, NextInv, PTL DEF Spec

--------------------------------------------------------------------------------
\* Every variable has its type.
THEOREM TypeCorrect == Spec => []TypeOK
<1>1. Inv => TypeOK
    BY DEF Inv
<1> QED
    BY <1>1, AlwaysInv, PTL

\* Whatever answer arrives after whatever navigation, no text lands on a segment
\* that has never had it.
THEOREM ShownBelongsCorrect == Spec => []ShownBelongsToSegment
<1>1. Inv => ShownBelongsToSegment
    BY DEF Inv, ShownBelongsToSegment, Ready, Had, HadList, HadReport, TypeOK
<1> QED
    BY <1>1, AlwaysInv, PTL

\* The save button is blocked exactly while one save of this visit is waited for.
THEOREM OneSaveCorrect == Spec => []OneSaveAtATime
<1>1. Inv => OneSaveAtATime
    BY DEF Inv, OneSaveAtATime, SaveInv, Live
<1> QED
    BY <1>1, AlwaysInv, PTL

\* While no save is waited for, the editor shows what the database holds, unless a
\* save was given up or a job has translated the segment.
THEOREM ShownIsStoredCorrect == Spec => []ShownIsStored
<1>1. Inv => ShownIsStored
  <2> SUFFICES ASSUME Inv, selected # None, selected \notin lost, ~saveBusy
               PROVE  shown = stored[selected]
      BY DEF ShownIsStored
  <2>1. Live = {} /\ selected \in Segments
      BY DEF Inv, SaveInv, TypeOK
  <2>2. \A q \in saves : q.segment # selected
      BY <2>1 DEF Inv, Fresh
  <2> QED
      BY <2>1, <2>2 DEF Inv, Fresh, Ready
<1> QED
    BY <1>1, AlwaysInv, PTL

\* Before the first job, exactly the drafts that differ from the shown translation
\* are marked as unsaved.
THEOREM MarkedCorrect == Spec => []MarkedUnlessJobs
<1>1. Inv => MarkedUnlessJobs
    BY DEF Inv, Marked
<1> QED
    BY <1>1, AlwaysInv, PTL

\* No answer of the server changes what the user has typed.
THEOREM DraftSurvivesCorrect == Spec => DraftSurvivesAnswers
<1>1. ASSUME Inv, [Next]_vars, draft' # draft
      PROVE  token' # token \/ UNCHANGED <<shown, saves, job, check, detail>>
  <2>1. token \in Nat
      BY <1>1 DEF Inv, TypeOK
  <2>2. CASE InvalidateSaveRequest
      BY <2>1, <2>2 DEF InvalidateSaveRequest
  <2>3. CASE \E text \in Texts : ChangeDraft(text) \/ ResetDraft
      BY <2>3 DEF ChangeDraft, ResetDraft
  <2>4. CASE ResetDraft
      BY <2>4 DEF ChangeDraft, ResetDraft
  <2> QED
      BY <1>1, <2>2, <2>3, <2>4 DEF Next, OpenChapter, OpenSegment, ChangeSection, DetailRead,
         DetailAnswered, DetailFails, SaveTranslation, SaveStored, SaveAnswered, TakeAnswer,
         SaveGivenUp, CreateJob, JobCreated, JobEnds, JobSeen, PollEnds, RefreshRead, Refreshed,
         RunQualityCheck, CheckExecuted, CheckAnswered, vars
<1>2. Inv /\ [Next]_vars =>
        [(draft' # draft) => \/ token' # token
                             \/ UNCHANGED <<shown, saves, job, check, detail>>]_vars
    BY <1>1
<1> QED
    BY <1>2, AlwaysInv, PTL DEF Spec, DraftSurvivesAnswers
================================================================================
