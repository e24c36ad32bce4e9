---------------------------- MODULE SegmentQAProofs ----------------------------
(***************************************************************************)
(* Proofs about SegmentQA, for any number of sessions, texts, jobs,        *)
(* verdicts and payloads.                                                  *)
(***************************************************************************)
EXTENDS SegmentQA, TLAPS

USE ConstantsAssumption

--------------------------------------------------------------------------------
(* The row *)

\* The columns of a row.
LEMMA Columns ==
    ASSUME NEW x \in Rows
    PROVE  /\ DOMAIN x = {"source", "text", "status", "qa"}
           /\ x = [c \in {"source", "text", "status", "qa"} |-> x[c]]
           /\ x["source"] \in Sources /\ x["text"] \in AllTexts
           /\ x["status"] \in Statuses /\ x["qa"] \in QAStates \cup {"none"}
           /\ x.source = x["source"] /\ x.text = x["text"]
           /\ x.status = x["status"] /\ x.qa = x["qa"]
BY DEF Rows

\* Its values are told apart from Keep, but for a qa_status that is null.
LEMMA KeepApart ==
    Keep \notin Sources /\ Keep \notin AllTexts /\ Keep \notin Statuses /\ Keep \notin QAStates
BY DEF AllTexts

\* Four columns of the right types make a row, and a set of fields.
LEMMA RowOfColumns ==
    ASSUME NEW x, x = [c \in {"source", "text", "status", "qa"} |-> x[c]],
           x["source"] \in Sources, x["text"] \in AllTexts,
           x["status"] \in Statuses, x["qa"] \in QAStates \cup {"none"}
    PROVE  x \in Rows
<1>1. x = [source |-> x["source"], text |-> x["text"], status |-> x["status"], qa |-> x["qa"]]
    OBVIOUS
<1> QED
    BY <1>1 DEF Rows

LEMMA FieldsOfColumns ==
    ASSUME NEW f, f = [c \in {"source", "text", "status", "qa"} |-> f[c]],
           f["source"] \in Sources \cup {Keep}, f["text"] \in AllTexts \cup {Keep},
           f["status"] \in Statuses \cup {Keep}, f["qa"] \in QAStates \cup {Keep}
    PROVE  f \in Fields
<1>1. f = [source |-> f["source"], text |-> f["text"], status |-> f["status"], qa |-> f["qa"]]
    OBVIOUS
<1> QED
    BY <1>1 DEF Fields

LEMMA FieldTypes ==
    ASSUME NEW f \in Fields
    PROVE  /\ f["source"] \in Sources \cup {Keep} /\ f["text"] \in AllTexts \cup {Keep}
           /\ f["status"] \in Statuses \cup {Keep} /\ f["qa"] \in QAStates \cup {Keep}
BY DEF Fields

\* Setting fields of a row leaves a row.
LEMMA WithFieldsRow ==
    ASSUME NEW x \in Rows, NEW f \in Fields
    PROVE  /\ WithFields(x, f) \in Rows
           /\ \A c \in {"source", "text", "status", "qa"} :
                WithFields(x, f)[c] = IF f[c] = Keep THEN x[c] ELSE f[c]
<1> DEFINE y == WithFields(x, f)
<1>1. y = [c \in {"source", "text", "status", "qa"} |-> IF f[c] = Keep THEN x[c] ELSE f[c]]
    BY Columns DEF WithFields
<1>2. \A c \in {"source", "text", "status", "qa"} : y[c] = IF f[c] = Keep THEN x[c] ELSE f[c]
    BY <1>1
<1>3. y = [c \in {"source", "text", "status", "qa"} |-> y[c]]
    BY <1>1
<1>4. /\ y["source"] \in Sources /\ y["text"] \in AllTexts
      /\ y["status"] \in Statuses /\ y["qa"] \in QAStates \cup {"none"}
    BY <1>2, Columns, FieldTypes
<1> HIDE DEF y
<1>5. y \in Rows
    BY <1>3, <1>4, RowOfColumns
<1> QED
    BY <1>2, <1>5 DEF y

\* The changes of a copy are fields, since no operation sets qa_status to null,
\* and make the loaded row the copy.
LEMMA ChangesFields ==
    ASSUME NEW x \in Rows, NEW new \in Rows, new.qa # x.qa => new.qa \in QAStates
    PROVE  /\ Changes(x, new) \in Fields
           /\ WithFields(x, Changes(x, new)) = new
           /\ \A c \in {"source", "text", "status", "qa"} :
                Changes(x, new)[c] = Keep <=> new[c] = x[c]
<1> DEFINE f == Changes(x, new)
<1>1. f = [c \in {"source", "text", "status", "qa"} |-> IF new[c] = x[c] THEN Keep ELSE new[c]]
    BY Columns DEF Changes
<1>2. \A c \in {"source", "text", "status", "qa"} : f[c] = IF new[c] = x[c] THEN Keep ELSE new[c]
    BY <1>1
<1>3. f = [c \in {"source", "text", "status", "qa"} |-> f[c]]
    BY <1>1
<1>4. /\ f["source"] \in Sources \cup {Keep} /\ f["text"] \in AllTexts \cup {Keep}
      /\ f["status"] \in Statuses \cup {Keep} /\ f["qa"] \in QAStates \cup {Keep}
    BY <1>2, Columns
<1>5. \A c \in {"source", "text", "status", "qa"} : f[c] = Keep <=> new[c] = x[c]
    BY <1>2, Columns, KeepApart
<1> HIDE DEF f
<1>6. f \in Fields
    BY <1>3, <1>4, FieldsOfColumns
<1>7. WithFields(x, f) = new
  <2> DEFINE y == WithFields(x, f)
  <2>1. \A c \in {"source", "text", "status", "qa"} : y[c] = new[c]
      BY <1>2, <1>5, <1>6, WithFieldsRow
  <2>2. y \in Rows
      BY <1>6, WithFieldsRow
  <2> HIDE DEF y
  <2>3. y = new
      BY <2>1, <2>2, Columns
  <2> QED
      BY <2>3 DEF y
<1> QED
    BY <1>5, <1>6, <1>7 DEF f

\* What each request makes of its copy.
LEMMA EditedRow ==
    ASSUME NEW x \in Rows, NEW text \in AllTexts
    PROVE  /\ Edited(x, text) \in Rows
           /\ Edited(x, text).status = StatusOf(Edited(x, text).text)
           /\ Edited(x, text).qa = "stale"
BY DEF Edited, Rows, StatusOf

LEMMA JudgedRow ==
    ASSUME NEW x \in Rows, NEW text \in Texts, NEW v \in Verdicts
    PROVE  /\ Checked(x, v) \in Rows /\ Checked(x, v).qa = v
           /\ Checked(x, v).text = x.text /\ Checked(x, v).source = x.source
           /\ Checked(x, v).status = x.status
           /\ Translated(x, text, v) \in Rows /\ Translated(x, text, v).qa = v
           /\ Translated(x, text, v).text = text /\ Translated(x, text, v).source = x.source
           /\ Translated(x, text, v).status = StatusOf(text)
BY DEF Checked, Translated, Rows, AllTexts, StatusOf

LEMMA DerivedByPatchType ==
    ASSUME NEW x, NEW new
    PROVE  /\ DerivedByPatch(x, new) \in SUBSET Derived
           /\ "status" \in DerivedByPatch(x, new) <=> new.text # x.text
           /\ "qa" \in DerivedByPatch(x, new) <=> (new.text # x.text \/ new.source # x.source)
<1>1. CASE new.text # x.text
    BY <1>1 DEF DerivedByPatch, Derived
<1>2. CASE new.text = x.text /\ new.source # x.source
    BY <1>2 DEF DerivedByPatch, Derived
<1>3. CASE new.text = x.text /\ new.source = x.source
    BY <1>3 DEF DerivedByPatch, Derived
<1> QED
    BY <1>1, <1>2, <1>3

LEMMA PatchedRow ==
    ASSUME NEW x \in Rows, NEW f \in Fields, NEW y, y = Patched(x, f)
    PROVE  /\ y \in Rows
           /\ y.qa # x.qa => y.qa \in QAStates
           /\ "status" \in DerivedByPatch(x, y) => y.status = StatusOf(y.text)
           /\ "qa" \in DerivedByPatch(x, y) => y.qa = "stale"
<1> DEFINE new == WithFields(x, f)
           d   == DerivedByPatch(x, new)
<1>1. /\ new \in Rows
      /\ new.qa = IF f["qa"] = Keep THEN x.qa ELSE f["qa"]
    BY WithFieldsRow, Columns
<1>2. new.qa # x.qa => new.qa \in QAStates
    BY <1>1, FieldTypes
<1>3. y = [new EXCEPT !.status = IF "status" \in d THEN StatusOf(new.text) ELSE @,
                      !.qa     = IF "qa" \in d THEN "stale" ELSE @]
    BY DEF Patched
<1> HIDE DEF new
<1>4. /\ y.text = new.text /\ y.source = new.source
      /\ y.status = IF "status" \in d THEN StatusOf(new.text) ELSE new.status
      /\ y.qa = IF "qa" \in d THEN "stale" ELSE new.qa
      /\ y \in Rows
    BY <1>1, <1>3 DEF Rows, StatusOf
<1>5. DerivedByPatch(x, y) = d
    BY <1>4 DEF DerivedByPatch
<1> HIDE DEF d
<1> QED
    BY <1>2, <1>4, <1>5

--------------------------------------------------------------------------------
(* Sessions *)

\* A session that is not outdated has loaded the row as it is.
Current ==
    \A r \in Sessions \ dirty :
        session[r].pc \in {"check", "found", "translate"} => session[r].row = row

\* A check has loaded a translation, and a report it has found is still there.
Checks ==
    \A r \in Sessions :
        /\ session[r].pc \in {"check", "found"} => session[r].row.text \in Texts
        /\ session[r].pc = "found" /\ session[r].found # NoReport => session[r].found \in Manual

\* The derived columns that an UPDATE of the row with these fields leaves right: a
\* column it has worked out, and one whose texts it leaves alone.
RightStatus(fields, derived) ==
    IF "status" \in derived
      THEN WithFields(row, fields).status = StatusOf(WithFields(row, fields).text)
      ELSE fields["text"] = Keep

RightQA(fields, derived) ==
    IF "qa" \in derived
      THEN WithFields(row, fields).qa = "stale"
      ELSE fields["text"] = Keep /\ fields["source"] = Keep

\* What a session is about to write is right if it is not outdated.
Plans ==
    \A r \in Sessions \ dirty :
        session[r].pc = "write" =>
            /\ RightStatus(session[r].fields, session[r].derived)
            /\ RightQA(session[r].fields, session[r].derived)

Inv == TypeOK /\ Current /\ Checks /\ Plans /\ ReportsUnique /\ RowConsistent

Writing     == [pc : {"write"}, fields : Fields, derived : SUBSET Derived]
Checking    == [pc : {"check"}, mode : Modes, row : Rows]
Found       == [pc : {"found"}, mode : Modes, row : Rows, found : Reports \cup {NoReport}]
Translating == [pc : {"translate"}, job : Jobs, row : Rows]

\* The state of a session by where it is.
LEMMA StateByPc ==
    ASSUME NEW x \in SessionStates
    PROVE  /\ x.pc = "idle" <=> x = Idle
           /\ x.pc = "write" => x \in Writing
           /\ x.pc = "check" => x \in Checking
           /\ x.pc = "found" => x \in Found
           /\ x.pc = "translate" => x \in Translating
<1>1. CASE x = Idle
    BY <1>1 DEF Idle
<1>2. CASE x \in Writing
    BY <1>2 DEF Writing, Idle
<1>3. CASE x \in Checking
    BY <1>3 DEF Checking, Idle
<1>4. CASE x \in Found
    BY <1>4 DEF Found, Idle
<1>5. CASE x \in Translating
    BY <1>5 DEF Translating, Idle
<1> QED
    BY <1>1, <1>2, <1>3, <1>4, <1>5 DEF SessionStates, Writing, Checking, Found, Translating

LEMMA IdlePc == Idle \in SessionStates /\ Idle.pc = "idle"
BY DEF SessionStates, Idle

\* Opening a session loads the row.
LEMMA OpenStep ==
    ASSUME Inv, NEW r \in Sessions, NEW x \in SessionStates, Open(r, x),
           x.pc \in {"check", "translate"} => x.row = row,
           x.pc = "check" => x.row.text \in Texts,
           x.pc # "found",
           x.pc = "write" => RightStatus(x.fields, x.derived) /\ RightQA(x.fields, x.derived)
    PROVE  Inv'
<1> USE DEF Inv
<1>1. /\ session'[r] = x
      /\ \A q \in Sessions \ {r} : session'[q] = session[q]
      /\ session' \in [Sessions -> SessionStates]
    BY DEF Open, TypeOK
<1>2. dirty' = dirty \ {r} /\ UNCHANGED <<row, reports, loose>>
    BY DEF Open
<1>3. TypeOK'
    BY <1>1, <1>2 DEF TypeOK
<1>4. Current'
    BY <1>1, <1>2 DEF Current
<1>5. Checks'
    BY <1>1, <1>2 DEF Checks, Manual
<1>6. Plans'
    BY <1>1, <1>2 DEF Plans, RightStatus, RightQA, WithFields
<1>7. ReportsUnique' /\ RowConsistent'
    BY <1>2 DEF ReportsUnique, RowConsistent, ForTexts
<1> QED
    BY <1>3, <1>4, <1>5, <1>6, <1>7

LEMMA OpenEditStep ==
    ASSUME Inv, NEW r \in Sessions, NEW text \in AllTexts, OpenEdit(r, text)
    PROVE  Inv'
<1> DEFINE new == Edited(row, text)
           x   == [pc |-> "write", fields |-> Changes(row, new), derived |-> Derived]
<1>1. row \in Rows
    BY DEF Inv, TypeOK
<1>2. /\ new \in Rows /\ new.status = StatusOf(new.text) /\ new.qa = "stale"
      /\ new.qa \in QAStates
    BY <1>1, EditedRow
<1> HIDE DEF new
<1>3. Changes(row, new) \in Fields /\ WithFields(row, Changes(row, new)) = new
    BY <1>1, <1>2, ChangesFields
<1>4. x.pc = "write" /\ x.fields = Changes(row, new) /\ x.derived = Derived /\ x \in SessionStates
    BY <1>3 DEF SessionStates
<1>5. Open(r, x)
    BY DEF OpenEdit, new
<1>6. "status" \in Derived /\ "qa" \in Derived
    BY DEF Derived
<1> HIDE DEF x
<1>7. RightStatus(x.fields, x.derived) /\ RightQA(x.fields, x.derived)
    BY <1>2, <1>3, <1>4, <1>6 DEF RightStatus, RightQA
<1> QED
    BY <1>4, <1>5, <1>7, OpenStep

LEMMA OpenPatchStep ==
    ASSUME Inv, NEW r \in Sessions, NEW f \in Fields, OpenPatch(r, f)
    PROVE  Inv'
<1> DEFINE new == Patched(row, f)
           d   == DerivedByPatch(row, new)
           x   == [pc |-> "write", fields |-> Changes(row, new), derived |-> d]
<1>1. row \in Rows
    BY DEF Inv, TypeOK
<1>2. Open(r, x)
    BY DEF OpenPatch
<1>3. /\ new \in Rows
      /\ new.qa # row.qa => new.qa \in QAStates
      /\ "status" \in d => new.status = StatusOf(new.text)
      /\ "qa" \in d => new.qa = "stale"
    BY <1>1, PatchedRow
<1>4. /\ d \in SUBSET Derived
      /\ "status" \notin d => new.text = row.text
      /\ "qa" \notin d => new.text = row.text /\ new.source = row.source
    BY DerivedByPatchType
<1> HIDE DEF new
<1>5. /\ Changes(row, new) \in Fields /\ WithFields(row, Changes(row, new)) = new
      /\ Changes(row, new)["text"] = Keep <=> new.text = row.text
      /\ Changes(row, new)["source"] = Keep <=> new.source = row.source
    BY <1>1, <1>3, ChangesFields, Columns
<1> HIDE DEF d
<1>6. x.pc = "write" /\ x.fields = Changes(row, new) /\ x.derived = d /\ x \in SessionStates
    BY <1>4, <1>5 DEF SessionStates
<1> HIDE DEF x
<1>7. RightStatus(x.fields, x.derived)
    BY <1>3, <1>4, <1>5, <1>6 DEF RightStatus
<1>8. RightQA(x.fields, x.derived)
    BY <1>3, <1>4, <1>5, <1>6 DEF RightQA
<1> QED
    BY <1>2, <1>6, <1>7, <1>8, OpenStep

LEMMA OpenReadStep ==
    ASSUME Inv, NEW r \in Sessions,
           \/ \E m \in Modes : OpenCheck(r, m)
           \/ \E j \in Jobs : OpenJob(r, j)
    PROVE  Inv'
<1>1. row \in Rows
    BY DEF Inv, TypeOK
<1>2. ASSUME NEW m \in Modes, OpenCheck(r, m) PROVE Inv'
  <2> DEFINE x == [pc |-> "check", mode |-> m, row |-> row]
  <2>1. x \in SessionStates /\ x.pc = "check" /\ x.row = row
      BY <1>1 DEF SessionStates
  <2>2. Open(r, x) /\ row.text \in Texts
      BY <1>2 DEF OpenCheck
  <2> HIDE DEF x
  <2> QED
      BY <2>1, <2>2, OpenStep
<1>3. ASSUME NEW j \in Jobs, OpenJob(r, j) PROVE Inv'
  <2> DEFINE x == [pc |-> "translate", job |-> j, row |-> row]
  <2>1. x \in SessionStates /\ x.pc = "translate" /\ x.row = row
      BY <1>1 DEF SessionStates
  <2>2. Open(r, x)
      BY <1>3 DEF OpenJob
  <2> HIDE DEF x
  <2> QED
      BY <2>1, <2>2, OpenStep
<1> QED
    BY <1>2, <1>3

--------------------------------------------------------------------------------
(* Commits *)

\* The verdict of the row is one of a report for its texts, or there is none.
Judged(x, rs) ==
    x.qa \in Verdicts => \E p \in rs : p.source = x.source /\ p.text = x.text /\ p.verdict = x.qa

LEMMA RowJudged ==
    /\ RowConsistent <=> /\ "status" \notin loose => row.status = StatusOf(row.text)
                         /\ "qa" \notin loose => Judged(row, reports)
    /\ RowConsistent' <=> /\ "status" \notin loose' => row'.status = StatusOf(row'.text)
                          /\ "qa" \notin loose' => Judged(row', reports')
BY DEF RowConsistent, Judged, ForTexts

LEMMA StaleNoVerdict == "none" \notin Verdicts /\ "stale" \notin Verdicts
OBVIOUS

\* A commit keeps the invariant when the columns it counts as worked out are
\* right, and the reports are.
LEMMA CommitStep ==
    ASSUME Inv, NEW r \in Sessions, session[r] # Idle, NEW f \in Fields, NEW d \in SUBSET Derived,
           Commit(r, f, d), reports' \subseteq Reports, Manual \subseteq reports', ReportsUnique',
           "qa" \in d \/ reports' = reports,
           r \notin dirty => RightStatus(f, d),
           r \notin dirty => IF "qa" \in d THEN Judged(WithFields(row, f), reports')
                             ELSE f["text"] = Keep /\ f["source"] = Keep
    PROVE  Inv'
<1> USE DEF Inv
<1> DEFINE new == WithFields(row, f)
<1>1. row \in Rows /\ session \in [Sessions -> SessionStates]
    BY DEF TypeOK
<1>2. row' = new
    BY DEF Commit
<1>3. /\ new \in Rows
      /\ f["text"] = Keep => new.text = row.text
      /\ f["source"] = Keep => new.source = row.source
      /\ f["status"] = Keep => new.status = row.status
      /\ f["qa"] = Keep => new.qa = row.qa
    BY <1>1, WithFieldsRow, Columns
<1> HIDE DEF new
<1>4. /\ session' \in [Sessions -> SessionStates]
      /\ session'[r] = Idle
      /\ \A q \in Sessions \ {r} : session'[q] = session[q]
    BY <1>1, IdlePc DEF Commit
<1>5. dirty' \subseteq Sessions /\ \A q \in Sessions \ dirty' : session'[q] = Idle
    BY <1>4 DEF Commit, TypeOK
<1>6. loose' \subseteq Derived
    BY DEF Commit, TypeOK, Derived
<1>7. TypeOK'
    BY <1>2, <1>3, <1>4, <1>5, <1>6 DEF TypeOK
<1>8. Current' /\ Plans'
    BY <1>5, IdlePc DEF Current, Plans
<1>9. Checks'
    BY <1>4, IdlePc DEF Checks, Manual
<1>10. RowConsistent'
  <2>1. CASE r \in dirty
    <3>1. "status" \in loose' /\ "qa" \in loose'
        BY <2>1 DEF Commit, Derived
    <3> QED
        BY <3>1, RowJudged
  <2>2. CASE r \notin dirty
    <3>1. loose' = (loose \cup {c \in Derived : f[c] # Keep}) \ d
        BY <2>2 DEF Commit
    <3>2. ASSUME "status" \notin loose' PROVE new.status = StatusOf(new.text)
      <4>1. CASE "status" \in d
          BY <2>2, <4>1 DEF RightStatus, new
      <4>2. CASE "status" \notin d
        <5>1. "status" \notin loose /\ f["status"] = Keep
            BY <3>1, <3>2, <4>2 DEF Derived
        <5>2. f["text"] = Keep
            BY <2>2, <4>2 DEF RightStatus
        <5> QED
            BY <1>3, <5>1, <5>2, RowJudged
      <4> QED
          BY <4>1, <4>2
    <3>3. ASSUME "qa" \notin loose' PROVE Judged(new, reports')
      <4>1. CASE "qa" \in d
          BY <2>2, <4>1 DEF new
      <4>2. CASE "qa" \notin d
        <5>1. "qa" \notin loose /\ f["qa"] = Keep
            BY <3>1, <3>3, <4>2 DEF Derived
        <5>2. f["text"] = Keep /\ f["source"] = Keep /\ reports' = reports
            BY <2>2, <4>2
        <5>3. Judged(row, reports)
            BY <5>1, RowJudged
        <5> QED
            BY <1>3, <5>1, <5>2, <5>3 DEF Judged
      <4> QED
          BY <4>1, <4>2
    <3> QED
        BY <1>2, <3>2, <3>3, RowJudged
  <2> QED
      BY <2>1, <2>2
<1> QED
    BY <1>7, <1>8, <1>9, <1>10

LEMMA WriteStep ==
    ASSUME Inv, NEW r \in Sessions, Write(r)
    PROVE  Inv'
<1> DEFINE f == session[r].fields
           d == session[r].derived
<1>1. session[r] \in SessionStates /\ session[r].pc = "write"
    BY DEF Inv, TypeOK, Write, At
<1>2. f \in Fields /\ d \in SUBSET Derived /\ session[r] # Idle
    BY <1>1, StateByPc, IdlePc DEF Writing
<1>3. Commit(r, f, d) /\ reports' = reports
    BY DEF Write
<1>4. r \notin dirty => RightStatus(f, d) /\ RightQA(f, d)
    BY <1>1 DEF Inv, Plans
<1> HIDE DEF f, d
<1>5. reports' \subseteq Reports /\ Manual \subseteq reports' /\ ReportsUnique'
    BY <1>3 DEF Inv, TypeOK, Manual, ReportsUnique
<1>6. r \notin dirty => IF "qa" \in d THEN Judged(WithFields(row, f), reports')
                        ELSE f["text"] = Keep /\ f["source"] = Keep
    BY <1>4, StaleNoVerdict DEF RightQA, Judged
<1> QED
    BY <1>2, <1>3, <1>4, <1>5, <1>6, CommitStep

\* A session that ends without a commit.
LEMMA CloseStep ==
    ASSUME Inv, NEW r \in Sessions, Close(r)
    PROVE  Inv'
<1> USE DEF Inv
<1>1. /\ session'[r] = Idle /\ (\A q \in Sessions \ {r} : session'[q] = session[q])
      /\ session' \in [Sessions -> SessionStates]
    BY IdlePc DEF Close, TypeOK
<1>2. dirty' = dirty \ {r} /\ UNCHANGED <<row, reports, loose>>
    BY DEF Close
<1>3. TypeOK' /\ ReportsUnique' /\ RowConsistent'
    BY <1>1, <1>2 DEF TypeOK, ReportsUnique, RowConsistent, ForTexts
<1>4. Current' /\ Checks'
    BY <1>1, <1>2, IdlePc DEF Current, Checks, Manual
<1>5. Plans'
    BY <1>1, <1>2, IdlePc DEF Plans, RightStatus, RightQA, WithFields
<1> QED
    BY <1>3, <1>4, <1>5

\* The lookup of a check finds a manual report, or none.
LEMMA FindStep ==
    ASSUME Inv, NEW r \in Sessions, FindManual(r)
    PROVE  Inv'
<1> USE DEF Inv
<1> DEFINE x == session[r]
<1>1. x.pc = "check" /\ x \in Checking
    BY StateByPc DEF FindManual, At, TypeOK
<1>2. PICK p \in Manual \cup {NoReport} :
        session' = [session EXCEPT ![r] =
          [pc |-> "found", mode |-> @.mode, row |-> @.row, found |-> p]]
    BY DEF FindManual
<1> DEFINE y == [pc |-> "found", mode |-> x.mode, row |-> x.row, found |-> p]
<1>3. p \in Reports \cup {NoReport}
    BY DEF Manual, TypeOK
<1>4. y \in SessionStates /\ y.pc = "found" /\ y.row = x.row /\ y.found = p
    BY <1>1, <1>3 DEF Checking, SessionStates
<1> HIDE DEF y
<1>5. session'[r] = y /\ (\A q \in Sessions \ {r} : session'[q] = session[q])
      /\ session' \in [Sessions -> SessionStates]
    BY <1>2, <1>4 DEF TypeOK, y
<1>6. UNCHANGED <<row, reports, dirty, loose>>
    BY DEF FindManual
<1>7. TypeOK' /\ ReportsUnique' /\ RowConsistent'
    BY <1>5, <1>6 DEF TypeOK, ReportsUnique, RowConsistent, ForTexts
<1>8. Current'
    BY <1>1, <1>4, <1>5, <1>6 DEF Current
<1>9. Checks'
    BY <1>1, <1>4, <1>5, <1>6 DEF Checks, Manual
<1>10. Plans'
    BY <1>4, <1>5, <1>6 DEF Plans, RightStatus, RightQA, WithFields
<1> QED
    BY <1>7, <1>8, <1>9, <1>10

LEMMA FoundState ==
    ASSUME Inv, NEW r \in Sessions, At(r, "found")
    PROVE  /\ session[r] # Idle /\ session[r].row \in Rows /\ session[r].row.text \in Texts
           /\ session[r].row.source \in Sources /\ session[r].mode \in Modes
           /\ session[r].found # NoReport => session[r].found \in Manual
           /\ r \notin dirty => session[r].row = row
<1>1. session[r] \in SessionStates /\ session[r].pc = "found"
    BY DEF Inv, TypeOK, At
<1>2. session[r] \in Found /\ session[r] # Idle
    BY <1>1, StateByPc, IdlePc
<1>3. session[r].row \in Rows /\ session[r].row.source \in Sources /\ session[r].mode \in Modes
    BY <1>2 DEF Found, Rows
<1>4. /\ session[r].row.text \in Texts
      /\ session[r].found # NoReport => session[r].found \in Manual
      /\ r \notin dirty => session[r].row = row
    BY <1>1 DEF Inv, Checks, Current
<1> QED
    BY <1>2, <1>3, <1>4

\* A check sets only the verdict of its copy.
LEMMA CheckedKeeps ==
    ASSUME NEW x \in Rows, NEW v \in Verdicts
    PROVE  /\ Checked(x, v) \in Rows /\ Checked(x, v).qa = v
           /\ Checked(x, v).text = x.text /\ Checked(x, v).source = x.source
BY DEF Checked, Rows

\* A job sets the translation of its copy, the status and the verdict.
LEMMA TranslatedKeeps ==
    ASSUME NEW x \in Rows, NEW text \in Texts, NEW v \in Verdicts
    PROVE  /\ Translated(x, text, v) \in Rows /\ Translated(x, text, v).qa = v
           /\ Translated(x, text, v).source = x.source
BY DEF Translated, Rows, AllTexts

\* Columns that an UPDATE leaves out stay as they are.
LEMMA KeptColumns ==
    ASSUME row \in Rows, NEW r \in Sessions, NEW x \in Rows, NEW new \in Rows, NEW d,
           new.qa # x.qa => new.qa \in QAStates, Commit(r, Changes(x, new), d)
    PROVE  /\ new.source = x.source => row'.source = row.source
           /\ new.text = x.text => row'.text = row.text
<1> DEFINE f == Changes(x, new)
<1>1. f["source"] = Keep <=> new["source"] = x["source"]
    BY ChangesFields
<1>2. f \in Fields /\ (f["text"] = Keep <=> new["text"] = x["text"])
    BY ChangesFields
<1>3. row' = WithFields(row, f)
    BY DEF Commit
<1> HIDE DEF f
<1>4. /\ row' \in Rows
      /\ f["source"] = Keep => row'["source"] = row["source"]
      /\ f["text"] = Keep => row'["text"] = row["text"]
    BY <1>2, <1>3, WithFieldsRow
<1> QED
    BY <1>1, <1>2, <1>4, Columns

\* A verdict that is committed together with a report of the same texts is judged.
LEMMA VerdictCommitted ==
    ASSUME Inv, NEW r \in Sessions, At(r, "found"), NEW v \in Verdicts, CommitVerdict(r, v),
           reports' \subseteq Reports, reports \subseteq reports', ReportsUnique',
           \E p \in reports' : /\ p.source = session[r].row.source /\ p.text = session[r].row.text
                               /\ p.verdict = v
    PROVE  Inv'
<1> DEFINE x   == session[r].row
           new == Checked(x, v)
           f   == Changes(x, new)
           d   == {"qa"}
<1>1. /\ session[r] # Idle /\ x \in Rows /\ x.text \in Texts
      /\ r \notin dirty => x = row
    BY FoundState
<1>2. /\ new \in Rows /\ new.qa = v /\ new.text = x.text /\ new.source = x.source
      /\ new.qa \in QAStates
    BY <1>1, JudgedRow
<1>3. Commit(r, f, d)
    BY DEF CommitVerdict
<1> HIDE DEF new
<1>4. /\ f \in Fields /\ WithFields(x, f) = new /\ f["text"] = Keep
    BY <1>1, <1>2, ChangesFields, Columns
<1> HIDE DEF f, x
<1>5. d \in SUBSET Derived /\ "qa" \in d /\ "status" \notin d
    BY DEF Derived
<1>6. r \notin dirty => Judged(WithFields(row, f), reports')
    BY <1>1, <1>2, <1>4 DEF Judged, x
<1>7. r \notin dirty => RightStatus(f, d)
    BY <1>4, <1>5 DEF RightStatus
<1>8. Manual \subseteq reports'
    BY DEF Manual
<1> HIDE DEF d
<1> QED
    BY <1>1, <1>3, <1>4, <1>5, <1>6, <1>7, <1>8, CommitStep

LEMMA ReuseStep ==
    ASSUME Inv, NEW r \in Sessions, ReuseReport(r)
    PROVE  Inv'
<1> DEFINE p == session[r].found
<1>1. At(r, "found") /\ reports' = reports /\ CommitVerdict(r, p.verdict)
      /\ p # NoReport /\ p.source = session[r].row.source /\ p.text = session[r].row.text
    BY DEF ReuseReport, SamePayload
<1>2. p \in reports /\ reports \subseteq Reports
    BY <1>1, FoundState DEF Manual, Inv, TypeOK
<1>3. p.verdict \in Verdicts
    BY <1>2 DEF Reports
<1>4. ReportsUnique'
    BY <1>1 DEF Inv, ReportsUnique
<1> QED
    BY <1>1, <1>2, <1>3, <1>4, VerdictCommitted

LEMMA InsertStep ==
    ASSUME Inv, NEW r \in Sessions, InsertReport(r)
    PROVE  Inv'
<1> DEFINE x == session[r].row
<1>1. At(r, "found") /\ ManualIndexAllows(x.source, x.text)
    BY DEF InsertReport
<1>2. PICK v \in Verdicts :
        reports' = reports \cup {NewReport(session[r], v)} /\ CommitVerdict(r, v)
    BY DEF InsertReport
<1> DEFINE n == NewReport(session[r], v)
<1>3. n \in Reports /\ n.job = NoJob /\ n.source = x.source /\ n.text = x.text /\ n.verdict = v
    BY <1>1, FoundState DEF Reports, NewReport
<1>4. reports' = reports \cup {n} /\ reports' \subseteq Reports
    BY <1>2, <1>3 DEF Inv, TypeOK
<1> HIDE DEF n
<1>5. \A p \in reports : p.job # NoJob \/ p.source # x.source \/ p.text # x.text
    BY <1>1 DEF ManualIndexAllows, Manual, ForTexts
<1>6. ReportsUnique'
    BY <1>3, <1>4, <1>5 DEF ReportsUnique, Inv
<1> QED
    BY <1>1, <1>2, <1>3, <1>4, <1>6, VerdictCommitted

\* The row, the verdict and the report of a job are committed together.
LEMMA StoreStep ==
    ASSUME Inv, NEW r \in Sessions, NEW t \in Texts, NEW v \in Verdicts, StoreResult(r, t, v)
    PROVE  Inv' /\ Manual \subseteq reports'
<1> DEFINE x == session[r].row
           j == session[r].job
           n == [job |-> j, mode |-> "deterministic", source |-> x.source, text |-> t,
                 verdict |-> v]
           same == {p \in OfJob(j) : SamePayload(p, "deterministic", x.source, t)}
           new == Translated(x, t, v)
           f == Changes(x, new)
<1>1. session[r] \in SessionStates /\ session[r].pc = "translate"
    BY DEF Inv, TypeOK, StoreResult, At
<1>2. /\ session[r] # Idle /\ x \in Rows /\ x.source \in Sources /\ j \in Jobs
      /\ r \notin dirty => x = row
  <2>1. session[r] \in Translating /\ session[r] # Idle
      BY <1>1, StateByPc, IdlePc
  <2>2. r \notin dirty => x = row
      BY <1>1 DEF Inv, Current
  <2> QED
      BY <2>1, <2>2 DEF Translating, Rows
<1>3. /\ \/ (\E p \in same : v = p.verdict) /\ reports' = reports
         \/ reports' = (reports \ OfJob(j)) \cup {n}
      /\ Commit(r, f, Derived)
    BY DEF StoreResult
<1>4. n \in Reports /\ n.job = j /\ n.source = x.source /\ n.text = t /\ n.verdict = v
    BY <1>2 DEF Reports
<1>5. reports' \subseteq Reports
    BY <1>3, <1>4 DEF Inv, TypeOK
<1>6. Manual \subseteq reports'
    BY <1>2, <1>3 DEF Manual, OfJob
<1>7. ReportsUnique'
  <2>1. CASE reports' = reports
      BY <2>1 DEF ReportsUnique, Inv
  <2>2. CASE reports' = (reports \ OfJob(j)) \cup {n}
    <3>1. \A p \in reports' : p = n \/ (p \in reports /\ p.job # n.job)
        BY <1>4, <2>2 DEF OfJob
    <3>2. \A p, q \in reports' : p.job = q.job /\ (p = n \/ q = n) => p = q
        BY <3>1
    <3> HIDE DEF n
    <3> QED
        BY <3>1, <3>2 DEF ReportsUnique, Inv
  <2> QED
      BY <1>3, <2>1, <2>2
<1>8. /\ new \in Rows /\ new.qa = v /\ new.text = t /\ new.source = x.source
      /\ new.status = StatusOf(t) /\ new.qa \in QAStates
  <2> HIDE DEF x
  <2>1. x \in Rows /\ v \in QAStates
      BY <1>2
  <2> QED
      BY <2>1, JudgedRow
<1>9. \E p \in reports' : p.source = x.source /\ p.text = t /\ p.verdict = v
  <2>1. CASE (\E p \in same : v = p.verdict) /\ reports' = reports
      BY <2>1 DEF OfJob, SamePayload
  <2>2. CASE reports' = (reports \ OfJob(j)) \cup {n}
      BY <1>4, <2>2
  <2> QED
      BY <1>3, <2>1, <2>2
<1> HIDE DEF new, n
<1>10. f \in Fields /\ WithFields(x, f) = new
    BY <1>2, <1>8, ChangesFields
<1> HIDE DEF f, x
<1>11. r \notin dirty => RightStatus(f, Derived) /\ Judged(WithFields(row, f), reports')
    BY <1>2, <1>8, <1>9, <1>10 DEF RightStatus, Judged, Derived
<1>12. "qa" \in Derived
    BY DEF Derived
<1>13. Inv'
    BY <1>2, <1>3, <1>5, <1>6, <1>7, <1>10, <1>11, <1>12, CommitStep
<1> QED
    BY <1>6, <1>13

--------------------------------------------------------------------------------
LEMMA InitInv == Init => Inv
<1> SUFFICES ASSUME Init PROVE Inv
    OBVIOUS
<1>1. TypeOK
    BY IdlePc DEF Init, TypeOK
<1>2. Current /\ Checks /\ Plans
    BY IdlePc DEF Init, Current, Checks, Plans
<1>3. ReportsUnique
    BY DEF Init, ReportsUnique
<1>4. RowConsistent
  <2>1. CASE loose = Derived
      BY <2>1 DEF RowConsistent, Derived
  <2>2. CASE loose = {}
    <3>1. row.text = NoText /\ row.status = "pending" /\ row.qa = "none"
        BY <2>2 DEF Init
    <3>2. row.status = StatusOf(row.text) /\ row.qa \notin Verdicts
        BY <3>1, StaleNoVerdict DEF StatusOf
    <3> QED
        BY <3>2 DEF RowConsistent
  <2> QED
      BY <2>1, <2>2 DEF Init
<1> QED
    BY <1>1, <1>2, <1>3, <1>4 DEF Inv

LEMMA NextInv == Inv /\ [Next]_vars => Inv'
<1> SUFFICES ASSUME Inv, [Next]_vars PROVE Inv'
    OBVIOUS
<1>1. CASE UNCHANGED vars
  <2>1. UNCHANGED <<row, reports, session, dirty, loose>>
      BY <1>1 DEF vars
  <2>2. TypeOK' /\ Current' /\ Checks'
      BY <2>1 DEF Inv, TypeOK, Current, Checks, Manual
  <2>3. Plans'
      BY <2>1 DEF Inv, Plans, RightStatus, RightQA, WithFields
  <2>4. ReportsUnique' /\ RowConsistent'
      BY <2>1 DEF Inv, ReportsUnique, RowConsistent, ForTexts
  <2> QED
      BY <2>2, <2>3, <2>4 DEF Inv
<1>2. ASSUME NEW r \in Sessions, \E f \in Payloads : OpenPatch(r, f) PROVE Inv'
    BY <1>2, OpenPatchStep
<1>3. ASSUME NEW r \in Sessions,
             (\E m \in Modes : OpenCheck(r, m)) \/ (\E j \in Jobs : OpenJob(r, j))
      PROVE  Inv'
    BY <1>3, OpenReadStep
<1>4. ASSUME NEW r \in Sessions, NEW t \in Texts, NEW v \in Verdicts, StoreResult(r, t, v)
      PROVE  Inv'
    BY <1>4, StoreStep
<1> QED
    BY <1>1, <1>2, <1>3, <1>4, OpenEditStep, CloseStep, WriteStep, FindStep, ReuseStep, InsertStep
    DEF Next

LEMMA AlwaysInv == Spec => []Inv
BY InitInv, NextInv, PTL DEF Spec

--------------------------------------------------------------------------------
\* Every variable has its type: no sequence of payloads, checks and jobs leaves a
\* column without a value of its domain.
THEOREM TypeCorrect == Spec => []TypeOK
<1>1. Inv => TypeOK
    BY DEF Inv
<1> QED
    BY <1>1, AlwaysInv, PTL

\* However many sessions overlap, a job has at most one report and a pair of texts
\* at most one manual one.
THEOREM ReportsUniqueCorrect == Spec => []ReportsUnique
<1>1. Inv => ReportsUnique
    BY DEF Inv
<1> QED
    BY <1>1, AlwaysInv, PTL

\* But for what a client wrote itself and what an overlap has mixed up, the status
\* of a segment follows its translation and its verdict is that of a report for its
\* own texts.
THEOREM RowConsistentCorrect == Spec => []RowConsistent
<1>1. Inv => RowConsistent
    BY DEF Inv
<1> QED
    BY <1>1, AlwaysInv, PTL

\* A report made by a quality check is never rewritten or removed.
THEOREM ManualReportsCorrect == Spec => ManualReportsPermanent
<1>1. Inv /\ [Next]_vars => [Manual \subseteq reports']_vars
  <2> SUFFICES ASSUME Inv, Next PROVE Manual \subseteq reports'
      OBVIOUS
  <2>1. CASE \E r \in Sessions, t \in Texts, v \in Verdicts : StoreResult(r, t, v)
      BY <2>1, StoreStep
  <2> QED
      BY <2>1 DEF Next, OpenEdit, OpenPatch, OpenCheck, OpenJob, Open, Close, Write,
         FindManual, ReuseReport, InsertReport, Manual
<1> QED
    BY <1>1, AlwaysInv, PTL DEF Spec, ManualReportsPermanent

\* However long a check or a job has taken, its commit leaves the texts it does not
\* itself make as the edits have left them.
THEOREM LateResultsCorrect == Spec => LateResultsKeepTexts
<1>1. ASSUME Inv, [Next]_vars, NEW r \in Sessions, session'[r] # session[r]
      PROVE  /\ At(r, "found") => row'.source = row.source /\ row'.text = row.text
             /\ At(r, "translate") => row'.source = row.source
  <2>1. PICK q \in Sessions :
          \/ \E t \in AllTexts : OpenEdit(q, t)
          \/ \E fields \in Payloads : OpenPatch(q, fields)
          \/ \E m \in Modes : OpenCheck(q, m)
          \/ \E j \in Jobs : OpenJob(q, j)
          \/ Close(q) \/ Write(q) \/ FindManual(q) \/ ReuseReport(q) \/ InsertReport(q)
          \/ \E t \in Texts, v \in Verdicts : StoreResult(q, t, v)
      BY <1>1 DEF Next, vars
  <2>2. session \in [Sessions -> SessionStates] /\ row \in Rows /\ reports \subseteq Reports
      BY <1>1 DEF Inv, TypeOK
  <2>3. CASE row' = row
      BY <2>3
  <2>4. CASE Write(q) /\ q = r
      BY <2>4 DEF Write, At
  <2>5. CASE q # r
    <3>1. session'[r] = session[r]
        BY <2>1, <2>2, <2>5 DEF OpenEdit, OpenPatch, OpenCheck, OpenJob, Open, Close, Write,
           FindManual, ReuseReport, InsertReport, StoreResult, CommitVerdict, Commit
    <3> QED
        BY <1>1, <3>1
  <2>6. CASE q = r /\ (ReuseReport(r) \/ InsertReport(r))
    <3>1. At(r, "found") /\ session[r].row \in Rows
        BY <1>1, <2>6, FoundState DEF ReuseReport, InsertReport
    <3>2. ASSUME ReuseReport(r) PROVE \E v \in Verdicts : CommitVerdict(r, v)
      <4>1. session[r].found # NoReport /\ CommitVerdict(r, session[r].found.verdict)
          BY <3>2 DEF ReuseReport, SamePayload
      <4>2. session[r].found \in Manual
          BY <1>1, <3>1, <4>1, FoundState
      <4>3. session[r].found.verdict \in Verdicts
          BY <2>2, <4>2 DEF Manual, Reports
      <4> QED
          BY <4>1, <4>3
    <3>3. PICK v \in Verdicts : CommitVerdict(r, v)
        BY <2>6, <3>2 DEF InsertReport
    <3> DEFINE x == session[r].row
               new == Checked(x, v)
    <3>4. x \in Rows /\ Commit(r, Changes(x, new), {"qa"})
        BY <3>1, <3>3 DEF CommitVerdict
    <3> HIDE DEF x
    <3>5. new \in Rows /\ new.source = x.source /\ new.text = x.text /\ new.qa \in QAStates
      <4>1. v \in QAStates
          OBVIOUS
      <4> QED
          BY <3>4, <4>1, CheckedKeeps
    <3> HIDE DEF new
    <3>6. row'.source = row.source /\ row'.text = row.text
        BY <2>2, <3>4, <3>5, KeptColumns
    <3> QED
        BY <3>1, <3>6 DEF At
  <2>7. CASE q = r /\ \E t \in Texts, v \in Verdicts : StoreResult(r, t, v)
    <3>1. PICK t \in Texts, v \in Verdicts : StoreResult(r, t, v)
        BY <2>7
    <3>2. session[r].pc = "translate" /\ session[r] \in Translating
        BY <2>2, <3>1, StateByPc DEF StoreResult, At
    <3> DEFINE x == session[r].row
               new == Translated(x, t, v)
    <3>3. x \in Rows /\ Commit(r, Changes(x, new), Derived)
        BY <3>1, <3>2 DEF StoreResult, Translating
    <3> HIDE DEF x
    <3>4. new \in Rows /\ new.source = x.source /\ new.qa \in QAStates
      <4>1. v \in QAStates
          OBVIOUS
      <4>2. new \in Rows /\ new.qa = v /\ new.source = x.source
          BY <3>3, TranslatedKeeps
      <4> QED
          BY <4>1, <4>2
    <3> HIDE DEF new
    <3>5. row'.source = row.source
        BY <2>2, <3>3, <3>4, KeptColumns
    <3> QED
        BY <3>2, <3>5 DEF At
  <2>8. CASE q = r /\ row' # row /\ ~Write(r) /\ ~ReuseReport(r) /\ ~InsertReport(r)
    <3>1. \E t \in Texts, v \in Verdicts : StoreResult(r, t, v)
        BY <2>1, <2>8 DEF OpenEdit, OpenPatch, OpenCheck, OpenJob, Open, Close, FindManual
    <3> QED
        BY <2>7, <2>8, <3>1
  <2> QED
      BY <2>3, <2>4, <2>5, <2>6, <2>8
<1>2. Inv /\ [Next]_vars =>
        [\A r \in Sessions : session'[r] # session[r] =>
            /\ At(r, "found") => row'.source = row.source /\ row'.text = row.text
            /\ At(r, "translate") => row'.source = row.source]_vars
    BY <1>1
<1> QED
    BY <1>2, AlwaysInv, PTL DEF Spec, LateResultsKeepTexts
================================================================================
