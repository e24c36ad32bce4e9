--------------------------- MODULE DocumentIngestion ---------------------------
(***************************************************************************)
(* Uploads of documents.  An upload is stored as a file, checked, parsed   *)
(* and written to the database in one transaction; the file is removed     *)
(* when a step fails.  The file and the row are not one transaction: the   *)
(* process may die and the request may be cancelled between any two steps. *)
(***************************************************************************)
EXTENDS DocumentText

CONSTANTS
    Uploads,    \* requests; the stored name is a fresh one for each
    Inputs      \* uploaded files: type, size within the limit or not, archive, document

ASSUME InputsAssumption ==
    \A in \in Inputs :
        \/ in.type = "docx" /\ in.document \in Seq(Paragraphs)
        \/ in.type = "epub" /\ in.document \in Seq(Items)
        \/ in.type = "other"

VARIABLES
    pc,         \* how far an upload is
    input,      \* its file
    parts,      \* uploads whose .part file exists
    files,      \* uploads whose stored file exists
    books,      \* committed books with their chapters and segments
    unanswered  \* history: the reply to the commit was lost

vars == <<pc, input, parts, files, books, unanswered>>

Running  == {"saving", "stored", "checked", "parsed", "written"}
Statuses == Running \cup {"new", "created", "refused", "stopped"}

Init ==
    /\ pc = [u \in Uploads |-> "new"]
    /\ input \in [Uploads -> Inputs]
    /\ parts = {} /\ files = {} /\ books = {} /\ unanswered = {}

--------------------------------------------------------------------------------
ParsedChapters(in) == IF in.type = "docx" THEN ParseDocx(in.document) ELSE ParseEpub(in.document)

\* The rows of a document; chapters and segments are numbered by their place.
Rows(in) ==
    LET chapters == ParsedChapters(in)
    IN [i \in DOMAIN chapters |->
          [title |-> chapters[i].title, segments |-> Segments(chapters[i].content)]]

Book(u) == [upload |-> u, chapters |-> Rows(input[u])]

Goto(u, next) == pc' = [pc EXCEPT ![u] = next]

\* Faulty variant: the file of a failed upload stays.
DiscardRowsOnly(u) == Goto(u, "refused") /\ UNCHANGED files

\* The transaction is rolled back and the file removed.
Discard(u) == Goto(u, "refused") /\ files' = files \ {u}

\* A wrong type is refused before anything is stored.
Receive(u) ==
    /\ pc[u] = "new"
    /\ IF input[u].type = "other" THEN Goto(u, "refused") /\ UNCHANGED parts
       ELSE Goto(u, "saving") /\ parts' = parts \cup {u}
    /\ UNCHANGED <<input, files, books, unanswered>>

\* save_upload: the file gets its name when all of it is written.
Save(u) ==
    /\ pc[u] = "saving" /\ input[u].fits
    /\ parts' = parts \ {u}
    /\ files' = files \cup {u}
    /\ Goto(u, "stored")
    /\ UNCHANGED <<input, books, unanswered>>

\* Faulty variant: the temporary file of an upload that is too large stays.
SaveFailsWithPart(u) ==
    /\ pc[u] = "saving"
    /\ Goto(u, "refused")
    /\ UNCHANGED <<parts, input, files, books, unanswered>>

\* Too large, or the disk fails.
SaveFails(u) ==
    /\ pc[u] = "saving"
    /\ parts' = parts \ {u}
    /\ Goto(u, "refused")
    /\ UNCHANGED <<input, files, books, unanswered>>

\* _validate_docx_file, _validate_epub_file
Accepted(in) ==
    /\ ArchiveAccepted(in.archive)
    /\ IF in.type = "docx" THEN DocxAccepted(in.document) ELSE EpubAccepted(in.document)

Check(u) ==
    /\ pc[u] = "stored"
    /\ IF Accepted(input[u]) THEN Goto(u, "checked") /\ UNCHANGED files ELSE Discard(u)
    /\ UNCHANGED <<input, parts, books, unanswered>>

\* A document without chapters is refused.
Parse(u) ==
    /\ pc[u] = "checked"
    /\ IF ParsedChapters(input[u]) # <<>> THEN Goto(u, "parsed") /\ UNCHANGED files
       ELSE Discard(u)
    /\ UNCHANGED <<input, parts, books, unanswered>>

\* Book, chapters and segments are flushed: other transactions do not see them.
WriteRows(u) ==
    /\ pc[u] = "parsed"
    /\ Goto(u, "written")
    /\ UNCHANGED <<input, parts, files, books, unanswered>>

\* The parser raises, or the database refuses a row or the commit.
StepFails(u) ==
    /\ pc[u] \in {"checked", "parsed", "written"}
    /\ Discard(u)
    /\ UNCHANGED <<input, parts, books, unanswered>>

\* Faulty variant: the book is committed before its chapters.
CommitBookFirst(u) ==
    /\ pc[u] = "written"
    /\ books' = books \cup {[Book(u) EXCEPT !.chapters = <<>>]}
    /\ Goto(u, "created")
    /\ UNCHANGED <<input, parts, files, unanswered>>

Commit(u) ==
    /\ pc[u] = "written"
    /\ books' = books \cup {Book(u)}
    /\ Goto(u, "created")
    /\ UNCHANGED <<input, parts, files, unanswered>>

\* The commit is done, but its reply does not arrive: it looks like a failure.
CommitUnanswered(u) ==
    /\ pc[u] = "written"
    /\ books' = books \cup {Book(u)}
    /\ unanswered' = unanswered \cup {u}
    /\ Discard(u)
    /\ UNCHANGED <<input, parts>>

\* Faulty variant: the file is removed however the request ends.
CancelDiscarding(u) ==
    /\ pc[u] \in {"checked", "parsed", "written"}
    /\ Discard(u)
    /\ books' \in {books} \cup (IF pc[u] = "written" THEN {books \cup {Book(u)}} ELSE {})
    /\ UNCHANGED <<input, parts, unanswered>>

\* CancelledError is not an Exception: nothing is cleaned up.  At the commit the
\* rows may already be stored.
Cancel(u) ==
    /\ pc[u] \in {"checked", "parsed", "written"}
    /\ Goto(u, "stopped")
    /\ books' \in {books} \cup (IF pc[u] = "written" THEN {books \cup {Book(u)}} ELSE {})
    /\ UNCHANGED <<input, parts, files, unanswered>>

\* The process dies: no request runs on.
Crash ==
    /\ \E u \in Uploads : pc[u] \in Running
    /\ pc' = [u \in Uploads |-> IF pc[u] \in Running THEN "stopped" ELSE pc[u]]
    /\ \E done \in SUBSET {u \in Uploads : pc[u] = "written"} :
         books' = books \cup {Book(u) : u \in done}
    /\ UNCHANGED <<input, parts, files, unanswered>>

\* DELETE of the book: its chapters and segments go with it, its file stays.
DeleteBook(b) ==
    /\ books' = books \ {b}
    /\ UNCHANGED <<pc, input, parts, files, unanswered>>

Handle(u) ==
    \/ Receive(u) \/ Save(u) \/ SaveFails(u) \/ Check(u) \/ Parse(u) \/ WriteRows(u)
    \/ StepFails(u) \/ Commit(u) \/ CommitUnanswered(u) \/ Cancel(u)

Next ==
    \/ \E u \in Uploads : Handle(u)
    \/ Crash
    \/ \E b \in books : DeleteBook(b)

Spec == Init /\ [][Next]_vars

--------------------------------------------------------------------------------
BodyKept(paragraphs) ==
    LET chapters == ParseDocx(paragraphs)
        parsed   == Joined([i \in DOMAIN chapters |-> chapters[i].content])
        body     == {p \in Range(paragraphs) \cup Range(parsed) : HeadingLevel(p) = 0 /\ p.text # <<>>}
    IN Only(body, parsed) = Only(body, paragraphs)

SpineKept(document) ==
    LET spine    == {item \in Range(document) : ~Skipped(item)}
        chapters == ParseEpub(document)
    IN /\ {Key(item) : item \in spine} = {chapters[i].title : i \in DOMAIN chapters}
       /\ \A i, j \in DOMAIN chapters : chapters[i].title = chapters[j].title => i = j
       /\ \A i \in DOMAIN chapters :
            LET items == Only({item \in spine : Key(item) = chapters[i].title}, document)
            IN chapters[i].content = Joined([j \in DOMAIN items |-> items[j].content])

\* Every variable has its type; a book is the book of its upload.
TypeOK ==
    /\ pc \in [Uploads -> Statuses]
    /\ \A u \in Uploads : input[u].type \in {"docx", "epub", "other"}
    /\ parts \subseteq Uploads /\ files \subseteq Uploads /\ unanswered \subseteq Uploads
    /\ books \subseteq {Book(u) : u \in Uploads}

\* A committed book belongs to an upload that was not refused and has its file,
\* whatever failed, was cancelled or crashed on the way; only a commit whose reply
\* was lost leaves a book without one.
BookHasFile ==
    \A b \in books :
        \/ b.upload \in unanswered
        \/ b.upload \in files /\ pc[b.upload] \in {"created", "stopped"}

\* A refused upload leaves no file: one that stays belongs to a request under way, to one that has created its
\* book, or to one that was cancelled or died; a temporary file only to the first
\* and the last.
FilesAccounted ==
    /\ \A u \in files : pc[u] \in Running \cup {"created", "stopped"}
    /\ \A u \in parts : pc[u] \in {"saving", "stopped"}

\* The segments of a book, in their order, hold the words of its chapters, each
\* word once: no cut loses, repeats or reorders one.
WordsKept ==
    \A b \in books :
        LET chapters == ParsedChapters(input[b.upload])
        IN \A i \in DOMAIN chapters :
             Joined(b.chapters[i].segments) = Joined([j \in DOMAIN chapters[i].content |->
                                                  WordsOf(chapters[i].content[j].text)])

\* Every segment of a book has words and is within the hard limit, unless it is a
\* single word that is longer; a book has at least one segment.
SegmentsUsable ==
    \A b \in books :
        /\ \E i \in DOMAIN b.chapters : b.chapters[i].segments # <<>>
        /\ \A i \in DOMAIN b.chapters : \A j \in DOMAIN b.chapters[i].segments :
             LET words == b.chapters[i].segments[j]
             IN Len(words) = 1 \/ Chars(words) \in 1..HardLimit

\* The parsers keep what they read: the body paragraphs of a DOCX in their order,
\* each once, although the introduction is put together apart from the chapters;
\* and of an EPUB one chapter for each title, with the items of that title in their order.
ParsedInOrder ==
    \A u \in Uploads : pc[u] = "created" =>
        IF input[u].type = "docx" THEN BodyKept(input[u].document)
        ELSE SpineKept(input[u].document)
===============================================================================
