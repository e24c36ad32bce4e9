------------------------------ MODULE DocumentText ------------------------------
(***************************************************************************)
(* From an uploaded file to chapters and segments: the archive checks, the *)
(* two parsers and the segmenter, as functions.                            *)
(*                                                                         *)
(* A word is its number of characters, a sentence a sequence of words and  *)
(* a text a sequence of sentences; words are separated by one space.  A    *)
(* paragraph is a record with its text; a chapter has paragraphs.          *)
(***************************************************************************)
EXTENDS Integers, SequencesExt

CONSTANTS
    Target,           \* segment_target_chars
    HardLimit,        \* segment_hard_limit_chars
    MaxEntries,       \* max_archive_entries
    MaxUncompressed,  \* max_archive_uncompressed_mb
    MaxRatio,         \* max_archive_compression_ratio
    BoldWords,        \* a bold paragraph with more words is no heading
    Introduction      \* the text "Introduction"

ASSUME LimitsAssumption ==
    /\ Target \in Nat /\ HardLimit \in Nat
    /\ MaxEntries \in Nat /\ MaxUncompressed \in Nat /\ MaxRatio \in Nat

--------------------------------------------------------------------------------
(* What a file may hold once it is read: a blank line is no paragraph of an item. *)

Words      == Nat \ {0}
Sentences  == Seq(Words) \ {<<>>}
Texts      == Seq(Sentences)
Paragraphs == [style : Nat, bold : BOOLEAN, text : Texts]
Items      == [heading : STRING, nav : BOOLEAN, contents : BOOLEAN,
               content : Seq([text : Texts \ {<<>>}])]

\* The elements of seq that belong to kept.
Only(kept, seq) == FoldLeft(LAMBDA s, x : IF x \in kept THEN Append(s, x) ELSE s, <<>>, seq)

--------------------------------------------------------------------------------
(* Archive: a sequence of entries, or no archive at all *)

Sum(numbers) == FoldLeft(LAMBDA a, b : a + b, 0, numbers)

EntryAccepted(e) ==
    /\ ~e.unsafe
    /\ e.dir \/ /\ ~e.link /\ ~e.encrypted
                /\ e.size > 0 /\ e.packed > 0 => e.size <= MaxRatio * e.packed

\* validate_zip_archive
ArchiveAccepted(archive) ==
    /\ archive.zip
    /\ Len(archive.entries) \in 1..MaxEntries
    /\ \A i \in DOMAIN archive.entries : EntryAccepted(archive.entries[i])
    /\ Sum([i \in DOMAIN archive.entries |->
              IF archive.entries[i].dir THEN 0 ELSE archive.entries[i].size]) <= MaxUncompressed

--------------------------------------------------------------------------------
(* DOCX: a sequence of paragraphs with a style, a bold run or not, and a text *)

Joined(sequences) == FlattenSeq(sequences)

WordsOf(text) == Joined(text)

HeadingLevel(p) ==
    IF p.style # 0 THEN p.style
    ELSE IF p.bold /\ Len(WordsOf(p.text)) <= BoldWords THEN 1 ELSE 0

\* Faulty variant: the content stays for the next chapter.
NextChapterKeeping(st, title) ==
    [st EXCEPT !.chapters = IF st.content = <<>> THEN @
                            ELSE Append(@, [title |-> st.title, content |-> st.content]),
               !.title = title]

\* flush_chapter, and the next title
NextChapter(st, title) ==
    [st EXCEPT !.chapters = IF st.content = <<>> THEN @
                            ELSE Append(@, [title |-> st.title, content |-> st.content]),
               !.title = title, !.content = <<>>]

\* A lower heading starts a chapter only where there is something to end; before
\* that it joins the introduction, however far down it stands.
DocxStep(st, p) ==
    LET level == HeadingLevel(p)
        open  == st.content # <<>> /\ st.title # Introduction
        front == IF level = 0 THEN st.chapters = <<>> /\ st.title = Introduction ELSE ~open
    IN IF p.text = <<>> THEN st
       ELSE IF level = 1 \/ (level > 1 /\ open) THEN NextChapter(st, p.text)
       ELSE IF front THEN [st EXCEPT !.intro = Append(@, p)]
       ELSE [st EXCEPT !.content = Append(@, p)]

\* DocxParser: the introduction goes to the front of the first chapter; a
\* document of nothing but headings is one chapter.
ParseDocx(paragraphs) ==
    LET start    == [chapters |-> <<>>, intro |-> <<>>, title |-> Introduction, content |-> <<>>]
        end      == FoldLeft(DocxStep, start, paragraphs)
        chapters == NextChapter(end, Introduction).chapters
        rest     == IF end.intro # <<>> THEN end.intro
                    ELSE Only({p \in Range(paragraphs) : p.text # <<>>}, paragraphs)
    IN IF chapters = <<>> THEN <<[title |-> Introduction, content |-> rest]>>
       ELSE [chapters EXCEPT ![1].content = end.intro \o @]

DocxAccepted(paragraphs) == \E i \in DOMAIN paragraphs : paragraphs[i].text # <<>>

--------------------------------------------------------------------------------
(* EPUB: the spine, a sequence of items with a heading or none *)

Untitled == "untitled"

Key(item) == IF item.heading = "" THEN Untitled ELSE item.heading

\* Navigation, items without text and headless tables of contents.
Skipped(item) ==
    \/ item.nav
    \/ item.content = <<>>
    \/ item.heading = "" /\ item.contents

\* Faulty variant: an item whose title was seen is taken for a duplicate.
EpubStepOnce(chapters, item) ==
    IF Skipped(item) \/ \E i \in DOMAIN chapters : chapters[i].title = Key(item) THEN chapters
    ELSE Append(chapters, [title |-> Key(item), content |-> item.content])

\* An item joins the chapter that has its title.
EpubStep(chapters, item) ==
    IF Skipped(item) THEN chapters
    ELSE IF \E i \in DOMAIN chapters : chapters[i].title = Key(item)
    THEN [i \in DOMAIN chapters |->
            IF chapters[i].title = Key(item)
            THEN [chapters[i] EXCEPT !.content = @ \o item.content] ELSE chapters[i]]
    ELSE Append(chapters, [title |-> Key(item), content |-> item.content])

\* EpubParser
ParseEpub(spine) == FoldLeft(EpubStep, <<>>, spine)

\* _validate_epub_file: some item that is not navigation has markup.
EpubAccepted(spine) == \E i \in DOMAIN spine : ~spine[i].nav

--------------------------------------------------------------------------------
(* Segmenter *)

Chars(words) == IF words = <<>> THEN 0 ELSE Sum(words) + Len(words) - 1

\* Faulty variant: the space before a word that is added is not counted.
FitsNoSpace(words, more, limit) == Sum(words) + Sum(more) <= limit

\* The candidate still has room for more words.
Fits(words, more, limit) == Chars(words \o more) <= limit

Close(st) == IF st.current = <<>> THEN st.chunks ELSE Append(st.chunks, st.current)

Empty == [chunks |-> <<>>, current |-> <<>>]

AddWord(st, word) ==
    IF Fits(st.current, <<word>>, HardLimit) THEN [st EXCEPT !.current = Append(@, word)]
    ELSE [chunks |-> Close(st), current |-> <<word>>]

\* Faulty variant: what is left at the end is forgotten.
SplitWordsCut(words) == FoldLeft(AddWord, Empty, words).chunks

\* _split_long_sentence, _split_word_run: as many words as fit; a word that is
\* too long stays whole.
SplitWords(words) ==
    IF Chars(words) <= HardLimit THEN <<words>> ELSE Close(FoldLeft(AddWord, Empty, words))

\* A sentence that does not fit begins a chunk; one beyond the limit is split.
AddSentence(st, sentence) ==
    IF Fits(st.current, sentence, Target) THEN [st EXCEPT !.current = @ \o sentence]
    ELSE IF Chars(sentence) <= HardLimit THEN [chunks |-> Close(st), current |-> sentence]
    ELSE [chunks |-> Close(st) \o SplitWords(sentence), current |-> <<>>]

\* _segment_paragraph
SegmentParagraph(text) ==
    IF Chars(WordsOf(text)) <= Target THEN SplitWords(WordsOf(text))
    ELSE LET chunks == Close(FoldLeft(AddSentence, Empty, text))
         IN Joined([i \in DOMAIN chunks |-> SplitWords(chunks[i])])

Segments(content) == Joined([i \in DOMAIN content |-> SegmentParagraph(content[i].text)])
===============================================================================
