-------------------------- MODULE MCDocumentIngestion --------------------------
(***************************************************************************)
(* Instances of DocumentIngestion: the documents, and uploads the checks   *)
(* refuse.  Target 6 and hard limit 8: <<3, 2>> fits the target, <<3, 4>>  *)
(* only the limit, <<4, 2, 2>> neither, and 9 is a word beyond the limit.  *)
(***************************************************************************)
EXTENDS DocumentIngestion

CONSTANTS MaxParagraphs, MaxItems   \* bounds of the documents

UpTo(n, set) == UNION {[1..k -> set] : k \in 0..n}

LongText  == <<<<4, 2, 2>>, <<9>>, <<2>>>>
Intro     == <<<<5>>>>
MCTexts   == {Intro, <<<<3, 2>>>>, <<<<3, 4>>, <<1>>>>, LongText}
Paragraph == [style : {0, 1, 2}, bold : {FALSE}, text : MCTexts]
             \cup [style : {0}, bold : {TRUE}, text : {<<<<3, 2>>>>, LongText}]
             \cup {[style |-> 0, bold |-> FALSE, text |-> <<>>]}

Item == {[heading |-> h, nav |-> FALSE, contents |-> c, content |-> <<[text |-> t]>>] :
           h \in {"", "a", "b", Untitled}, c \in BOOLEAN, t \in {<<<<3, 2>>>>, <<<<3, 4>>, <<1>>>>}}
        \cup {[heading |-> "a", nav |-> n, contents |-> FALSE, content |-> <<>>] : n \in BOOLEAN}

File == [dir |-> FALSE, unsafe |-> FALSE, link |-> FALSE, encrypted |-> FALSE, size |-> 2, packed |-> 1]

GoodArchive == [zip |-> TRUE, entries |-> <<File>>]

\* One archive for each reason to refuse it, and those just within the limits.
Archives ==
    {GoodArchive, [zip |-> FALSE, entries |-> <<>>], [zip |-> TRUE, entries |-> <<>>],
     [zip |-> TRUE, entries |-> <<File, File>>], [zip |-> TRUE, entries |-> <<File, File, File>>],
     [zip |-> TRUE, entries |-> <<[File EXCEPT !.size = 4, !.packed = 0], File>>]}
    \cup {[zip |-> TRUE, entries |-> <<e>>] :
            e \in {[File EXCEPT !.unsafe = TRUE], [File EXCEPT !.link = TRUE],
                   [File EXCEPT !.encrypted = TRUE], [File EXCEPT !.size = 3],
                   [File EXCEPT !.dir = TRUE, !.link = TRUE],
                   [File EXCEPT !.dir = TRUE, !.unsafe = TRUE]}}

Upload(type, fits, archive, document) ==
    [type |-> type, fits |-> fits, archive |-> archive, document |-> document]

OneParagraph == <<[style |-> 0, bold |-> FALSE, text |-> Intro]>>

MCInputs ==
    {Upload("docx", TRUE, GoodArchive, d) : d \in UpTo(MaxParagraphs, Paragraph)}
    \cup {Upload("epub", TRUE, GoodArchive, d) : d \in UpTo(MaxItems, Item)}
    \cup {Upload("docx", TRUE, a, OneParagraph) : a \in Archives}
    \cup {Upload("other", TRUE, GoodArchive, <<>>), Upload("docx", FALSE, GoodArchive, OneParagraph)}
===============================================================================
