----------------------------- MODULE SegmentSlots -----------------------------
(***************************************************************************)
(* What the partial unique index uq_translation_jobs_active_segment        *)
(* promises (README.md:31): a segment is a slot that at most one job       *)
(* occupies, and it passes from one job to another only by being vacated   *)
(* first.  A job that gave the slot up may take it again, which is what a  *)
(* redelivered job does.                                                   *)
(***************************************************************************)
CONSTANTS Segments,      \* the slots
          Jobs           \* what may occupy them

VARIABLE holders         \* holders[s]: the jobs that occupy slot s

Init == holders = [s \in Segments |-> {}]

\* Job j takes the empty slot s.
Acquire(s, j) ==
    /\ holders[s] = {}
    /\ holders' = [holders EXCEPT ![s] = {j}]

\* The slots in S are vacated: one when its job settles, several when a chapter
\* or a book is deleted with its segments.
Release(S) ==
    holders' = [s \in Segments |-> IF s \in S THEN {} ELSE holders[s]]

Next == \/ \E s \in Segments, j \in Jobs : Acquire(s, j)
        \/ \E S \in SUBSET Segments : Release(S)

Spec == Init /\ [][Next]_holders
===============================================================================
