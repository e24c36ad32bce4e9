------------------------------ MODULE MCSegmentQA ------------------------------
(***************************************************************************)
(* Instances of SegmentQA for TLC.                                         *)
(***************************************************************************)
EXTENDS SegmentQA, Naturals, FiniteSets, TLC

\* Payloads that send at most two of the four columns.
SmallPayloads == {f \in Fields : Cardinality({c \in DOMAIN f : f[c] # Keep}) <= 2}

\* Sessions, sources and texts are interchangeable; the initial row holds any
\* source.
Symmetric ==
    Permutations(Sessions) \cup Permutations(Sources) \cup Permutations(Texts)
================================================================================
