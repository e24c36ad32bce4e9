------------------------ MODULE MCTranslationPipeline ------------------------
(***************************************************************************)
(* Instances of TranslationPipeline for TLC.                               *)
(***************************************************************************)
EXTENDS TranslationPipeline, TLC

\* Segments and workers are interchangeable in the safety runs.
Symmetric == Permutations(Segments) \cup Permutations(Workers)
===============================================================================
