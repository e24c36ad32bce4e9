--------------------------- MODULE MCQualityRules ---------------------------
(* An instance of QualityRules for TLC: all texts of up to two tokens, and  *)
(* longer ones for what needs them.                                         *)
EXTENDS QualityRules, SequencesExt

Token(kind, value) == [kind |-> kind, value |-> value]

A == Token("word", "a")
B == Token("word", "boundary")
Five == Token("number", "5")
Name == Token("placeholder", "name")

MCTokens ==
  {A, B, Five, Name, Token("url", "x.org"), Token("heading", "#"), Token("item", "-"),
   Token("code", "run"), Token("control", "bell"), Token("replacement", "?")}

MCLength ==
  [a |-> 1, boundary |-> 8] @@ ("5" :> 1) @@ ("name" :> 4)
  @@ ("x.org" :> 5) @@ ("run" :> 3) @@ ("a@x.org" :> 7)

MCTexts ==
  BoundedSeq(MCTokens, 2)
  \cup {<<Five, Five, A>>, <<B, A, Five>>, <<A, A, A, A, A>>, <<A, A, A, A, B>>,
        <<Token("heading", "##"), B>>, <<Token("email", "a@x.org"), B>>}

(* The default thresholds, one of them through its legacy name. *)
MCGiven == [quality_auto_approve_threshold |-> 85]
=============================================================================
