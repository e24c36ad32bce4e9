---------------------------- MODULE QualityRules ----------------------------
(* One quality check of a segment: the deterministic rules, the optional    *)
(* audit by an AI provider, the overall score and the verdict.  A text is a *)
(* sequence of tokens, each of a kind the rules tell apart; what a mark of  *)
(* Markdown, a control character or a replacement character looks like is   *)
(* left out.  Which segment is checked, what is stored and when, is the     *)
(* subject of SegmentQA.                                                    *)
EXTENDS Integers, Sequences, FiniteSets, Functions

CONSTANTS Texts,               \* the texts a segment may hold
          Length,              \* Length[v]: the normalized characters of a token's value
          Given,               \* the threshold settings that are given explicitly
          DeterministicWeight, \* settings.quality_deterministic_weight, per cent
          AIImpacts            \* what the issues an audit reports may add up to

New == {"quality_pass_threshold", "quality_review_threshold"}
Legacy == {"quality_auto_approve_threshold", "quality_min_score", "quality_failure_threshold"}

Setting(name, otherwise) == IF name \in DOMAIN Given THEN Given[name] ELSE otherwise

(* A legacy setting counts only where neither new one is given. *)
Threshold(name, legacy, default) ==
  IF New \cap DOMAIN Given # {} THEN Setting(name, default) ELSE Setting(legacy, default)
PassThreshold   == Threshold("quality_pass_threshold", "quality_auto_approve_threshold", 85)
ReviewThreshold == Threshold("quality_review_threshold", "quality_min_score", 60)

(* The validators of the settings admit nothing else. *)
ASSUME ThresholdAssumption ==
  /\ DOMAIN Given \subseteq New \cup Legacy
  /\ ReviewThreshold \in 0..100 /\ PassThreshold \in 0..100
  /\ ReviewThreshold < PassThreshold
ASSUME WeightAssumption == DeterministicWeight \in 0..100
ASSUME ImpactAssumption == AIImpacts \subseteq Nat

VARIABLES source, translation, pc, issues, deterministic, audit, overall, status
vars == <<source, translation, pc, issues, deterministic, audit, overall, status>>

-----------------------------------------------------------------------------
(* What the rules see of a text. *)

(* Marks, control and replacement characters do not survive _normalize. *)
Spoken == {"word", "number", "placeholder", "url", "email", "code"}

Of(kinds, t) == SelectSeq(t, LAMBDA token : token.kind \in kinds)
Values(kind, t) == {t[i].value : i \in {j \in DOMAIN t : t[j].kind = kind}}
Words(t) == [i \in DOMAIN Of(Spoken, t) |-> Of(Spoken, t)[i].value]
Count(kind, v, t) == Cardinality({i \in DOMAIN t : t[i].kind = kind /\ t[i].value = v})
Blank(t) == t = << >>

(* Characters of the normalized text, one space between two words. *)
Normalized(t) ==
  LET words == Words(t)
  IN SumFunction([i \in DOMAIN words |-> Length[words[i]] + 1]) - 1

(* The vocabulary without placeholders. *)
Vocabulary(t) == UNION {Values(kind, t) : kind \in Spoken \ {"placeholder"}}

-----------------------------------------------------------------------------
(* The rules.  s is the source, t its translation.                          *)

Untranslated(s, t) == Words(s) = Words(t)

SourceOverlap(s, t) ==
  /\ Vocabulary(s) # {} /\ Vocabulary(t) # {} /\ ~Untranslated(s, t)
  /\ 4 * Cardinality(Vocabulary(s) \cap Vocabulary(t)) >= 3 * Cardinality(Vocabulary(s))

TooShort(s, t) ==
  Words(s) # << >> /\ Words(t) # << >> /\ 5 * Normalized(t) < Normalized(s)
TooLong(s, t) ==
  Words(s) # << >> /\ Words(t) # << >> /\ Normalized(t) > 4 * Normalized(s)

\* Faulty variant: numbers are compared as sets.
MissingAsSet(s, t) == Values("number", s) \ Values("number", t)
(* The numbers t has fewer times than s. *)
Missing(s, t) ==
  {v \in Values("number", s) : Count("number", v, t) < Count("number", v, s)}

LostNumbers(s, t)  == Missing(s, t) # {}
AddedNumbers(s, t) == Missing(t, s) # {}

PlaceholdersDiffer(s, t) == Values("placeholder", s) # Values("placeholder", t)
UrlsDiffer(s, t)         == Values("url", s) # Values("url", t)
EmailsDiffer(s, t)       == Values("email", s) # Values("email", t)
HeadingsDiffer(s, t)     == Of({"heading"}, s) # Of({"heading"}, t)
ListsDiffer(s, t)        == Len(Of({"item"}, s)) # Len(Of({"item"}, t))
CodeDiffers(s, t)        == Values("code", s) # Values("code", t)
ControlCharacters(t)     == \E i \in DOMAIN t : t[i].kind = "control"
ReplacementCharacter(t)  == \E i \in DOMAIN t : t[i].kind = "replacement"

(* The same word five times running. *)
Repetition(t) ==
  LET words == Words(t)
  IN \E i \in 1..(Len(words) - 4) : \A j \in 1..4 : words[i + j] = words[i]

(* The issues of a translation that is not blank. *)
Found(s, t) ==
  [missing_source_text       |-> Blank(s),
   untranslated_text         |-> Untranslated(s, t),
   source_overlap            |-> SourceOverlap(s, t),
   translation_too_short     |-> TooShort(s, t),
   translation_too_long      |-> TooLong(s, t),
   lost_numbers              |-> LostNumbers(s, t),
   added_numbers             |-> AddedNumbers(s, t),
   placeholder_mismatch      |-> PlaceholdersDiffer(s, t),
   url_mismatch              |-> UrlsDiffer(s, t),
   email_mismatch            |-> EmailsDiffer(s, t),
   markdown_heading_mismatch |-> HeadingsDiffer(s, t),
   markdown_list_mismatch    |-> ListsDiffer(s, t),
   inline_code_mismatch      |-> CodeDiffers(s, t),
   control_characters        |-> ControlCharacters(t),
   excessive_repetition      |-> Repetition(t),
   encoding_issue            |-> ReplacementCharacter(t)]

Issues(s, t) == LET found == Found(s, t) IN {code \in DOMAIN found : found[code]}

Impact ==
  [missing_source_text |-> 30, untranslated_text |-> 75, source_overlap |-> 20,
   translation_too_short |-> 25, translation_too_long |-> 15, lost_numbers |-> 20,
   added_numbers |-> 10, placeholder_mismatch |-> 25, url_mismatch |-> 15, email_mismatch |-> 15,
   markdown_heading_mismatch |-> 10, markdown_list_mismatch |-> 10, inline_code_mismatch |-> 15,
   control_characters |-> 10, excessive_repetition |-> 10, encoding_issue |-> 10]

\* Faulty variant: a score below zero.
ScoreUnclamped(impact) == 100 - impact
Score(impact) == IF impact > 100 THEN 0 ELSE 100 - impact

Verdict(score) ==
  IF score >= PassThreshold THEN "passed"
  ELSE IF score >= ReviewThreshold THEN "needs_review" ELSE "failed"

-----------------------------------------------------------------------------
(* The audit.  The provider asked is the segment's model_used, a model's    *)
(* name unless it is "deepl" or nothing was translated yet; only without it *)
(* is it the default provider.                                              *)
Asked(modelUsed, default) == IF modelUsed = "none" THEN default ELSE modelUsed

Error(code) == [end |-> "error", code |-> code]
Raised == [end |-> "raised"]
Answer(impact) == [end |-> "answer", impact |-> impact]
NoAudit == [end |-> "none"]

(* How an audit by OpenAI may end: a reply out of time or that is not the   *)
(* JSON asked for is an error of the evaluator, an error of the SDK is not  *)
(* caught.                                                                  *)
OpenAIAudit(keyed) ==
  IF keyed THEN {Answer(i) : i \in AIImpacts} \cup {Raised}
                \cup {Error("quality_ai_timeout_error"), Error("quality_ai_malformed_response")}
  ELSE {Raised, Error("quality_ai_provider_error")}

(* DeepL has no client; Anthropic's has no chat.completions. *)
Audits(provider, keyed) ==
  CASE provider = "openai" -> OpenAIAudit(keyed)
    [] provider = "anthropic" -> IF keyed THEN {Raised} ELSE {Error("quality_ai_provider_error")}
    [] provider = "deepl" -> {Error("quality_ai_unsupported_provider")}
    [] OTHER -> {Error("quality_ai_provider_error")}

(* round() of a number of hundredths: halves go to the even neighbour. *)
Rounded(n) ==
  LET q == n \div 100
      r == n % 100
  IN IF r > 50 \/ (r = 50 /\ q % 2 = 1) THEN q + 1 ELSE q

\* Faulty variant: the weights are swapped.
OverallSwapped(rules, ai) == Rounded((100 - DeterministicWeight) * rules + DeterministicWeight * ai)
Overall(rules, ai) == Rounded(DeterministicWeight * rules + (100 - DeterministicWeight) * ai)

-----------------------------------------------------------------------------
Init ==
  /\ source \in Texts /\ translation \in Texts
  /\ pc = "new" /\ issues = {} /\ deterministic = 0 /\ audit = NoAudit
  /\ overall = 0 /\ status = "none"

(* A segment without a translation is not checked. *)
Refuse ==
  /\ pc = "new" /\ Blank(translation)
  /\ pc' = "refused"
  /\ UNCHANGED <<source, translation, issues, deterministic, audit, overall, status>>

Evaluate ==
  /\ pc = "new" /\ ~Blank(translation)
  /\ issues' = Issues(source, translation)
  /\ deterministic' = Score(SumFunctionOnSet(Impact, issues'))
  /\ pc' = "evaluated"
  /\ UNCHANGED <<source, translation, audit, overall, status>>

Conclude(score, verdict) == pc' = "reported" /\ overall' = score /\ status' = verdict

(* Mode "deterministic", or the audit is disabled. *)
WithoutAudit ==
  /\ pc = "evaluated"
  /\ Conclude(deterministic, Verdict(deterministic))
  /\ UNCHANGED <<source, translation, issues, deterministic, audit>>

(* Mode "full" with the audit enabled.  When it fails, the score of the     *)
(* rules stays and the verdict is needs_review; an error of the SDK ends    *)
(* the request and no report is made.                                       *)
WithAudit ==
  /\ pc = "evaluated"
  /\ \E modelUsed \in {"none", "deepl", "a model"}, default \in {"openai", "anthropic", "deepl"},
        keyed \in BOOLEAN :
       audit' \in Audits(Asked(modelUsed, default), keyed)
  /\ \/ /\ audit'.end = "answer"
        /\ LET score == Overall(deterministic, Score(audit'.impact))
           IN Conclude(score, Verdict(score))
     \/ audit'.end = "error" /\ Conclude(deterministic, "needs_review")
     \/ audit'.end = "raised" /\ pc' = "raised" /\ UNCHANGED <<overall, status>>
  /\ UNCHANGED <<source, translation, issues, deterministic>>

Next == Refuse \/ Evaluate \/ WithoutAudit \/ WithAudit

Spec == Init /\ [][Next]_vars

-----------------------------------------------------------------------------
TypeOK ==
  /\ source \in Texts /\ translation \in Texts
  /\ pc \in {"new", "refused", "evaluated", "reported", "raised"}
  /\ issues \subseteq DOMAIN Impact
  /\ deterministic \in 0..100 /\ overall \in 0..100
  /\ audit.end \in {"none", "answer", "error", "raised"}
  /\ status \in {"none", "passed", "needs_review", "failed"}

(* What the translation must carry over: every number as often as in the    *)
(* source, the same placeholders, and other words.                          *)
Lossy ==
  \/ \E i \in DOMAIN source : source[i].kind = "number"
        /\ Count("number", source[i].value, translation) < Count("number", source[i].value, source)
  \/ Values("placeholder", source) # Values("placeholder", translation)
  \/ Words(source) = Words(translation)

(* A translation that lost a number, changed a placeholder or copies the    *)
(* source is never passed, whatever an audit says of it: with the default   *)
(* weights one such issue keeps the score below the threshold, and the best *)
(* audit cannot lift it there.                                              *)
LossNeverPasses == status = "passed" => ~Lossy

(* An audit moves the score by its weight at most, it never makes a text    *)
(* pass that the rules alone do not, and one that failed passes nothing.    *)
AuditWithinShare ==
  pc = "reported" =>
    /\ overall - deterministic \in (DeterministicWeight - 100)..(100 - DeterministicWeight)
    /\ status = "passed" => Verdict(deterministic) = "passed" /\ audit.end # "error"
=============================================================================
