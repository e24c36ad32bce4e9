--------------------------- MODULE QualityRulesProofs ---------------------------
(* Proofs about QualityRules, for every set of texts, every length of a     *)
(* token and every impact an audit may report.  What a loss costs and what  *)
(* an audit can add depend on the settings: the two theorems about verdicts *)
(* name the condition on them, and the defaults are shown to meet it.       *)
EXTENDS QualityRules, FiniteSums

(* The scores the rules can give: every weight is a multiple of 5.          *)
RuleScores == {5 * k : k \in 0..20}

(* The lightest of the three losses, lost_numbers, costs 20 points.  The    *)
(* best audit must not lift what is left to the threshold.                  *)
LossOutweighsAudit == Overall(80, 100) < PassThreshold

(* No score of the rules below the threshold is lifted to it.               *)
AuditLiftsNothing == \A d \in RuleScores : d < PassThreshold => Overall(d, 100) < PassThreshold

(* quality_deterministic_weight and the threshold when nothing is set.      *)
DefaultSettings == DeterministicWeight = 80 /\ PassThreshold = 85

-----------------------------------------------------------------------------
(* Rounding and mixing *)

(* A rounded number of hundredths stays on its side of every whole number.  *)
LEMMA RoundedBounds ==
  ASSUME NEW n \in Nat
  PROVE  /\ Rounded(n) \in Nat
         /\ \A m \in Int : n <= 100 * m => Rounded(n) <= m
         /\ \A m \in Int : n >= 100 * m => Rounded(n) >= m
<1> DEFINE q == n \div 100
           r == n % 100
<1>1. q \in Nat /\ r \in 0..99 /\ n = 100 * q + r
  OBVIOUS
<1>2. Rounded(n) = IF r > 50 \/ (r = 50 /\ q % 2 = 1) THEN q + 1 ELSE q
  BY DEF Rounded
<1> HIDE DEF q, r
<1>3. Rounded(n) \in {q, q + 1} /\ (r = 0 => Rounded(n) = q)
  BY <1>1, <1>2
<1> QED
  BY <1>1, <1>3

(* Rounding keeps the order.                                                *)
LEMMA RoundedMonotone ==
  ASSUME NEW n \in Nat, NEW k \in Nat, n <= k
  PROVE  Rounded(n) <= Rounded(k)
<1> DEFINE q == n \div 100
           r == n % 100
           u == k \div 100
           v == k % 100
<1>1. q \in Nat /\ r \in 0..99 /\ n = 100 * q + r
  OBVIOUS
<1>2. u \in Nat /\ v \in 0..99 /\ k = 100 * u + v
  OBVIOUS
<1>3. Rounded(n) = IF r > 50 \/ (r = 50 /\ q % 2 = 1) THEN q + 1 ELSE q
  BY DEF Rounded
<1>4. Rounded(k) = IF v > 50 \/ (v = 50 /\ u % 2 = 1) THEN u + 1 ELSE u
  BY DEF Rounded
<1> HIDE DEF q, r, u, v
<1>5. q < u \/ (q = u /\ r <= v)
  BY <1>1, <1>2
<1>6. CASE q < u
  BY <1>1, <1>2, <1>3, <1>4, <1>6
<1>7. CASE q = u /\ r <= v
  BY <1>1, <1>2, <1>3, <1>4, <1>7
<1> QED
  BY <1>5, <1>6, <1>7

(* A product of natural numbers is one, and it grows with its factors.      *)
LEMMA Products ==
  \A c, x, y \in Nat : c * x \in Nat /\ (x <= y => c * x <= c * y)
<1>1. \A c, x \in Nat : c * x \in Nat
  OBVIOUS
<1>2. ASSUME NEW c \in Nat, NEW x \in Nat, NEW y \in Nat, x <= y PROVE c * x <= c * y
  <2>1. PICK d \in Nat : y = x + d
    <3>1. y - x \in Nat /\ y = x + (y - x)
      BY <1>2
    <3> QED
      BY <3>1
  <2>2. c * y = c * x + c * d
    BY <2>1
  <2> QED
    BY <1>1, <2>2
<1> QED
  BY <1>1, <1>2

(* The overall score keeps the order of the scores it is mixed of.          *)
LEMMA OverallMonotone ==
  ASSUME NEW d \in 0..100, NEW e \in 0..100, NEW a \in 0..100, NEW b \in 0..100, d <= e, a <= b
  PROVE  Overall(d, a) <= Overall(e, b)
<1> DEFINE W == DeterministicWeight
           V == 100 - DeterministicWeight
<1>1. W \in Nat /\ V \in Nat
  BY WeightAssumption
<1> HIDE DEF W, V
<1>2. W * d \in Nat /\ W * e \in Nat /\ V * a \in Nat /\ V * b \in Nat
  BY <1>1, Products
<1>3. W * d <= W * e /\ V * a <= V * b
  BY <1>1, Products
<1>4. Rounded(W * d + V * a) <= Rounded(W * e + V * b)
  BY <1>2, <1>3, RoundedMonotone
<1> QED
  BY <1>4 DEF Overall, W, V

(* The overall score differs from the rules' by the audit's weight at most. *)
LEMMA OverallWithinShare ==
  ASSUME NEW d \in 0..100, NEW a \in 0..100
  PROVE  /\ Overall(d, a) \in 0..100
         /\ Overall(d, a) - d \in (DeterministicWeight - 100)..(100 - DeterministicWeight)
<1> DEFINE W == DeterministicWeight
           V == 100 - DeterministicWeight
           n == W * d + V * a
<1>1. W \in Nat /\ V \in Nat /\ W + V = 100
  BY WeightAssumption
<1>2. Overall(d, a) = Rounded(n)
  BY DEF Overall
<1>3. DeterministicWeight - 100 = -V
  BY WeightAssumption
<1> HIDE DEF W, V
<1>4. W * d \in Nat /\ V * a \in Nat /\ V * d \in Nat
  BY <1>1, Products
<1>5. V * a <= V * 100 /\ V * d <= V * 100 /\ W * d <= W * 100
  BY <1>1, Products
<1>6. W * d + V * d = 100 * d
  <2>1. W = 100 - V
    BY <1>1
  <2> QED
    BY <1>1, <2>1
<1>7. n \in Nat /\ n <= 100 * 100 /\ n <= 100 * (d + V) /\ n >= 100 * (d - V)
  BY <1>1, <1>4, <1>5, <1>6
<1> HIDE DEF n
<1>8. /\ Rounded(n) \in Nat /\ Rounded(n) <= 100
      /\ Rounded(n) <= d + V /\ Rounded(n) >= d - V
  BY <1>1, <1>7, RoundedBounds
<1>9. Overall(d, a) - d \in (-V)..V
  BY <1>1, <1>2, <1>8
<1> QED
  BY <1>2, <1>3, <1>8, <1>9 DEF V

(* A mix with a perfect audit is the best one.                              *)
LEMMA BestAudit ==
  ASSUME NEW d \in 0..100, NEW e \in 0..100, NEW a \in 0..100, d <= e
  PROVE  /\ Overall(d, a) \in 0..100 /\ Overall(e, 100) \in 0..100
         /\ Overall(d, a) <= Overall(e, 100)
<1>1. PICK b \in 0..100 : b = 100
  OBVIOUS
<1>2. a <= b
  BY <1>1
<1>3. Overall(d, a) <= Overall(e, b)
  BY <1>2, OverallMonotone
<1>4. Overall(d, a) \in 0..100 /\ Overall(e, b) \in 0..100
  BY OverallWithinShare
<1> QED
  BY <1>1, <1>3, <1>4

(* The defaults meet both conditions.                                       *)
LEMMA DefaultsMeetConditions ==
  DefaultSettings => LossOutweighsAudit /\ AuditLiftsNothing
<1>1. SUFFICES ASSUME DefaultSettings PROVE LossOutweighsAudit /\ AuditLiftsNothing
  OBVIOUS
<1>2. \A d \in 0..100 : Overall(d, 100) = Rounded(80 * d + 2000)
  BY <1>1 DEF DefaultSettings, Overall
<1>3. \A d \in 0..100 : d <= 80 => Overall(d, 100) <= 84
  <2>1. SUFFICES ASSUME NEW d \in 0..100, d <= 80 PROVE Overall(d, 100) <= 84
    OBVIOUS
  <2> DEFINE n == 80 * d + 2000
  <2>2. n \in Nat /\ n <= 100 * 84
    BY <2>1
  <2>3. Overall(d, 100) = Rounded(n)
    BY <1>2
  <2> HIDE DEF n
  <2>4. Rounded(n) <= 84
    BY <2>2, RoundedBounds
  <2> QED
    BY <2>3, <2>4
<1>4. \A d \in 0..100 : Overall(d, 100) \in Int
  <2>1. 100 \in 0..100 /\ 0..100 \subseteq Int
    OBVIOUS
  <2>2. \A d \in 0..100 : Overall(d, 100) \in 0..100
    BY <2>1, OverallWithinShare
  <2> QED
    BY <2>1, <2>2
<1>5. LossOutweighsAudit
  BY <1>1, <1>3, <1>4 DEF DefaultSettings, LossOutweighsAudit
<1>6. ASSUME NEW d \in RuleScores, d < PassThreshold PROVE Overall(d, 100) < PassThreshold
  <2>1. PICK k \in 0..20 : d = 5 * k
    BY <1>6 DEF RuleScores
  <2>2. d \in 0..100 /\ d <= 80
    BY <1>1, <1>6, <2>1 DEF DefaultSettings
  <2> QED
    BY <1>1, <1>3, <1>4, <2>2 DEF DefaultSettings
<1> QED
  BY <1>5, <1>6 DEF AuditLiftsNothing

-----------------------------------------------------------------------------
(* The score of the rules *)

(* The weight of every issue is a multiple of 5.                            *)
LEMMA ImpactsAreMultiples ==
  \A code \in DOMAIN Impact : \E m \in Nat : Impact[code] = 5 * m
<1>1. \A code \in DOMAIN Impact : Impact[code] \in {5 * 2, 5 * 3, 5 * 4, 5 * 5, 5 * 6, 5 * 15}
  BY DEF Impact
<1> QED
  BY <1>1

(* There are finitely many issues.                                          *)
LEMMA ImpactsAreFinite ==
  ASSUME NEW S \in SUBSET DOMAIN Impact
  PROVE  IsFiniteSet(S)
<1> DEFINE A == {"missing_source_text"} \cup {"untranslated_text"} \cup {"source_overlap"}
                \cup {"translation_too_short"} \cup {"translation_too_long"} \cup {"lost_numbers"}
           B == {"added_numbers"} \cup {"placeholder_mismatch"} \cup {"url_mismatch"}
                \cup {"email_mismatch"} \cup {"markdown_heading_mismatch"}
           C == {"markdown_list_mismatch"} \cup {"inline_code_mismatch"}
                \cup {"control_characters"} \cup {"excessive_repetition"} \cup {"encoding_issue"}
<1>1. DOMAIN Impact = A \cup B \cup C
  BY DEF Impact
<1>2. \A P, Q : IsFiniteSet(P) /\ IsFiniteSet(Q) => IsFiniteSet(P \cup Q)
  BY FS_Union
<1>3. \A x : IsFiniteSet({x})
  BY FS_Singleton
<1>4. IsFiniteSet(A) /\ IsFiniteSet(B) /\ IsFiniteSet(C)
  BY <1>2, <1>3, Zenon
<1> HIDE DEF A, B, C
<1>5. IsFiniteSet(DOMAIN Impact)
  BY <1>1, <1>2, <1>4
<1> QED
  BY <1>5, FS_Subset

(* Whatever the issues, the score is one of RuleScores.                     *)
LEMMA ScoreOfRules ==
  ASSUME NEW S \in SUBSET DOMAIN Impact
  PROVE  Score(SumFunctionOnSet(Impact, S)) \in RuleScores
<1> DEFINE sum == SumFunctionOnSet(Impact, S)
<1>1. IsFiniteSet(S) /\ \A code \in S : \E m \in Nat : Impact[code] = 5 * m
  BY ImpactsAreFinite, ImpactsAreMultiples
<1>2. \E m \in Nat : sum = 5 * m
  <2>1. PICK k \in Nat : k = 5
    OBVIOUS
  <2>2. \A code \in S : \E m \in Nat : Impact[code] = k * m
    BY <1>1, <2>1
  <2>3. \E m \in Nat : sum = k * m
    BY <1>1, <2>2, SumOfMultiples
  <2> QED
    BY <2>1, <2>3
<1> SUFFICES Score(sum) \in RuleScores
  OBVIOUS
<1> HIDE DEF sum
<1>3. PICK m \in Nat : sum = 5 * m
  BY <1>2
<1>4. CASE sum > 100
  <2>1. Score(sum) = 5 * 0
    BY <1>4 DEF Score
  <2> QED
    BY <2>1 DEF RuleScores
<1>5. CASE ~(sum > 100)
  <2>1. PICK k \in 0..20 : k = 20 - m
    BY <1>3, <1>5
  <2>2. Score(sum) = 5 * k
    BY <1>3, <1>5, <2>1 DEF Score
  <2> QED
    BY <2>2 DEF RuleScores
<1> QED
  BY <1>4, <1>5

(* One issue found costs at least its weight.                               *)
LEMMA IssueLowersScore ==
  ASSUME NEW S \in SUBSET DOMAIN Impact, NEW code \in S
  PROVE  Score(SumFunctionOnSet(Impact, S)) <= Score(Impact[code])
<1> DEFINE sum == SumFunctionOnSet(Impact, S)
           rest == SumFunctionOnSet(Impact, S \ {code})
<1>1. IsFiniteSet(S) /\ IsFiniteSet(S \ {code})
  BY ImpactsAreFinite
<1>2. \A c \in DOMAIN Impact : Impact[c] \in Nat
  BY ImpactsAreMultiples
<1>3. sum = Impact[code] + rest /\ rest \in Nat
  BY <1>1, <1>2, SumOfFiniteSet
<1>4. Impact[code] \in Nat
  BY <1>2
<1> HIDE DEF sum, rest
<1> QED
  BY <1>3, <1>4 DEF Score, sum

(* The score of an audit's issues.                                          *)
LEMMA ScoreOfAudit ==
  ASSUME NEW impact \in Nat
  PROVE  Score(impact) \in 0..100
BY DEF Score

(* A loss costs at least 20 points.                                         *)
LEMMA LossCosts ==
  ASSUME Lossy
  PROVE  Score(SumFunctionOnSet(Impact, Issues(source, translation))) <= 80
<1> DEFINE S == Issues(source, translation)
<1>1. S \in SUBSET DOMAIN Impact
  BY DEF Issues, Found, Impact
<1>2. \/ "lost_numbers" \in S \/ "placeholder_mismatch" \in S
      \/ "untranslated_text" \in S
  <2>1. CASE \E i \in DOMAIN source : source[i].kind = "number"
               /\ Count("number", source[i].value, translation) < Count("number", source[i].value, source)
    <3>1. PICK i \in DOMAIN source : source[i].kind = "number"
               /\ Count("number", source[i].value, translation) < Count("number", source[i].value, source)
      BY <2>1
    <3>2. source[i].value \in Missing(source, translation)
      BY <3>1 DEF Missing, Values
    <3>3. LostNumbers(source, translation)
      BY <3>2 DEF LostNumbers
    <3> QED
      BY <3>3 DEF Issues, Found
  <2>2. CASE Values("placeholder", source) # Values("placeholder", translation)
    <3>1. PlaceholdersDiffer(source, translation)
      BY <2>2 DEF PlaceholdersDiffer
    <3> QED
      BY <3>1 DEF Issues, Found
  <2>3. CASE Words(source) = Words(translation)
    <3>1. Untranslated(source, translation)
      BY <2>3 DEF Untranslated
    <3> QED
      BY <3>1 DEF Issues, Found
  <2> QED
    BY <2>1, <2>2, <2>3 DEF Lossy
<1>3. /\ Score(Impact["lost_numbers"]) = 80 /\ Score(Impact["placeholder_mismatch"]) = 75
      /\ Score(Impact["untranslated_text"]) = 25
  BY DEF Score, Impact
<1>4. Score(SumFunctionOnSet(Impact, S)) \in Int
  BY <1>1, ScoreOfRules DEF RuleScores
<1> HIDE DEF S
<1>5. \E code \in S : Score(SumFunctionOnSet(Impact, S)) <= Score(Impact[code]) /\ Score(Impact[code]) \in {25, 75, 80}
  <2>1. CASE "lost_numbers" \in S
    BY <1>1, <1>3, <2>1, IssueLowersScore
  <2>2. CASE "placeholder_mismatch" \in S
    BY <1>1, <1>3, <2>2, IssueLowersScore
  <2>3. CASE "untranslated_text" \in S
    BY <1>1, <1>3, <2>3, IssueLowersScore
  <2> QED
    BY <1>2, <2>1, <2>2, <2>3
<1> QED
  BY <1>4, <1>5 DEF S

-----------------------------------------------------------------------------
(* The invariant *)

(* What has been found is what the rules find in the two texts; a verdict   *)
(* is given once, from that score and the audit.                            *)
FoundByRules ==
  pc \in {"evaluated", "reported", "raised"} =>
    /\ issues = Issues(source, translation)
    /\ deterministic = Score(SumFunctionOnSet(Impact, issues))

Judged ==
  /\ pc # "reported" => status = "none"
  /\ pc = "reported" =>
       \/ overall = deterministic /\ status = Verdict(deterministic) /\ audit.end # "error"
       \/ overall = deterministic /\ status = "needs_review"
       \/ \E a \in 0..100 : /\ overall = Overall(deterministic, a) /\ status = Verdict(overall)
                            /\ audit.end # "error"

Unaudited == pc \in {"new", "evaluated"} => audit = NoAudit

RulesInv == TypeOK /\ FoundByRules /\ Judged /\ Unaudited

(* Every outcome of an audit is an answer, an error or an exception.        *)
LEMMA AuditOutcomes ==
  ASSUME NEW provider, NEW keyed, NEW a \in Audits(provider, keyed),
         provider \in {"openai", "anthropic", "deepl", "a model"}
  PROVE  \/ \E impact \in Nat : a = Answer(impact)
         \/ a.end = "error"
         \/ a.end = "raised"
<1>1. \A code : Error(code).end = "error"
  BY DEF Error
<1>2. Raised.end = "raised"
  BY DEF Raised
<1>3. CASE provider = "openai"
  <2>1. a \in OpenAIAudit(keyed)
    BY <1>3 DEF Audits
  <2> QED
    BY <1>1, <1>2, <2>1, ImpactAssumption DEF OpenAIAudit
<1>4. CASE provider = "anthropic"
  BY <1>1, <1>2, <1>4 DEF Audits
<1>5. CASE provider = "deepl"
  BY <1>1, <1>5 DEF Audits
<1>6. CASE provider = "a model"
  BY <1>1, <1>6 DEF Audits
<1> QED
  BY <1>3, <1>4, <1>5, <1>6

(* A verdict is one of three.                                               *)
LEMMA VerdictType ==
  ASSUME NEW score
  PROVE  Verdict(score) \in {"passed", "needs_review", "failed"}
BY DEF Verdict

LEMMA InitRules == Init => RulesInv
BY DEF Init, RulesInv, TypeOK, FoundByRules, Judged, Unaudited, NoAudit, Impact

LEMMA RefuseRules ==
  ASSUME RulesInv, Refuse
  PROVE  RulesInv'
BY DEF RulesInv, Refuse, TypeOK, FoundByRules, Judged, Unaudited

LEMMA EvaluateRules ==
  ASSUME RulesInv, Evaluate
  PROVE  RulesInv'
<1>1. issues' \in SUBSET DOMAIN Impact
  BY DEF Evaluate, Issues, Found, Impact
<1>2. Score(SumFunctionOnSet(Impact, issues')) \in 0..100
  <2>1. RuleScores \subseteq 0..100
    BY DEF RuleScores
  <2> QED
    BY <1>1, <2>1, ScoreOfRules
<1>3. TypeOK'
  BY <1>1, <1>2 DEF RulesInv, Evaluate, TypeOK
<1> QED
  BY <1>3 DEF RulesInv, Evaluate, FoundByRules, Judged, Unaudited

LEMMA WithoutAuditRules ==
  ASSUME RulesInv, WithoutAudit
  PROVE  RulesInv'
<1>1. TypeOK'
  BY VerdictType DEF RulesInv, WithoutAudit, Conclude, TypeOK
<1>2. audit.end = "none"
  BY DEF RulesInv, WithoutAudit, Unaudited, NoAudit
<1>3. Judged'
  BY <1>2 DEF RulesInv, WithoutAudit, Conclude, Judged
<1> QED
  BY <1>1, <1>3 DEF RulesInv, WithoutAudit, Conclude, FoundByRules, Unaudited

LEMMA WithAuditRules ==
  ASSUME RulesInv, WithAudit
  PROVE  RulesInv'
<1>1. \/ \E impact \in Nat : audit' = Answer(impact)
      \/ audit'.end = "error"
      \/ audit'.end = "raised"
  <2>1. PICK modelUsed \in {"none", "deepl", "a model"}, default \in {"openai", "anthropic", "deepl"},
             keyed \in BOOLEAN : audit' \in Audits(Asked(modelUsed, default), keyed)
    BY DEF WithAudit
  <2>2. Asked(modelUsed, default) \in {"openai", "anthropic", "deepl", "a model"}
    BY DEF Asked
  <2> QED
    BY <2>1, <2>2, AuditOutcomes
<1>2. /\ pc = "evaluated" /\ status = "none"
      /\ deterministic \in 0..100 /\ overall \in 0..100
      /\ UNCHANGED <<source, translation, issues, deterministic>>
  BY DEF RulesInv, WithAudit, TypeOK, Judged
<1>3. FoundByRules' /\ (TypeOK' <=> /\ pc' \in {"new", "refused", "evaluated", "reported", "raised"}
                              /\ overall' \in 0..100
                              /\ audit'.end \in {"none", "answer", "error", "raised"}
                              /\ status' \in {"none", "passed", "needs_review", "failed"})
  BY <1>2 DEF RulesInv, FoundByRules, TypeOK
<1>4. CASE audit'.end = "answer"
  <2>1. PICK impact \in Nat : audit' = Answer(impact)
    BY <1>1, <1>4
  <2> DEFINE a == Score(impact)
  <2>2. audit'.impact = impact
    BY <2>1 DEF Answer
  <2>3. a \in 0..100
    BY ScoreOfAudit
  <2>4. Conclude(Overall(deterministic, a), Verdict(Overall(deterministic, a)))
    BY <1>4, <2>2 DEF WithAudit
  <2> HIDE DEF a
  <2>5. Overall(deterministic, a) \in 0..100
    BY <1>2, <2>3, OverallWithinShare
  <2>6. TypeOK'
    BY <1>3, <1>4, <2>4, <2>5, VerdictType DEF Conclude
  <2>7. Judged'
    BY <1>2, <1>4, <2>3, <2>4 DEF Conclude, Judged
  <2> QED
    BY <1>3, <2>4, <2>6, <2>7 DEF RulesInv, Conclude, Unaudited
<1>5. CASE audit'.end = "error"
  <2>1. Conclude(deterministic, "needs_review")
    BY <1>5 DEF WithAudit
  <2> QED
    BY <1>2, <1>3, <1>5, <2>1 DEF RulesInv, Conclude, Unaudited, Judged
<1>6. CASE audit'.end = "raised"
  <2>1. pc' = "raised" /\ UNCHANGED <<overall, status>>
    BY <1>6 DEF WithAudit
  <2> QED
    BY <1>2, <1>3, <1>6, <2>1 DEF RulesInv, Unaudited, Judged
<1>7. audit'.end \in {"answer", "error", "raised"}
  BY DEF WithAudit
<1> QED
  BY <1>4, <1>5, <1>6, <1>7

(* Whatever the texts, the settings and the audits, every report follows    *)
(* from the issues the rules find in the two texts.                         *)
THEOREM RulesInvariant == Spec => []RulesInv
<1>1. RulesInv /\ [Next]_vars => RulesInv'
  <2> SUFFICES ASSUME RulesInv, [Next]_vars PROVE RulesInv'
    OBVIOUS
  <2>1. CASE Refuse
    BY <2>1, RefuseRules
  <2>2. CASE Evaluate
    BY <2>2, EvaluateRules
  <2>3. CASE WithoutAudit
    BY <2>3, WithoutAuditRules
  <2>4. CASE WithAudit
    BY <2>4, WithAuditRules
  <2>5. CASE UNCHANGED vars
    BY <2>5 DEF vars, RulesInv, TypeOK, FoundByRules, Judged, Unaudited
  <2> QED
    BY <2>1, <2>2, <2>3, <2>4, <2>5 DEF Next
<1> QED
  BY <1>1, InitRules, PTL DEF Spec

(* Every variable of a check stays in its domain: in particular no weights  *)
(* of issues and no impact of an audit take a score out of 0..100.          *)
THEOREM TypeCorrect == Spec => []TypeOK
<1>1. RulesInv => TypeOK
  BY DEF RulesInv
<1> QED
  BY <1>1, RulesInvariant, PTL

(* A verdict "passed" needs a score that reaches the threshold, and so does *)
(* the score of the rules where no audit was mixed in.                      *)
LEMMA PassedMeansScore ==
  ASSUME RulesInv, status = "passed"
  PROVE  /\ pc = "reported" /\ audit.end # "error"
         /\ \/ deterministic >= PassThreshold
            \/ \E a \in 0..100 : Overall(deterministic, a) >= PassThreshold
<1>1. pc = "reported"
  BY DEF RulesInv, Judged
<1>2. \A score : Verdict(score) = "passed" => score >= PassThreshold
  BY DEF Verdict
<1>3. \/ deterministic >= PassThreshold /\ audit.end # "error"
      \/ audit.end # "error" /\ \E a \in 0..100 : Overall(deterministic, a) >= PassThreshold
  BY <1>1, <1>2 DEF RulesInv, Judged
<1> QED
  BY <1>1, <1>3

(* A translation that lost a number, changed a placeholder or copies the    *)
(* source is never passed, for all texts and audits, under settings by      *)
(* which the best audit does not outweigh the lightest loss.                *)
THEOREM LossNeverPassesCorrect ==
  ASSUME LossOutweighsAudit
  PROVE  Spec => []LossNeverPasses
<1>1. RulesInv => LossNeverPasses
  <2> SUFFICES ASSUME RulesInv, status = "passed", Lossy PROVE FALSE
    BY DEF LossNeverPasses
  <2>1. pc = "reported" /\ (\/ deterministic >= PassThreshold
                            \/ \E a \in 0..100 : Overall(deterministic, a) >= PassThreshold)
    BY PassedMeansScore
  <2>2. deterministic \in 0..100 /\ deterministic <= 80
    BY <2>1, LossCosts DEF RulesInv, TypeOK, FoundByRules
  <2>3. PassThreshold \in 0..100 /\ Overall(80, 100) < PassThreshold
    BY ThresholdAssumption DEF LossOutweighsAudit
  <2>4. PICK e \in 0..100 : e = 80
    OBVIOUS
  <2>5. \A a \in 0..100 : Overall(deterministic, a) \in 0..100 /\ Overall(deterministic, a) <= Overall(e, 100)
    BY <2>2, <2>4, BestAudit
  <2>6. Overall(e, 100) \in 0..100 /\ Overall(e, e) <= Overall(e, 100) /\ Overall(e, e) \in 0..100
    <3>1. e <= e
      OBVIOUS
    <3> QED
      BY <3>1, BestAudit
  <2>7. deterministic >= PassThreshold
    <3>1. CASE deterministic >= PassThreshold
      BY <3>1
    <3>2. ASSUME NEW a \in 0..100, Overall(deterministic, a) >= PassThreshold PROVE FALSE
      <4>1. Overall(e, 100) < PassThreshold
        BY <2>3, <2>4
      <4>2. Overall(deterministic, a) \in 0..100 /\ Overall(deterministic, a) <= Overall(e, 100)
        BY <2>5
      <4> QED
        BY <2>3, <2>6, <3>2, <4>1, <4>2
    <3> QED
      BY <2>1, <3>1, <3>2
  <2>8. Overall(e, e) >= 80
    <3> DEFINE n == DeterministicWeight * e + (100 - DeterministicWeight) * e
    <3>1. n \in Nat /\ n >= 100 * 80
      BY <2>4, WeightAssumption
    <3>2. Overall(e, e) = Rounded(n)
      BY DEF Overall
    <3> HIDE DEF n
    <3>3. Rounded(n) >= 80
      BY <3>1, RoundedBounds
    <3> QED
      BY <3>2, <3>3
  <2> QED
    BY <2>2, <2>3, <2>4, <2>6, <2>7, <2>8
<1> QED
  BY <1>1, RulesInvariant, PTL

(* An audit moves the score by its weight at most and, under settings by    *)
(* which it lifts no score of the rules to the threshold, passes nothing    *)
(* that the rules alone do not; one that failed passes nothing.             *)
THEOREM AuditWithinShareCorrect ==
  ASSUME AuditLiftsNothing
  PROVE  Spec => []AuditWithinShare
<1>1. RulesInv => AuditWithinShare
  <2> SUFFICES ASSUME RulesInv, pc = "reported" PROVE AuditWithinShare
    BY DEF AuditWithinShare
  <2>1. issues \in SUBSET DOMAIN Impact /\ deterministic = Score(SumFunctionOnSet(Impact, issues))
    BY DEF RulesInv, TypeOK, FoundByRules
  <2>2. deterministic \in RuleScores /\ deterministic \in 0..100
    BY <2>1, ScoreOfRules DEF RulesInv, TypeOK
  <2>3. overall - deterministic \in (DeterministicWeight - 100)..(100 - DeterministicWeight)
    <3>1. CASE overall = deterministic
      BY <2>2, <3>1, WeightAssumption
    <3>2. CASE \E a \in 0..100 : overall = Overall(deterministic, a)
      BY <2>2, <3>2, OverallWithinShare
    <3> QED
      BY <3>1, <3>2 DEF RulesInv, Judged
  <2>4. ASSUME status = "passed" PROVE Verdict(deterministic) = "passed" /\ audit.end # "error"
    <3>1. audit.end # "error" /\ (\/ deterministic >= PassThreshold
                                  \/ \E a \in 0..100 : Overall(deterministic, a) >= PassThreshold)
      BY <2>4, PassedMeansScore
    <3>2. PassThreshold \in 0..100
      BY ThresholdAssumption
    <3>3. ASSUME deterministic < PassThreshold PROVE FALSE
      <4>1. Overall(deterministic, 100) < PassThreshold
        BY <2>2, <3>3 DEF AuditLiftsNothing
      <4>2. \A a \in 0..100 : /\ Overall(deterministic, a) \in 0..100
                              /\ Overall(deterministic, 100) \in 0..100
                              /\ Overall(deterministic, a) <= Overall(deterministic, 100)
        <5>1. deterministic <= deterministic
          BY <2>2
        <5> QED
          BY <2>2, <5>1, BestAudit
      <4> QED
        <5>1. PICK a \in 0..100 : Overall(deterministic, a) >= PassThreshold
          BY <2>2, <3>1, <3>2, <3>3
        <5>2. /\ Overall(deterministic, a) \in 0..100 /\ Overall(deterministic, 100) \in 0..100
              /\ Overall(deterministic, a) <= Overall(deterministic, 100)
          BY <4>2
        <5> QED
          BY <3>2, <4>1, <5>1, <5>2
    <3>4. deterministic >= PassThreshold
      BY <2>2, <3>2, <3>3
    <3> QED
      BY <3>1, <3>4 DEF Verdict
  <2> QED
    BY <2>3, <2>4 DEF AuditWithinShare
<1> QED
  BY <1>1, RulesInvariant, PTL

(* With the default settings both hold, for all texts and audits.           *)
THEOREM DefaultsKeepVerdicts ==
  ASSUME DefaultSettings
  PROVE  Spec => [](LossNeverPasses /\ AuditWithinShare)
<1>1. LossOutweighsAudit /\ AuditLiftsNothing
  BY DefaultsMeetConditions
<1>2. Spec => []LossNeverPasses
  BY <1>1, LossNeverPassesCorrect
<1>3. Spec => []AuditWithinShare
  BY <1>1, AuditWithinShareCorrect
<1> QED
  BY <1>2, <1>3, PTL
=============================================================================
