---------------------- MODULE TranslationServiceProofs ----------------------
(* Proofs about TranslationService, for every number of retries, timeout,   *)
(* set of answer times and set of waits a provider may ask for.             *)
EXTENDS TranslationService, SequenceTheorems, TLAPS

(* What pc says about the attempts so far: before the end no attempt is     *)
(* out, all have failed in a way worth a retry, and one more is allowed.    *)
Attempts ==
  /\ pc = "new" => log = << >>
  /\ pc \in {"calling", "sleeping"} => Len(log) <= MaxRetries
  /\ pc = "sleeping" => log # << >>
  /\ pc \notin {"returned", "raised"} =>
       /\ error = None
       /\ \A i \in 1..Len(log) : log[i].code \in Retryable

Inv == TypeOK /\ Attempts /\ EveryAttemptUsed

Entries == [code : Codes, after : RetryAfters \cup {Unasked}]

USE RetriesAssumption, TimeoutAssumption, TimesAssumption, DelayAssumption

-----------------------------------------------------------------------------
(* Every reply has a code of the service. *)
LEMMA ReplyCodesAreCodes == \A p \in Providers : ReplyCodes(p) \subseteq Codes
<1>1. \A r \in SdkReplies : OpenAICode(r) \in Codes /\ AnthropicCode(r) \in Codes
  BY DEF SdkReplies, OpenAICode, AnthropicCode, Codes, Retryable, Final
<1>2. \A r \in DeepLReplies : DeepLCode(r) \in Codes
  BY DEF DeepLReplies, DeepLCode, Codes, Retryable, Final
<1> QED
  BY <1>1, <1>2 DEF ReplyCodes, Providers

(* No delay is negative or longer than the longest one. *)
LEMMA DelayBounded ==
  ASSUME NEW n \in Nat, NEW after \in RetryAfters \cup {Unasked}
  PROVE  RetryDelays(n, after) \subseteq 0..LongestDelay
<1>1. CASE after = Unasked
  <2>1. RetryDelays(n, after) \subseteq 0..DelayCap
    BY <1>1 DEF RetryDelays
  <2> QED
    BY <2>1
<1>2. CASE after # Unasked
  <2>1. RetryDelays(n, after) = {after}
    BY <1>2 DEF RetryDelays
  <2> QED
    BY <1>2, <2>1
<1> QED
  BY <1>1, <1>2

(* What an attempt adds to the log, and what it leaves there. *)
LEMMA Logged ==
  ASSUME TypeOK, NEW e \in Entries
  PROVE  /\ Append(log, e) \in Seq(Entries)
         /\ Len(log) \in Nat
         /\ Len(Append(log, e)) = Len(log) + 1
         /\ Append(log, e) # << >>
         /\ Append(log, e)[Len(log) + 1] = e
         /\ \A i \in 1..Len(log) : Append(log, e)[i] = log[i]
<1>1. log \in Seq(Entries)
  BY DEF TypeOK, Entries
<1> QED
  BY <1>1, AppendProperties

(* The last entry of the log, when there is one. *)
LEMMA LastEntry ==
  ASSUME TypeOK, log # << >>
  PROVE  /\ Len(log) \in Nat
         /\ Len(log) >= 1
         /\ log[Len(log)].after \in RetryAfters \cup {Unasked}
<1>1. log \in Seq(Entries)
  BY DEF TypeOK, Entries
<1>2. Len(log) \in Nat /\ Len(log) # 0
  BY <1>1, EmptySeq, LenProperties
<1>3. log[Len(log)] \in Entries
  BY <1>1, <1>2, ElementOfSeq
<1> QED
  BY <1>2, <1>3 DEF Entries

-----------------------------------------------------------------------------
(* The end of an attempt keeps the invariant, whatever its code. *)
LEMMA SettleKeepsInv ==
  ASSUME Inv, pc = "calling",
         NEW code \in Codes, NEW after \in RetryAfters \cup {Unasked}, NEW waited \in Nat,
         Settle(code, after, waited)
  PROVE  Inv'
<1> DEFINE e == [code |-> code, after |-> after]
<1>1. e \in Entries /\ e.code = code
  BY DEF Entries
<1>2. /\ log' \in Seq(Entries)
      /\ Len(log) \in Nat
      /\ Len(log') = Len(log) + 1
      /\ log' # << >>
      /\ log'[Len(log')] = e
      /\ \A i \in 1..Len(log) : log'[i] = log[i]
  BY <1>1, Logged DEF Settle, Inv
<1>3. Len(log) <= MaxRetries /\ \A i \in 1..Len(log) : log[i].code \in Retryable
  BY DEF Inv, Attempts
<1>4. \A i \in 1..Len(log') : i < Len(log') => log'[i].code \in Retryable
  BY <1>2, <1>3
<1>5. LastAttempt <=> Len(log) = MaxRetries
  BY <1>2, <1>3 DEF LastAttempt
<1>6. /\ pc' = "returned" <=> code = "translated"
      /\ pc' = "sleeping" <=> (code \in Retryable /\ ~LastAttempt)
      /\ pc' \in {"returned", "sleeping", "raised"}
  BY DEF Settle, Retry, Retryable
<1>7. TypeOK'
  <2>1. Len(log') <= MaxRetries + 1
    BY <1>2, <1>3
  <2>2. elapsed' \in Nat
    BY DEF Settle, Inv, TypeOK
  <2>3. error' \in Codes \cup {None, "validation"}
    BY DEF Settle, Codes, Retryable
  <2>4. request' \in Requests /\ keyed' \in BOOLEAN
    BY DEF Settle, Inv, TypeOK
  <2> QED
    BY <1>2, <1>6, <2>1, <2>2, <2>3, <2>4 DEF TypeOK, Entries, Ended
<1>8. Attempts'
  <2>1. pc' = "sleeping" => Len(log') <= MaxRetries
    BY <1>2, <1>3, <1>5, <1>6
  <2>2. pc' = "sleeping" => \A i \in 1..Len(log') : log'[i].code \in Retryable
    BY <1>1, <1>2, <1>4, <1>6
  <2>3. pc' = "sleeping" => error' = None
    BY DEF Settle
  <2> QED
    BY <1>2, <1>6, <2>1, <2>2, <2>3 DEF Attempts
<1>9. EveryAttemptUsed'
  <2>1. pc' = "raised" => code # "translated" /\ (code \in Retryable => Len(log') = MaxRetries + 1)
    BY <1>2, <1>5, <1>6
  <2>2. pc' = "raised" => error' # None
    BY DEF Settle, Codes, Retryable, Final, None
  <2> QED
    BY <1>1, <1>2, <1>4, <1>6, <2>1, <2>2 DEF EveryAttemptUsed
<1> QED
  BY <1>7, <1>8, <1>9 DEF Inv

(* Every attempt is settled with a code, a wait asked for, and a time that  *)
(* is at most the timeout.                                                  *)
LEMMA AttemptSettles ==
  ASSUME TypeOK, Begin \/ NotCalled \/ Answered \/ Unanswered
  PROVE  \/ Begin
         \/ /\ pc = "calling"
            /\ \E code \in Codes, after \in RetryAfters \cup {Unasked}, waited \in 0..Timeout :
                 Settle(code, after, waited)
<1>1. CASE NotCalled
  <2>1. 0 \in 0..Timeout /\ Unasked \in RetryAfters \cup {Unasked}
        /\ "configuration" \in Codes /\ "invalid_request" \in Codes
    BY DEF Codes, Final
  <2> QED
    BY <1>1, <2>1 DEF NotCalled
<1>2. CASE Answered
  <2>1. ReplyCodes(request.provider) \subseteq Codes
    <3>1. ReplyCodes("openai") \subseteq Codes /\ ReplyCodes("anthropic") \subseteq Codes
          /\ ReplyCodes("deepl") \subseteq Codes
      BY ReplyCodesAreCodes DEF Providers
    <3>2. CASE request.provider \in Providers
      BY <3>1, <3>2 DEF Providers
    <3>3. CASE request.provider \notin Providers
      BY <3>1, <3>3 DEF ReplyCodes, Providers
    <3> QED
      BY <3>2, <3>3
  <2> QED
    BY <1>2, <2>1 DEF Answered, Called
<1>3. CASE Unanswered
  <2>1. Timeout \in 0..Timeout /\ Unasked \in RetryAfters \cup {Unasked} /\ "timeout" \in Codes
    BY DEF Codes, Retryable
  <2> QED
    BY <1>3, <2>1 DEF Unanswered, Called
<1> QED
  BY <1>1, <1>2, <1>3

LEMMA InitInv == Init => Inv
<1> SUFFICES ASSUME Init PROVE Inv
  OBVIOUS
<1>1. log = << >> /\ Len(log) = 0 /\ log \in Seq(Entries)
  BY DEF Init, Entries
<1> QED
  BY <1>1 DEF Init, Inv, TypeOK, Entries, Attempts, EveryAttemptUsed, Ended

LEMMA NextInv == Inv /\ [Next]_vars => Inv'
<1> SUFFICES ASSUME Inv, [Next]_vars PROVE Inv'
  OBVIOUS
<1> USE DEF Inv
<1>1. CASE Refuse
  BY <1>1 DEF Refuse, TypeOK, Attempts, EveryAttemptUsed, Ended, None
<1>2. CASE Unsupported
  BY <1>2 DEF Unsupported, TypeOK, Attempts, EveryAttemptUsed, Ended, None, Codes, Final
<1>3. CASE Begin
  BY <1>3 DEF Begin, TypeOK, Attempts, EveryAttemptUsed, Ended
<1>4. CASE NotCalled \/ Answered \/ Unanswered
  <2>1. ~Begin \/ pc = "new"
    BY DEF Begin
  <2>2. pc = "calling"
    BY <1>4 DEF NotCalled, Answered, Unanswered, Called
  <2>3. PICK code \in Codes, after \in RetryAfters \cup {Unasked}, waited \in 0..Timeout :
          Settle(code, after, waited)
    BY <1>4, <2>1, <2>2, AttemptSettles
  <2>4. waited \in Nat
    OBVIOUS
  <2> QED
    BY <2>2, <2>3, <2>4, SettleKeepsInv
<1>5. CASE Wake
  <2>1. Len(log) \in Nat /\ Len(log) >= 1 /\ log[Len(log)].after \in RetryAfters \cup {Unasked}
    BY <1>5, LastEntry DEF Wake, Attempts
  <2>2. RetryDelays(Len(log), log[Len(log)].after) \subseteq 0..LongestDelay
    BY <2>1, DelayBounded
  <2>3. elapsed' \in Nat
    BY <1>5, <2>2 DEF Wake, TypeOK
  <2> QED
    BY <1>5, <2>3 DEF Wake, TypeOK, Attempts, EveryAttemptUsed, Ended
<1>6. CASE Cancel
  BY <1>6 DEF Cancel, TypeOK, Attempts, EveryAttemptUsed, Ended
<1>7. CASE UNCHANGED vars
  BY <1>7 DEF vars, TypeOK, Attempts, EveryAttemptUsed
<1> QED
  BY <1>1, <1>2, <1>3, <1>4, <1>5, <1>6, <1>7 DEF Next, Proceed

(* The invariant holds throughout. *)
LEMMA AlwaysInv == Spec => []Inv
  BY InitInv, NextInv, PTL DEF Spec

-----------------------------------------------------------------------------
(* Every variable has its type; there are never more than MaxRetries + 1    *)
(* attempts.                                                                *)
THEOREM TypeCorrect == Spec => []TypeOK
<1>1. Inv => TypeOK
  BY DEF Inv
<1> QED
  BY <1>1, AlwaysInv, PTL

(* A call ends with what its last attempt ended with, and raises only an    *)
(* error no retry mends, or after all attempts.                             *)
THEOREM EveryAttemptUsedCorrect == Spec => []EveryAttemptUsed
<1>1. Inv => EveryAttemptUsed
  BY DEF Inv
<1> QED
  BY <1>1, AlwaysInv, PTL

(* One more attempt allows the time of one attempt and one delay more. *)
LEMMA OneMore ==
  ASSUME NEW n \in Nat, NEW t \in Nat
  PROVE  n * t \in Nat /\ (n + 1) * t = n * t + t
  OBVIOUS

LEMMA NextTime == Inv /\ CallWithinTime /\ [Next]_vars => CallWithinTime'
<1> SUFFICES ASSUME Inv, CallWithinTime, [Next]_vars PROVE CallWithinTime'
  OBVIOUS
<1> DEFINE each == Timeout + LongestDelay
<1>0. /\ Len(log) \in Nat /\ elapsed \in Nat /\ each \in Nat
      /\ (log # << >>) => Len(log) >= 1
      /\ log = << >> => Len(log) = 0
  BY DEF Inv, TypeOK
<1>1. elapsed <= Len(log) * each
  BY <1>0, OneMore DEF CallWithinTime
<1>2. pc = "sleeping" => elapsed + LongestDelay <= Len(log) * each
  BY <1>0 DEF CallWithinTime, Inv, Attempts
<1>3. CASE Refuse \/ Unsupported \/ Begin
  <2>1. pc = "new" /\ log' = << >> /\ elapsed' = elapsed /\ log' = log
    BY <1>3 DEF Refuse, Unsupported, Begin, Inv, Attempts
  <2> QED
    BY <1>1, <2>1 DEF CallWithinTime
<1>4. CASE NotCalled \/ Answered \/ Unanswered
  <2>1. pc = "calling" /\ ~Begin
    BY <1>4 DEF NotCalled, Answered, Unanswered, Called, Begin
  <2>2. PICK code \in Codes, after \in RetryAfters \cup {Unasked}, waited \in 0..Timeout :
          Settle(code, after, waited)
    BY <1>4, <2>1, AttemptSettles DEF Inv
  <2>3. Len(log') = Len(log) + 1 /\ elapsed' = elapsed + waited
    <3>1. [code |-> code, after |-> after] \in Entries
      BY DEF Entries
    <3> QED
      BY <2>2, <3>1, Logged DEF Settle, Inv
  <2>4. Len(log') * each = Len(log) * each + each /\ Len(log) * each \in Nat
    BY <1>0, <2>3, OneMore
  <2>5. elapsed' + LongestDelay <= Len(log') * each
    <3> HIDE DEF each
    <3>1. elapsed' + LongestDelay <= Len(log) * each + Timeout + LongestDelay
      BY <1>0, <1>1, <2>3, <2>4
    <3> QED
      BY <2>4, <3>1 DEF each
  <2>6. elapsed' \in Nat
    BY <1>0, <2>3
  <2> QED
    BY <2>5, <2>6, <2>4 DEF CallWithinTime
<1>5. CASE Wake
  <2>1. Len(log) >= 1 /\ log[Len(log)].after \in RetryAfters \cup {Unasked}
    BY <1>5, LastEntry DEF Wake, Inv, Attempts
  <2>2. PICK d \in 0..LongestDelay : elapsed' = elapsed + d
    BY <1>0, <1>5, <2>1, DelayBounded DEF Wake
  <2>3. elapsed' <= Len(log) * each
    <3>1. Len(log) * each \in Nat
      BY <1>0, OneMore
    <3> QED
      BY <1>0, <1>2, <1>5, <2>2, <3>1 DEF Wake
  <2>4. log' = log /\ pc' = "calling"
    BY <1>5 DEF Wake
  <2> QED
    BY <1>0, <2>3, <2>4, <2>2 DEF CallWithinTime
<1>6. CASE Cancel
  BY <1>0, <1>1, <1>6 DEF Cancel, CallWithinTime
<1>7. CASE UNCHANGED vars
  BY <1>7 DEF vars, CallWithinTime
<1> QED
  BY <1>3, <1>4, <1>5, <1>6, <1>7 DEF Next, Proceed

(* A call holds its caller at most MaxRetries + 1 times the timeout and the *)
(* longest delay, and after the last attempt not for another delay.         *)
THEOREM CallWithinTimeCorrect == Spec => []CallWithinTime
<1>1. Init => CallWithinTime
  BY DEF Init, CallWithinTime
<1>2. CallWithinTime /\ Inv /\ [Next]_vars => CallWithinTime'
  BY NextTime
<1> QED
  BY <1>1, <1>2, AlwaysInv, PTL DEF Spec

-----------------------------------------------------------------------------
(* How many steps a call may still take: two for each attempt it has left,  *)
(* the attempt and the delay before it, and one to begin with.              *)
StepsLeft ==
  CASE pc = "new" -> 2 * MaxRetries + 3
    [] pc = "calling" -> 2 * (MaxRetries + 1 - Len(log))
    [] pc = "sleeping" -> 2 * (MaxRetries + 1 - Len(log)) + 1
    [] OTHER -> 0

EveryCallStepCounts ==
  [][StepsLeft' \in Nat /\ StepsLeft \in Nat /\ StepsLeft' < StepsLeft]_vars

(* StepsLeft is a natural number, and zero only once a call has ended.      *)
LEMMA StepsLeftIsNatural == Inv => StepsLeft \in Nat /\ (pc \notin Ended => StepsLeft > 0)
<1> SUFFICES ASSUME Inv PROVE StepsLeft \in Nat /\ (pc \notin Ended => StepsLeft > 0)
  OBVIOUS
<1>1. Len(log) \in Nat /\ pc \in {"new", "calling", "sleeping"} \cup Ended
  BY DEF Inv, TypeOK
<1>2. CASE pc = "new"
  <2>1. StepsLeft = 2 * MaxRetries + 3
    BY <1>2 DEF StepsLeft
  <2> QED
    BY <2>1
<1>3. CASE pc \in {"calling", "sleeping"}
  <2>1. PICK n \in Nat : n >= 1 /\ MaxRetries + 1 - Len(log) = n
    <3>1. Len(log) <= MaxRetries
      BY <1>3 DEF Inv, Attempts
    <3>2. /\ MaxRetries + 1 - Len(log) \in Nat
          /\ MaxRetries + 1 - Len(log) >= 1
      BY <1>1, <3>1
    <3> QED
      BY <3>2
  <2>2. StepsLeft \in {2 * n, 2 * n + 1}
    BY <1>3, <2>1 DEF StepsLeft
  <2> QED
    BY <2>1, <2>2
<1>4. CASE pc \in Ended
  BY <1>4 DEF StepsLeft, Ended
<1> QED
  BY <1>1, <1>2, <1>3, <1>4

(* The same of the next state.                                              *)
LEMMA StepsLeftStaysNatural ==
  Inv' => (StepsLeft \in Nat /\ (pc \notin Ended => StepsLeft > 0))'
  BY StepsLeftIsNatural, PTL

(* Each step of a call brings its end closer, however it answers: a call    *)
(* takes at most two steps for each attempt it may make and one more.       *)
THEOREM EveryCallStepCountsCorrect == Spec => EveryCallStepCounts
<1>1. Inv /\ Next => StepsLeft' < StepsLeft
  <2> SUFFICES ASSUME Inv, Next PROVE StepsLeft' < StepsLeft
    OBVIOUS
  <2>0. Len(log) \in Nat /\ StepsLeft \in Nat /\ (pc \notin Ended => StepsLeft > 0)
    BY StepsLeftIsNatural DEF Inv, TypeOK
  <2>1. CASE Refuse \/ Unsupported \/ Cancel
    <3>1. pc \in {"new", "calling", "sleeping"} /\ pc' \in {"raised", "cancelled"}
      BY <2>1 DEF Refuse, Unsupported, Cancel
    <3>2. StepsLeft' = 0
      BY <3>1 DEF StepsLeft
    <3> QED
      BY <2>0, <3>1, <3>2 DEF Ended
  <2>2. CASE Begin
    <3>1. pc = "new" /\ pc' = "calling" /\ log' = << >>
      BY <2>2 DEF Begin, Inv, Attempts
    <3>2. StepsLeft' = 2 * (MaxRetries + 1) /\ StepsLeft = 2 * MaxRetries + 3
      BY <3>1 DEF StepsLeft
    <3> QED
      BY <3>2
  <2>3. CASE NotCalled \/ Answered \/ Unanswered
    <3>1. pc = "calling" /\ ~Begin
      BY <2>3 DEF NotCalled, Answered, Unanswered, Called, Begin
    <3>2. PICK code \in Codes, after \in RetryAfters \cup {Unasked}, waited \in 0..Timeout :
            Settle(code, after, waited)
      BY <2>3, <3>1, AttemptSettles DEF Inv
    <3>3. Len(log') = Len(log) + 1
      <4>1. [code |-> code, after |-> after] \in Entries
        BY DEF Entries
      <4> QED
        BY <3>2, <4>1, Logged DEF Settle, Inv
    <3>4. StepsLeft = 2 * (MaxRetries + 1 - Len(log))
      BY <3>1 DEF StepsLeft
    <3>5. CASE pc' = "sleeping"
      <4>1. StepsLeft' = 2 * (MaxRetries + 1 - Len(log')) + 1
        BY <3>5 DEF StepsLeft
      <4> QED
        BY <2>0, <3>3, <3>4, <4>1
    <3>6. CASE pc' \in {"returned", "raised"}
      <4>1. StepsLeft' = 0
        BY <3>6 DEF StepsLeft
      <4> QED
        BY <2>0, <3>1, <4>1 DEF Ended
    <3> QED
      BY <3>2, <3>5, <3>6 DEF Settle
  <2>4. CASE Wake
    <3>1. pc = "sleeping" /\ pc' = "calling" /\ log' = log
      BY <2>4 DEF Wake
    <3>2. StepsLeft = 2 * (MaxRetries + 1 - Len(log)) + 1 /\ StepsLeft' = 2 * (MaxRetries + 1 - Len(log))
      BY <3>1 DEF StepsLeft
    <3> QED
      BY <2>0, <3>2
  <2> QED
    BY <2>1, <2>2, <2>3, <2>4 DEF Next, Proceed
<1>2. Inv /\ Inv' /\ [Next]_vars =>
        [StepsLeft' \in Nat /\ StepsLeft \in Nat /\ StepsLeft' < StepsLeft]_vars
  BY <1>1, StepsLeftIsNatural, StepsLeftStaysNatural
<1> QED
  BY <1>2, AlwaysInv, PTL DEF Spec, EveryCallStepCounts
=============================================================================
