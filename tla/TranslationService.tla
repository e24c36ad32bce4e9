------------------------- MODULE TranslationService -------------------------
(* One call of TranslationService.translate, from the validation of the     *)
(* request to the answer or the error it ends with: the attempts, what each *)
(* provider makes of a reply, the retry loop and its delays.  Time is       *)
(* counted in quarters of a second and only while the call waits.  What the *)
(* provider replies, and when, is any choice.                               *)
EXTENDS Integers, Sequences, FiniteSets

CONSTANTS MaxRetries,    \* settings.max_retries
          Timeout,       \* settings.translation_timeout
          AnswerTimes,   \* how long a reply that comes in time may take
          RetryAfters,   \* waits a rate limit error may ask for
          DelayCap,      \* the longest delay the service chooses itself, 5 s
          LongestDelay   \* a bound of every delay

ASSUME RetriesAssumption == MaxRetries \in Nat
ASSUME TimeoutAssumption == Timeout \in Nat \ {0}
ASSUME TimesAssumption == AnswerTimes \subseteq 0..Timeout
ASSUME DelayAssumption ==
  /\ DelayCap \in Nat /\ LongestDelay \in Nat /\ DelayCap <= LongestDelay
  /\ RetryAfters \subseteq 0..LongestDelay

VARIABLES request,   \* the call's argument
          keyed,     \* is an API key configured for the provider?
          pc,        \* where the call is
          log,       \* what each attempt ended with, [code, after]
          elapsed,   \* quarters of a second waited
          error      \* the code of the error raised, or "none"

vars == <<request, keyed, pc, log, elapsed, error>>

Providers == {"openai", "anthropic", "deepl"}
None == "none"
Unasked == -1      \* an error that asks for no wait

(* What the request's validation and the providers tell apart. *)
Requests == [provider : Providers \cup {"other"}, text : {"text", "blank"},
             languages : {"differ", "same"}, context : {"short", "too long"}, glossary : BOOLEAN]

Retryable == {"rate_limit", "timeout", "unavailable", "unexpected"}
Final == {"configuration", "authentication", "invalid_request", "invalid_response", "quota"}
Codes == Retryable \cup Final \cup {"translated"}

Ended == {"returned", "raised", "cancelled"}

TypeOK ==
  /\ request \in Requests
  /\ keyed \in BOOLEAN
  /\ pc \in {"new", "calling", "sleeping"} \cup Ended
  /\ log \in Seq([code : Codes, after : RetryAfters \cup {Unasked}])
  /\ Len(log) <= MaxRetries + 1
  /\ elapsed \in Nat
  /\ error \in Codes \cup {None, "validation"}

Init ==
  /\ request \in Requests
  /\ keyed \in BOOLEAN
  /\ pc = "new" /\ log = << >> /\ elapsed = 0 /\ error = None

-----------------------------------------------------------------------------
(* What a provider makes of a reply.  "text ..." are errors the SDK does   *)
(* not name, told apart by their message; "unreached" is a connection that  *)
(* fails, an SDK's own timeout included.                                    *)
SdkReplies == {"answer", "empty", "blank", "401", "429", "status", "read timeout", "unreached",
               "text 401", "text 429", "text timeout", "text"}

OpenAICode(r) ==
  CASE r = "answer" -> "translated"
    [] r \in {"empty", "blank"} -> "invalid_response"
    [] r \in {"401", "text 401"} -> "authentication"
    [] r \in {"429", "text 429"} -> "rate_limit"
    [] r \in {"read timeout", "text timeout"} -> "timeout"
    [] OTHER -> "unavailable"

(* An Anthropic answer has no choices but blocks: one without a block is   *)
(* "empty", one without text in its text blocks "blank".                    *)
AnthropicCode(r) == OpenAICode(r)

(* "status" is any other status: its body is still read as JSON.  JSON of  *)
(* another shape than an object raises an error no provider code names.     *)
DeepLReplies == {"answer", "blank", "not json", "odd json", "400", "401", "403", "429", "456",
                 "5xx", "read timeout", "unreached"}

DeepLCode(r) ==
  CASE r = "answer" -> "translated"
    [] r \in {"blank", "not json"} -> "invalid_response"
    [] r = "odd json" -> "unexpected"
    [] r = "400" -> "invalid_request"
    [] r \in {"401", "403"} -> "authentication"
    [] r = "429" -> "rate_limit"
    [] r = "456" -> "quota"
    [] r = "read timeout" -> "timeout"
    [] OTHER -> "unavailable"

(* What the provider's reply may turn out as. *)
ReplyCodes(p) ==
  CASE p = "openai" -> {OpenAICode(r) : r \in SdkReplies}
    [] p = "anthropic" -> {AnthropicCode(r) : r \in SdkReplies}
    [] OTHER -> {DeepLCode(r) : r \in DeepLReplies}

-----------------------------------------------------------------------------
(* The delay before attempt n + 1: what the error asks for, or 0.5 s       *)
(* doubled each time, with up to 0.25 s of jitter, and at most the cap.     *)
RetryDelays(n, after) ==
  IF after # Unasked THEN {after}
  ELSE {d \in 0..DelayCap : d \in {2^n, 2^n + 1} \/ (d = DelayCap /\ 2^n + 1 > DelayCap)}

Valid(req) == req.text # "blank" /\ req.languages # "same" /\ req.context # "too long"

(* A request the model refuses raises pydantic's error, which is no        *)
(* TranslationError.                                                        *)
Refuse ==
  /\ pc = "new" /\ ~Valid(request)
  /\ pc' = "raised" /\ error' = "validation"
  /\ UNCHANGED <<request, keyed, log, elapsed>>

(* The registry knows no such provider: raised before the loop. *)
Unsupported ==
  /\ pc = "new" /\ Valid(request) /\ request.provider \notin Providers
  /\ pc' = "raised" /\ error' = "configuration"
  /\ UNCHANGED <<request, keyed, log, elapsed>>

Begin ==
  /\ pc = "new" /\ Valid(request) /\ request.provider \in Providers
  /\ pc' = "calling"
  /\ UNCHANGED <<request, keyed, log, elapsed, error>>

\* Faulty variant: one attempt too many.
LastAttemptLate == Len(log) > MaxRetries
LastAttempt == Len(log) >= MaxRetries

\* Faulty variant: an exhausted quota is retried.
RetryQuota(code) == code \in Retryable \cup {"quota"}
Retry(code) == code \in Retryable

(* The end of an attempt: the answer is returned, the error raised, or the *)
(* next attempt waited for.                                                 *)
Settle(code, after, waited) ==
  /\ log' = Append(log, [code |-> code, after |-> after])
  /\ elapsed' = elapsed + waited
  /\ pc' = IF code = "translated" THEN "returned"
           ELSE IF Retry(code) /\ ~LastAttempt THEN "sleeping" ELSE "raised"
  /\ error' = IF pc' = "raised" THEN (IF code = "unexpected" THEN "unavailable" ELSE code) ELSE None
  /\ UNCHANGED <<request, keyed>>

(* Raised by the provider without a call: no key, or a glossary for DeepL. *)
Unconfigured == ~keyed
GlossaryRefused == request.provider = "deepl" /\ request.glossary

NotCalled ==
  /\ pc = "calling"
  /\ \/ Unconfigured /\ Settle("configuration", Unasked, 0)
     \/ ~Unconfigured /\ GlossaryRefused /\ Settle("invalid_request", Unasked, 0)

Called == pc = "calling" /\ ~Unconfigured /\ ~GlossaryRefused

(* retry_after is read from a rate limit error only. *)
Answered ==
  /\ Called
  /\ \E code \in ReplyCodes(request.provider), waited \in AnswerTimes,
        after \in RetryAfters \cup {Unasked} :
       /\ after # Unasked => code = "rate_limit" /\ request.provider # "deepl"
       /\ Settle(code, after, waited)

\* Faulty variant: only the client's own timeout bounds a call, which it makes three times.
UnansweredByClient == Called /\ Settle("timeout", Unasked, 3 * Timeout)

(* asyncio.wait_for gives the attempt up. *)
Unanswered == Called /\ Settle("timeout", Unasked, Timeout)

\* Faulty variant: a sleep that never ends.
WakeNever == FALSE
Wake ==
  /\ pc = "sleeping"
  /\ \E d \in RetryDelays(Len(log), log[Len(log)].after) : elapsed' = elapsed + d
  /\ pc' = "calling"
  /\ UNCHANGED <<request, keyed, log, error>>

(* The task is cancelled while it waits: never an error of the provider. *)
Cancel ==
  /\ pc \in {"calling", "sleeping"}
  /\ pc' = "cancelled"
  /\ UNCHANGED <<request, keyed, log, elapsed, error>>

Proceed == Refuse \/ Unsupported \/ Begin \/ NotCalled \/ Answered \/ Unanswered \/ Wake

Next == Proceed \/ Cancel

Spec == Init /\ [][Next]_vars

(* Every wait ends: an attempt by its timeout, a delay by the clock. *)
FairSpec == Spec /\ WF_vars(Proceed)

-----------------------------------------------------------------------------
(* A call gives up only when it must: an error is raised that no retry     *)
(* mends, or after all attempts; what a call ends with is what its last     *)
(* attempt ended with, every earlier attempt failed in a way worth a retry, *)
(* and a cancelled call raises no error of its own.                         *)
EveryAttemptUsed ==
  /\ \A i \in 1..Len(log) : i < Len(log) => log[i].code \in Retryable
  /\ pc = "returned" => log # << >> /\ log[Len(log)].code = "translated"
  /\ (pc = "raised" /\ log # << >>) =>
       /\ log[Len(log)].code # "translated"
       /\ log[Len(log)].code \in Retryable => Len(log) = MaxRetries + 1
  /\ pc = "raised" => error # None
  /\ pc = "cancelled" => error = None

(* How long a call can hold its caller: every attempt up to its timeout    *)
(* and the longest delay between two of them, none after the last.          *)
CallWithinTime ==
  elapsed + (IF log # << >> /\ pc \in {"sleeping", "returned", "raised"} THEN LongestDelay ELSE 0)
    <= Len(log) * (Timeout + LongestDelay)

(* Every call ends. *)
CallEnds == (pc = "new") ~> (pc \in Ended)
=============================================================================
