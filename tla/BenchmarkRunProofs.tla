-------------------------- MODULE BenchmarkRunProofs --------------------------
(* Proofs about BenchmarkRun, for every set of runs and executors, every    *)
(* cost and every number of executions.                                     *)
EXTENDS BenchmarkRun, FiniteSums

(* The budget each case of a dry run is given, whichever execution plans it *)
(* and whatever has been completed before.                                  *)
IsShares(p, s) ==
  /\ s[1] = p.max_budget
  /\ \A c \in 1..p.max_cases : s[c + 1] = Less(s[c], Cost[c])

Shares(p) == CHOOSE s \in [1..(p.max_cases + 1) -> 0..p.max_budget] : IsShares(p, s)

Share(c) == Shares(run)[c]

Affordable(c) == Cost[c] <= Share(c)

(* An execution that has not been started knows nothing of the cases.       *)
Fresh ==
  \A e \in Executors : pc[e] \in {"idle", "loaded"} => \A c \in Cases : task[e][c] = Unread

(* The cases are read in order, and all of them before the first is run.    *)
ReadInOrder ==
  \A e \in Executors :
    /\ \A c, d \in Cases : c < d /\ State(e, c) = "unread" => State(e, d) = "unread"
    /\ pc[e] = "plan" => \A c \in Cases : State(e, c) \in {"unread", "kept", "pending"}
    /\ pc[e] \in {"cases", "orphan"} => \A c \in Cases : State(e, c) # "unread"

Alone ==
  ~overlapped => \A e, f \in Executors : pc[e] # "idle" /\ pc[f] # "idle" => e = f

RefusedOnlyInParallel ==
  ~Parallel => \A e \in Executors : \A c \in Cases : State(e, c) # "refused"

(* In a dry run the budget of a case, and so its outcome, is always the     *)
(* same.                                                                    *)
DryPlan ==
  DryRun =>
    \A e \in Executors : \A c \in Cases :
      /\ State(e, c) \notin {"unread", "kept"} => task[e][c].budget = Share(c)
      /\ State(e, c) = "completed" => task[e][c].cost = Cost[c] /\ Affordable(c)
      /\ State(e, c) = "failed" => ~Affordable(c)
      /\ pc[e] = "plan" /\ State(e, c) = "unread"
         /\ (\A d \in Cases : d < c => State(e, d) # "unread")
           => left[e] = Share(c)

DryRecords ==
  DryRun =>
    \A c \in Cases :
      records[c].status = "completed" => records[c].cost = Cost[c] /\ Affordable(c)

(* What an execution has read of the records is still so.                   *)
ReadStillHolds ==
  /\ Undisturbed =>
       \A e \in Executors : \A c \in Cases :
         State(e, c) = "kept" => records[c].status = "completed"
  /\ ~DryRun /\ ~overlapped =>
       \A e \in Executors : \A c \in Cases :
         State(e, c) \notin {"unread", "kept"} => records[c].status # "completed"

(* With a transaction for every case, a case that has ended is stored.      *)
Stored ==
  Parallel =>
    \A e \in Executors : \A c \in Cases :
      State(e, c) = "completed" => records[c].status = "completed"

Plans == Fresh /\ ReadInOrder /\ Alone /\ RefusedOnlyInParallel /\ DryPlan

Inv == TypeOK /\ Plans /\ DryRecords /\ ReadStillHolds /\ Stored /\ CompletedMeansAll

Kept ==
  \A c \in Cases :
    Undisturbed /\ records[c].status = "completed" => records'[c] = records[c]

Labels == {"idle", "loaded", "plan", "cases", "orphan"}

-----------------------------------------------------------------------------
(* What is left of a budget stays between 0 and the budget.                 *)
LEMMA LessBounded ==
  ASSUME NEW m \in Nat, NEW a \in 0..m, NEW b \in Nat
  PROVE  Less(a, b) \in 0..m
BY DEF Less

(* The parameters a run may have been created with.                         *)
LEMMA RunParameters ==
  ASSUME NEW p \in Runs
  PROVE  /\ p.dry_run \in BOOLEAN
         /\ p.max_cases \in Nat \ {0}
         /\ p.max_budget \in Nat
         /\ \A c \in 1..p.max_cases : Cost[c] \in Nat \ {0}
BY ConstantsAssumption

(* The budgets of the cases exist, for every run.                           *)
LEMMA SharesExist ==
  ASSUME NEW p \in Runs
  PROVE  \E s \in [1..(p.max_cases + 1) -> 0..p.max_budget] : IsShares(p, s)
<1> DEFINE N == p.max_cases
           M == p.max_budget
           Upto(n, s) == /\ s[1] = M
                         /\ \A c \in 1..n : s[c + 1] = Less(s[c], Cost[c])
           S == {n \in Nat : n <= N => \E s \in [1..(n + 1) -> 0..M] : Upto(n, s)}
<1>1. N \in Nat /\ M \in Nat /\ \A c \in 1..N : Cost[c] \in Nat
  BY RunParameters
<1> HIDE DEF N, M
<1>2. 0 \in S
  <2>1. [i \in 1..(0 + 1) |-> M] \in [1..(0 + 1) -> 0..M]
    BY <1>1
  <2>2. Upto(0, [i \in 1..(0 + 1) |-> M])
    BY <1>1
  <2> QED
    BY <2>1, <2>2
<1>3. ASSUME NEW n \in S PROVE n + 1 \in S
  <2>1. n \in Nat /\ n + 1 \in Nat
    OBVIOUS
  <2>2. SUFFICES ASSUME n + 1 <= N
                 PROVE  \E s \in [1..((n + 1) + 1) -> 0..M] : Upto(n + 1, s)
    BY <2>1
  <2>3. PICK s \in [1..(n + 1) -> 0..M] : Upto(n, s)
    BY <1>1, <2>1, <2>2
  <2> DEFINE x == Less(s[n + 1], Cost[n + 1])
             t == [i \in 1..((n + 1) + 1) |-> IF i = n + 2 THEN x ELSE s[i]]
  <2>4. s[n + 1] \in 0..M /\ Cost[n + 1] \in Nat
    BY <1>1, <2>1, <2>2, <2>3
  <2>5. x \in 0..M
    BY <1>1, <2>4, LessBounded
  <2> HIDE DEF x
  <2>6. t \in [1..((n + 1) + 1) -> 0..M]
    BY <2>1, <2>3, <2>5
  <2>7. t[1] = M
    BY <2>1, <2>3
  <2>8. ASSUME NEW c \in 1..(n + 1) PROVE t[c + 1] = Less(t[c], Cost[c])
    <3>1. CASE c = n + 1
      <4>1. t[c + 1] = x /\ t[c] = s[n + 1]
        BY <2>1, <3>1
      <4> QED
        BY <3>1, <4>1 DEF x
    <3>2. CASE c # n + 1
      <4>1. c \in 1..n /\ c + 1 # n + 2 /\ c # n + 2 /\ c + 1 \in 1..((n + 1) + 1) /\ c \in 1..((n + 1) + 1)
        BY <2>1, <3>2
      <4>2. t[c + 1] = s[c + 1] /\ t[c] = s[c]
        BY <4>1
      <4> QED
        BY <2>3, <4>1, <4>2
    <3> QED
      BY <3>1, <3>2
  <2> HIDE DEF t
  <2>9. Upto(n + 1, t)
    BY <2>7, <2>8
  <2> QED
    BY <2>6, <2>9
<1> HIDE DEF S
<1>4. S = Nat
  <2>1. S \in SUBSET Nat
    BY DEF S
  <2> QED
    BY <1>2, <1>3, <2>1, Induction
<1>5. N \in S
  BY <1>1, <1>4
<1>6. \E s \in [1..(N + 1) -> 0..M] : Upto(N, s)
  BY <1>1, <1>5 DEF S
<1> QED
  BY <1>6 DEF IsShares, N, M

(* The budgets of the cases of the run.                                     *)
LEMMA SharesOfRun ==
  ASSUME run \in Runs
  PROVE  /\ Share(1) = Budget
         /\ \A c \in Cases : /\ Share(c) \in 0..Budget
                             /\ Share(c + 1) = Less(Share(c), Cost[c])
<1>1. PICK s \in [1..(run.max_cases + 1) -> 0..run.max_budget] : IsShares(run, s)
  BY SharesExist
<1>2. /\ Shares(run) \in [1..(run.max_cases + 1) -> 0..run.max_budget]
      /\ IsShares(run, Shares(run))
  BY <1>1, Zenon DEF Shares
<1>3. run.max_cases \in Nat \ {0}
  BY RunParameters
<1> DEFINE S == Shares(run)
<1>4. /\ S \in [1..(run.max_cases + 1) -> 0..run.max_budget]
      /\ S[1] = run.max_budget
      /\ \A c \in 1..run.max_cases : S[c + 1] = Less(S[c], Cost[c])
  BY <1>2 DEF IsShares
<1>5. Share(1) = S[1] /\ \A c \in Cases : Share(c) = S[c] /\ Share(c + 1) = S[c + 1]
  BY DEF Share
<1> HIDE DEF S
<1>6. \A c \in Cases : Share(c) \in 0..Budget
  BY <1>3, <1>4, <1>5 DEF Cases, Budget
<1> QED
  BY <1>4, <1>5, <1>6 DEF Cases, Budget

-----------------------------------------------------------------------------
(* The parameters of the run that is executed.                              *)
LEMMA Parameters ==
  ASSUME run \in Runs
  PROVE  /\ DryRun \in BOOLEAN
         /\ run.max_cases \in Nat \ {0}
         /\ Cases = 1..run.max_cases
         /\ Budget \in Nat
         /\ \A c \in Cases : Cost[c] \in Nat \ {0}
BY RunParameters DEF DryRun, Cases, Budget

(* No step changes the run, or forgets an overlap.                          *)
LEMMA RunIsConstant ==
  ASSUME [Next]_vars
  PROVE  run' = run /\ (overlapped => overlapped')
<1>1. CASE UNCHANGED vars
  BY <1>1 DEF vars, history
<1>2. ASSUME NEW e \in Executors, Load(e) \/ Advance(e) \/ Crash(e)
      PROVE  run' = run /\ (overlapped => overlapped')
  <2>1. CASE Load(e)
    BY <2>1 DEF Load
  <2>2. CASE Start(e)
    BY <2>2 DEF Start, history
  <2>3. ASSUME NEW c \in Cases, PlanCase(e, c) \/ SelectCase(e, c) \/ ClaimCase(e, c) \/ ClaimRefused(e, c)
        PROVE  run' = run /\ (overlapped => overlapped')
    BY <2>3 DEF PlanCase, SelectCase, ClaimCase, ClaimRefused, history
  <2>4. ASSUME NEW c \in Cases, RunDry(e, c) \/ RunLive(e, c) \/ RunFails(e, c)
        PROVE  run' = run /\ (overlapped => overlapped')
    <3>1. PICK t : EndCase(e, c, t)
      BY <2>4, Zenon DEF RunDry, RunLive, RunFails
    <3> QED
      BY <3>1 DEF EndCase
  <2>5. CASE Finish(e) \/ OrphanEnds(e) \/ Crash(e)
    BY <2>5 DEF Finish, OrphanEnds, Crash, history
  <2> QED
    BY <1>2, <2>1, <2>2, <2>3, <2>4, <2>5 DEF Advance
<1>3. CASE CancelLoad \/ CancelCommit
  BY <1>3 DEF CancelLoad, CancelCommit, history
<1> QED
  BY <1>1, <1>2, <1>3 DEF Next

(* So nothing that is computed from the run changes.                        *)
LEMMA ParametersAreConstant ==
  ASSUME run' = run
  PROVE  /\ Cases' = Cases /\ DryRun' = DryRun /\ Budget' = Budget /\ Parallel' = Parallel
         /\ Tasks' = Tasks
         /\ \A c : Share(c)' = Share(c) /\ Affordable(c)' = Affordable(c)
BY DEF Cases, DryRun, Budget, Parallel, Concurrency, Tasks, Share, Affordable

(* What a change of one task does.                                          *)
LEMMA TaskSet ==
  ASSUME TypeOK, NEW e \in Executors, NEW c \in Cases, NEW t, SetTask(e, c, t)
  PROVE  /\ task'[e][c] = t
         /\ \A f \in Executors : \A d \in Cases :
              f # e \/ d # c => task'[f][d] = task[f][d]
         /\ t \in Tasks => task' \in [Executors -> [Cases -> Tasks]]
BY DEF TypeOK, SetTask

(* What the end of an execution does.                                       *)
LEMMA ExecutionEnded ==
  ASSUME TypeOK, NEW e \in Executors, End(e)
  PROVE  /\ pc' \in [Executors -> Labels] /\ left' \in [Executors -> 0..Budget]
         /\ seen' \in [Executors -> Statuses] /\ task' \in [Executors -> [Cases -> Tasks]]
         /\ pc'[e] = "idle" /\ \A c \in Cases : task'[e][c] = Unread
         /\ \A f \in Executors \ {e} : pc'[f] = pc[f] /\ task'[f] = task[f] /\ left'[f] = left[f]
<1>1. Unread \in Tasks /\ 0 \in 0..Budget /\ "pending" \in Statuses
  BY Parameters DEF TypeOK, Unread, Tasks, Statuses
<1> QED
  BY <1>1 DEF TypeOK, End, Goto, Labels

(* What is stored of a case has the type of a record.                       *)
LEMMA RecordedIsRecord ==
  ASSUME TypeOK, NEW c \in Cases, NEW t \in Tasks
  PROVE  Recorded(c, t) \in Records
BY DEF TypeOK, Recorded, Records, Tasks

-----------------------------------------------------------------------------
(* Every step of an execution keeps the types.                              *)
LEMMA AdvanceKeepsTypes ==
  ASSUME TypeOK, run' = run, NEW e \in Executors, Load(e) \/ Advance(e) \/ Crash(e)
  PROVE  TypeOK'
<1>0. Cases' = Cases /\ Budget' = Budget /\ Tasks' = Tasks
  BY ParametersAreConstant
<1> USE <1>0
<1>1. CASE Load(e)
  BY <1>1, ConstantsAssumption DEF TypeOK, Load, Goto
<1>2. CASE Start(e)
  <2>1. Budget \in 0..Budget
    BY Parameters DEF TypeOK
  <2> QED
    BY <1>2, <2>1 DEF TypeOK, Start, Goto, history, Statuses
<1>3. ASSUME NEW c \in Cases, PlanCase(e, c) PROVE TypeOK'
  <2>1. left[e] \in 0..Budget /\ records[c].cost \in Nat /\ Cost[c] \in Nat /\ Budget \in Nat
    BY Parameters DEF TypeOK, Records
  <2>2. Less(left[e], records[c].cost) \in 0..Budget /\ Less(left[e], Cost[c]) \in 0..Budget
    BY <2>1, LessBounded
  <2>3. left' \in [Executors -> 0..Budget]
    BY <1>3, <2>2 DEF TypeOK, PlanCase
  <2>4. [Unread EXCEPT !.st = "kept"] \in Tasks
        /\ [Unread EXCEPT !.st = "pending", !.budget = left[e]] \in Tasks
    <3>1. 0 \in 0..Budget /\ left[e] \in 0..Budget
      BY <2>1
    <3> QED
      BY <3>1 DEF Unread, Tasks, Done
  <2>5. task' \in [Executors -> [Cases -> Tasks]]
    BY <1>3, <2>4, TaskSet DEF PlanCase
  <2>6. pc' \in [Executors -> Labels]
    BY <1>3 DEF TypeOK, PlanCase, Goto, Labels
  <2> QED
    BY <1>3, <2>3, <2>5, <2>6 DEF TypeOK, PlanCase, history, Labels
<1>4. ASSUME NEW c \in Cases, SelectCase(e, c) \/ ClaimCase(e, c) PROVE TypeOK'
  <2>1. task[e][c] \in Tasks
    BY DEF TypeOK
  <2>2. [task[e][c] EXCEPT !.st = "selected", !.insert = (records[c].status = "none")] \in Tasks
        /\ [task[e][c] EXCEPT !.st = "running"] \in Tasks
    BY <2>1 DEF Tasks
  <2>3. task' \in [Executors -> [Cases -> Tasks]]
    BY <1>4, <2>2, TaskSet DEF SelectCase, ClaimCase
  <2> QED
    BY <1>4, <2>3 DEF TypeOK, SelectCase, ClaimCase, history
<1>5. ASSUME NEW c \in Cases, ClaimRefused(e, c) PROVE TypeOK'
  <2>1. CASE Parallel
    <3>1. [task[e][c] EXCEPT !.st = "refused"] \in Tasks
      <4>1. task[e][c] \in Tasks
        BY DEF TypeOK
      <4> QED
        BY <4>1 DEF Tasks, Done
    <3>2. task' \in [Executors -> [Cases -> Tasks]]
      BY <1>5, <2>1, <3>1, TaskSet DEF ClaimRefused
    <3> QED
      BY <1>5, <2>1, <3>2 DEF TypeOK, ClaimRefused, Goto, history
  <2>2. CASE ~Parallel
    <3>1. End(e)
      BY <1>5, <2>2 DEF ClaimRefused
    <3> QED
      BY <1>5, <3>1, ExecutionEnded DEF TypeOK, ClaimRefused, history, Labels
  <2> QED
    BY <2>1, <2>2
<1>6. ASSUME NEW c \in Cases, RunDry(e, c) \/ RunLive(e, c) \/ RunFails(e, c) PROVE TypeOK'
  <2>1. PICK t \in Tasks : EndCase(e, c, t) /\ spent' \in Nat
    <3>1. task[e][c] \in Tasks /\ Cost[c] \in Nat /\ spent \in Nat /\ LiveCosts \subseteq Nat
      BY Parameters, ConstantsAssumption DEF TypeOK
    <3>2. \A k \in Nat : [task[e][c] EXCEPT !.st = "completed", !.cost = k] \in Tasks
      BY <3>1 DEF Tasks, Done
    <3>3. [task[e][c] EXCEPT !.st = "failed"] \in Tasks
      BY <3>1 DEF Tasks, Done
    <3>4. CASE RunDry(e, c)
      BY <3>1, <3>2, <3>3, <3>4 DEF RunDry
    <3>5. CASE RunLive(e, c)
      <4>1. PICK k \in LiveCosts :
              /\ spent' = spent + k
              /\ EndCase(e, c, IF k <= task[e][c].budget
                                 THEN [task[e][c] EXCEPT !.st = "completed", !.cost = k]
                                 ELSE [task[e][c] EXCEPT !.st = "failed"])
        BY <3>5 DEF RunLive
      <4> QED
        <5>1. spent' \in Nat /\ k \in Nat
          BY <3>1, <4>1
        <5>2. CASE k <= task[e][c].budget
          BY <3>2, <4>1, <5>1, <5>2, Zenon
        <5>3. CASE ~(k <= task[e][c].budget)
          BY <3>3, <4>1, <5>1, <5>3, Zenon
        <5> QED
          BY <5>2, <5>3
    <3>6. CASE RunFails(e, c)
      BY <3>1, <3>3, <3>6 DEF RunFails
    <3> QED
      BY <1>6, <3>4, <3>5, <3>6
  <2>2. task' \in [Executors -> [Cases -> Tasks]]
    BY <2>1, TaskSet DEF EndCase
  <2>3. records' \in [Cases -> Records]
    BY <2>1, RecordedIsRecord DEF EndCase, TypeOK
  <2> QED
    BY <2>1, <2>2, <2>3 DEF TypeOK, EndCase
<1>7. CASE Finish(e)
  <2>1. records' \in [Cases -> Records]
    <3>1. \A c \in Cases : Recorded(c, task[e][c]) \in Records /\ records[c] \in Records
      BY RecordedIsRecord DEF TypeOK
    <3> QED
      BY <1>7, <3>1 DEF Finish, TypeOK
  <2>2. status' \in Statuses
    BY <1>7 DEF Finish, Outcome, Statuses, Terminal
  <2>3. End(e)
    BY <1>7 DEF Finish
  <2> QED
    BY <1>7, <2>1, <2>2, <2>3, ExecutionEnded DEF TypeOK, Finish, history, Labels
<1>8. CASE OrphanEnds(e) \/ Crash(e)
  <2>1. End(e)
    BY <1>8 DEF OrphanEnds, Crash
  <2> QED
    BY <1>8, <2>1, ExecutionEnded DEF TypeOK, OrphanEnds, Crash, history, Labels
<1> QED
  BY <1>1, <1>2, <1>3, <1>4, <1>5, <1>6, <1>7, <1>8 DEF Advance

(* Every step keeps the types.                                              *)
LEMMA TypesKept ==
  ASSUME TypeOK, [Next]_vars
  PROVE  TypeOK'
<1>1. run' = run
  BY RunIsConstant
<1>2. ASSUME NEW e \in Executors, Load(e) \/ Advance(e) \/ Crash(e) PROVE TypeOK'
  BY <1>1, <1>2, AdvanceKeepsTypes
<1>3. CASE CancelLoad \/ CancelCommit \/ UNCHANGED vars
  BY <1>1, <1>3, ParametersAreConstant
  DEF TypeOK, CancelLoad, CancelCommit, vars, execVars, history, Statuses, Terminal
<1> QED
  BY <1>2, <1>3 DEF Next

-----------------------------------------------------------------------------
(* The steps, grouped by what they do to the tasks.                         *)

Quiet ==
  /\ status' \in {status, "cancelled"}
  /\ UNCHANGED <<records, pc, left, task, overlapped>>

Moved(e, c) ==
  /\ pc[e] \in {"cases", "orphan"}
  /\ State(e, c) \in {"pending", "selected"}
  /\ \E t \in Tasks : /\ SetTask(e, c, t)
                      /\ t.budget = task[e][c].budget
                      /\ t.st \in {"selected", "running"} \/ (Parallel /\ t.st = "refused")
  /\ pc' \in {pc, [pc EXCEPT ![e] = "orphan"]}
  /\ UNCHANGED <<status, records, left, overlapped>>

CaseEnded(e, c) ==
  /\ State(e, c) = "running"
  /\ \E t \in Tasks : /\ EndCase(e, c, t)
                      /\ t.budget = task[e][c].budget
                      /\ t.st \in {"completed", "failed"}
                      /\ DryRun => /\ t.st = "completed" => t.cost = Cost[c] /\ Affordable(c)
                                   /\ t.st = "failed" => ~Affordable(c)

Ended(e) == End(e) /\ UNCHANGED <<status, records, overlapped>>

(* A case is run with the budget that is its share.                         *)
LEMMA CaseEnds ==
  ASSUME TypeOK, Plans, NEW e \in Executors, NEW c \in Cases,
         RunDry(e, c) \/ RunLive(e, c) \/ RunFails(e, c)
  PROVE  CaseEnded(e, c)
<1>1. State(e, c) = "running"
  BY DEF RunDry, RunLive, RunFails
<1>2. task[e][c] \in Tasks
  BY DEF TypeOK
<1> DEFINE completed(k) == [task[e][c] EXCEPT !.st = "completed", !.cost = k]
           failed == [task[e][c] EXCEPT !.st = "failed"]
<1>3. /\ \A k \in Nat : /\ completed(k) \in Tasks
                        /\ completed(k).budget = task[e][c].budget
                        /\ completed(k).st = "completed" /\ completed(k).cost = k
      /\ failed \in Tasks /\ failed.budget = task[e][c].budget /\ failed.st = "failed"
  BY <1>2 DEF Tasks, Done
<1> HIDE DEF completed, failed
<1>4. CASE DryRun
  <2>1. task[e][c].budget = Share(c)
    BY <1>1, <1>4 DEF Plans, DryPlan
  <2>2. Cost[c] \in Nat \ {0} /\ Share(c) \in Nat
    BY Parameters, SharesOfRun DEF TypeOK
  <2>3. RunDry(e, c)
    BY <1>4 DEF RunLive, RunFails
  <2>4. CASE Affordable(c)
    <3>1. EndCase(e, c, completed(Cost[c]))
      BY <2>1, <2>2, <2>3, <2>4 DEF RunDry, Affordable, completed
    <3> QED
      BY <1>1, <1>3, <2>2, <2>4, <3>1 DEF CaseEnded
  <2>5. CASE ~Affordable(c)
    <3>1. EndCase(e, c, failed)
      BY <2>1, <2>2, <2>3, <2>5 DEF RunDry, Affordable, failed
    <3> QED
      BY <1>1, <1>3, <2>5, <3>1 DEF CaseEnded
  <2> QED
    BY <2>4, <2>5
<1>5. CASE ~DryRun
  <2>1. CASE RunLive(e, c)
    <3>1. PICK k \in LiveCosts :
            EndCase(e, c, IF k <= task[e][c].budget THEN completed(k) ELSE failed)
      BY <2>1 DEF RunLive, completed, failed
    <3>2. k \in Nat
      BY ConstantsAssumption
    <3>3. EndCase(e, c, completed(k)) \/ EndCase(e, c, failed)
      BY <3>1, Zenon
    <3> QED
      BY <1>1, <1>3, <1>5, <3>2, <3>3 DEF CaseEnded
  <2>2. CASE RunFails(e, c)
    <3>1. EndCase(e, c, failed)
      BY <2>2 DEF RunFails, failed
    <3> QED
      BY <1>1, <1>3, <1>5, <3>1 DEF CaseEnded
  <2> QED
    BY <1>5, <2>1, <2>2 DEF RunDry
<1> QED
  BY <1>4, <1>5

(* A case is selected, claimed or refused while the cases are run.          *)
LEMMA CaseMoves ==
  ASSUME TypeOK, Plans, NEW e \in Executors, NEW c \in Cases,
         SelectCase(e, c) \/ ClaimCase(e, c) \/ (Parallel /\ ClaimRefused(e, c))
  PROVE  Moved(e, c)
<1>1. State(e, c) \in {"pending", "selected"}
  BY DEF SelectCase, ClaimCase, ClaimRefused
<1>2. pc[e] \in {"cases", "orphan"}
  <2>1. CASE SelectCase(e, c)
    BY <2>1 DEF SelectCase
  <2>2. CASE State(e, c) = "selected"
    <3>1. pc[e] \in Labels
      BY DEF TypeOK, Labels
    <3>2. pc[e] \notin {"idle", "loaded"}
      BY <2>2 DEF Plans, Fresh, State, Unread
    <3>3. pc[e] # "plan"
      BY <2>2 DEF Plans, ReadInOrder
    <3> QED
      BY <3>1, <3>2, <3>3 DEF Labels
  <2> QED
    BY <2>1, <2>2 DEF ClaimCase, ClaimRefused
<1>3. task[e][c] \in Tasks
  BY DEF TypeOK
<1> DEFINE selected == [task[e][c] EXCEPT !.st = "selected", !.insert = (records[c].status = "none")]
           moved(s) == [task[e][c] EXCEPT !.st = s]
<1>4. /\ selected \in Tasks /\ selected.budget = task[e][c].budget /\ selected.st = "selected"
      /\ \A s \in {"running", "refused"} :
           moved(s) \in Tasks /\ moved(s).budget = task[e][c].budget /\ moved(s).st = s
  BY <1>3 DEF Tasks, Done
<1> HIDE DEF selected, moved
<1>5. CASE SelectCase(e, c)
  <2>1. SetTask(e, c, selected) /\ pc' = pc /\ UNCHANGED <<status, records, left, overlapped>>
    BY <1>5 DEF SelectCase, selected, history
  <2> QED
    BY <1>1, <1>2, <1>4, <2>1 DEF Moved
<1>6. CASE ClaimCase(e, c)
  <2>1. SetTask(e, c, moved("running")) /\ pc' = pc /\ UNCHANGED <<status, records, left, overlapped>>
    BY <1>6 DEF ClaimCase, moved, history
  <2> QED
    BY <1>1, <1>2, <1>4, <2>1 DEF Moved
<1>7. CASE Parallel /\ ClaimRefused(e, c)
  <2>1. /\ SetTask(e, c, moved("refused")) /\ pc' = [pc EXCEPT ![e] = "orphan"]
        /\ UNCHANGED <<status, records, left, overlapped>>
    BY <1>7 DEF ClaimRefused, moved, history, Goto
  <2> QED
    BY <1>1, <1>2, <1>4, <1>7, <2>1 DEF Moved
<1> QED
  BY <1>5, <1>6, <1>7

(* Every step is one of these.                                              *)
LEMMA Steps ==
  ASSUME TypeOK, Plans, [Next]_vars
  PROVE  \/ Quiet
         \/ \E e \in Executors : Load(e) \/ Start(e) \/ Ended(e) \/ Finish(e)
         \/ \E e \in Executors, c \in Cases : PlanCase(e, c) \/ Moved(e, c) \/ CaseEnded(e, c)
<1>1. CASE CancelLoad \/ CancelCommit \/ UNCHANGED vars
  BY <1>1 DEF CancelLoad, CancelCommit, vars, execVars, history, Quiet
<1>2. ASSUME NEW e \in Executors, NEW c \in Cases, ClaimRefused(e, c), ~Parallel
      PROVE  Ended(e)
  BY <1>2 DEF ClaimRefused, Ended, history
<1>3. ASSUME NEW e \in Executors, OrphanEnds(e) \/ Crash(e) PROVE Ended(e)
  BY <1>3 DEF OrphanEnds, Crash, Ended, history
<1> QED
  BY <1>1, <1>2, <1>3, CaseEnds, CaseMoves, Zenon DEF Next, Advance

-----------------------------------------------------------------------------
(* No step changes the stored result of a completed case, but for live      *)
(* executions that overlap.                                                 *)
LEMMA ResultsKept ==
  ASSUME Inv, [Next]_vars
  PROVE  Kept
<1>1. SUFFICES ASSUME NEW c \in Cases, Undisturbed, records[c].status = "completed"
               PROVE  records'[c] = records[c]
  BY DEF Kept
<1>2. records \in [Cases -> Records]
  BY DEF Inv, TypeOK
<1>3. DryRun => /\ records[c] = [status |-> "completed", cost |-> Cost[c]]
                /\ Affordable(c)
  BY <1>1, <1>2 DEF Inv, DryRecords, Records
<1>4. Parallel => DryRun
  BY DEF Parallel
<1>5. CASE Quiet \/ \E e \in Executors : Load(e) \/ Start(e) \/ Ended(e)
  BY <1>5 DEF Quiet, Load, Start, Ended
<1>6. CASE \E e \in Executors, d \in Cases : PlanCase(e, d) \/ Moved(e, d)
  BY <1>6 DEF PlanCase, Moved
<1>7. ASSUME NEW e \in Executors, NEW d \in Cases, CaseEnded(e, d)
      PROVE  records'[c] = records[c]
  <2>1. PICK t \in Tasks :
          /\ EndCase(e, d, t) /\ t.st \in {"completed", "failed"}
          /\ DryRun => /\ t.st = "completed" => t.cost = Cost[d]
                       /\ t.st = "failed" => ~Affordable(d)
    BY <1>7 DEF CaseEnded
  <2>2. CASE Parallel /\ d = c
    <3>1. t.st = "completed" /\ t.cost = Cost[c]
      BY <1>3, <1>4, <2>1, <2>2
    <3>2. Recorded(c, t) = records[c]
      BY <1>3, <1>4, <2>2, <3>1 DEF Recorded
    <3> QED
      BY <1>2, <2>1, <2>2, <3>2 DEF EndCase
  <2>3. CASE ~(Parallel /\ d = c)
    BY <1>2, <2>1, <2>3 DEF EndCase
  <2> QED
    BY <2>2, <2>3
<1>8. ASSUME NEW e \in Executors, Finish(e)
      PROVE  records'[c] = records[c]
  <2>1. CASE Parallel \/ State(e, c) = "kept"
    BY <1>2, <1>8, <2>1 DEF Finish
  <2>2. CASE ~Parallel /\ State(e, c) # "kept"
    <3>1. State(e, c) \in {"completed", "failed"}
      BY <1>8, <2>2 DEF Finish, Done, Inv, Plans, RefusedOnlyInParallel
    <3>2. DryRun
      BY <1>1, <3>1 DEF Inv, ReadStillHolds, Undisturbed
    <3>3. State(e, c) = "completed" /\ task[e][c].cost = Cost[c]
      BY <1>3, <3>1, <3>2 DEF Inv, Plans, DryPlan
    <3>4. Recorded(c, task[e][c]) = records[c]
      BY <1>3, <3>2, <3>3 DEF Recorded, State
    <3> QED
      BY <1>8, <2>2, <3>4 DEF Finish
  <2> QED
    BY <2>1, <2>2
<1> QED
  BY <1>5, <1>6, <1>7, <1>8, Steps DEF Inv

(* Every result that a dry run stores is the one its share allows.          *)
LEMMA DryRecordsKept ==
  ASSUME Inv, [Next]_vars
  PROVE  DryRecords'
<1>0. run' = run
  BY RunIsConstant
<1>1. SUFFICES ASSUME DryRun, NEW c \in Cases, records'[c].status = "completed"
               PROVE  records'[c].cost = Cost[c] /\ Affordable(c)
  BY <1>0, ParametersAreConstant DEF DryRecords
<1>2. records[c].status = "completed" => records[c].cost = Cost[c] /\ Affordable(c)
  BY <1>1 DEF Inv, DryRecords
<1>3. records \in [Cases -> Records]
  BY DEF Inv, TypeOK
<1>4. CASE Quiet \/ \E e \in Executors : Load(e) \/ Start(e) \/ Ended(e)
  BY <1>1, <1>2, <1>4 DEF Quiet, Load, Start, Ended
<1>5. CASE \E e \in Executors, d \in Cases : PlanCase(e, d) \/ Moved(e, d)
  BY <1>1, <1>2, <1>5 DEF PlanCase, Moved
<1>6. ASSUME NEW e \in Executors, NEW d \in Cases, CaseEnded(e, d)
      PROVE  records'[c].cost = Cost[c] /\ Affordable(c)
  <2>1. PICK t \in Tasks :
          /\ EndCase(e, d, t) /\ t.st \in {"completed", "failed"}
          /\ t.st = "completed" => t.cost = Cost[d] /\ Affordable(d)
    BY <1>1, <1>6 DEF CaseEnded
  <2>2. CASE Parallel /\ d = c
    <3>1. records'[c] = Recorded(c, t)
      BY <1>3, <2>1, <2>2 DEF EndCase
    <3>2. t.st = "completed"
      BY <1>1, <1>3, <2>1, <3>1 DEF Recorded, Records
    <3> QED
      BY <2>1, <2>2, <3>1, <3>2 DEF Recorded
  <2>3. CASE ~(Parallel /\ d = c)
    <3>1. records'[c] = records[c]
      BY <1>3, <2>1, <2>3 DEF EndCase
    <3> QED
      BY <1>1, <1>2, <3>1
  <2> QED
    BY <2>2, <2>3
<1>7. ASSUME NEW e \in Executors, Finish(e)
      PROVE  records'[c].cost = Cost[c] /\ Affordable(c)
  <2>1. records'[c] \in {records[c], Recorded(c, task[e][c])}
    BY <1>3, <1>7 DEF Finish
  <2>2. CASE records'[c] = records[c]
    BY <1>1, <1>2, <2>2
  <2>3. CASE records'[c] = Recorded(c, task[e][c])
    <3>1. State(e, c) = "completed"
      BY <1>1, <1>3, <2>3 DEF Recorded, Records, State
    <3>2. task[e][c].cost = Cost[c] /\ Affordable(c)
      BY <1>1, <3>1 DEF Inv, Plans, DryPlan
    <3> QED
      BY <2>3, <3>1, <3>2 DEF Recorded, State
  <2> QED
    BY <2>1, <2>2, <2>3
<1> QED
  BY <1>4, <1>5, <1>6, <1>7, Steps DEF Inv

(* A run becomes completed only when all its results are.                   *)
LEMMA CompletionKept ==
  ASSUME Inv, [Next]_vars
  PROVE  CompletedMeansAll'
<1>0. run' = run /\ (overlapped => overlapped')
  BY RunIsConstant
<1>1. SUFFICES ASSUME Undisturbed, status' = "completed", NEW c \in Cases
               PROVE  records'[c].status = "completed"
  BY <1>0, ParametersAreConstant DEF CompletedMeansAll, Undisturbed
<1>2. CASE records[c].status = "completed"
  BY <1>1, <1>2, ResultsKept DEF Kept
<1>3. CASE records[c].status # "completed"
  <2>1. status # "completed"
    BY <1>1, <1>3 DEF Inv, CompletedMeansAll
  <2>2. PICK e \in Executors : Finish(e)
    <3>1. \A e \in Executors : ~Load(e) /\ ~Start(e) /\ ~Ended(e)
      BY <1>1, <2>1 DEF Load, Start, Ended
    <3>2. \A e \in Executors, d \in Cases : ~PlanCase(e, d) /\ ~Moved(e, d) /\ ~CaseEnded(e, d)
      BY <1>1, <2>1 DEF PlanCase, Moved, CaseEnded, EndCase
    <3>3. ~Quiet
      BY <1>1, <2>1 DEF Quiet
    <3> QED
      BY <3>1, <3>2, <3>3, Steps, Zenon DEF Inv
  <2>3. State(e, c) \in {"kept", "completed"}
    BY <1>1, <2>2 DEF Finish, Outcome
  <2>4. State(e, c) = "completed"
    BY <1>1, <1>3, <2>3 DEF Inv, ReadStillHolds
  <2>5. ~Parallel
    BY <1>3, <2>4 DEF Inv, Stored
  <2>6. records'[c] = Recorded(c, task[e][c])
    BY <2>2, <2>4, <2>5 DEF Finish
  <2> QED
    BY <2>4, <2>6 DEF Recorded, State
<1> QED
  BY <1>2, <1>3

-----------------------------------------------------------------------------
(* The plans of the executions, over the steps that do not run a case.      *)
LEMMA BeginningKeepsPlans ==
  ASSUME Inv, run' = run, NEW e \in Executors, Load(e) \/ Start(e)
  PROVE  Plans'
<1> USE DEF Inv, Plans, TypeOK
<1>0. /\ Cases' = Cases /\ Budget' = Budget /\ DryRun' = DryRun /\ Parallel' = Parallel
      /\ \A c \in Cases : Share(c)' = Share(c) /\ Affordable(c)' = Affordable(c)
  BY ParametersAreConstant
<1>1. task' = task /\ \A f \in Executors \ {e} : pc'[f] = pc[f] /\ left'[f] = left[f]
  BY DEF Load, Start, Goto, execVars
<1>2. \/ pc[e] = "idle" /\ pc'[e] = "loaded"
      \/ pc[e] = "loaded" /\ pc'[e] = "plan"
  <2>1. pc \in [Executors -> Labels]
    BY DEF Labels
  <2> QED
    BY <2>1 DEF Load, Start, Goto
<1>3. \A c \in Cases : task[e][c] = Unread
  BY <1>2 DEF Fresh
<1>4. Fresh' /\ ReadInOrder' /\ RefusedOnlyInParallel'
  <2>1. Fresh'
    BY <1>0, <1>1, <1>3 DEF Fresh
  <2>2. ReadInOrder'
    <3>1. \A c \in Cases : task[e][c].st = "unread"
      BY <1>3 DEF Unread
    <3> QED
      BY <1>0, <1>1, <1>2, <3>1 DEF ReadInOrder, State
  <2>3. RefusedOnlyInParallel'
    BY <1>0, <1>1 DEF RefusedOnlyInParallel, State
  <2> QED
    BY <2>1, <2>2, <2>3
<1>5. Alone'
  <2>1. CASE Load(e)
    BY <1>1, <2>1 DEF Load, Alone
  <2>2. CASE Start(e)
    BY <1>1, <1>2, <2>2 DEF Start, Alone, history
  <2> QED
    BY <2>1, <2>2
<1>6. DryPlan'
  <2>1. ASSUME DryRun, NEW c \in Cases, pc'[e] = "plan",
               \A d \in Cases : d < c => task[e][d].st # "unread"
        PROVE  left'[e] = Share(c)
    <3>1. 1 \in Cases /\ c \in Nat
      BY Parameters
    <3>2. \A d \in Cases : task[e][d].st = "unread"
      BY <1>3 DEF Unread
    <3>3. c = 1
      <4>1. c \in Nat /\ c >= 1
        BY Parameters
      <4>2. ~(1 < c)
        BY <2>1, <3>1, <3>2
      <4> QED
        BY <4>1, <4>2
    <3>4. left'[e] = Budget
      BY <1>2, <2>1 DEF Load, Start
    <3> QED
      BY <3>3, <3>4, SharesOfRun
  <2> QED
    BY <1>0, <1>1, <2>1 DEF DryPlan, State
<1> QED
  BY <1>4, <1>5, <1>6

(* Reading the next case gives it its share.                                *)
LEMMA PlanningKeepsPlans ==
  ASSUME Inv, run' = run, NEW e \in Executors, NEW c \in Cases, PlanCase(e, c)
  PROVE  Plans'
<1> USE DEF Inv, Plans
<1>0. /\ Cases' = Cases /\ Budget' = Budget /\ DryRun' = DryRun /\ Parallel' = Parallel
      /\ \A d \in Cases : Share(d)' = Share(d) /\ Affordable(d)' = Affordable(d)
  BY ParametersAreConstant
<1>1. PICK t : SetTask(e, c, t) /\ t.st \in {"kept", "pending"} /\ (t.st = "pending" => t.budget = left[e])
  <2>1. CASE records[c].status = "completed"
    <3>1. SetTask(e, c, [Unread EXCEPT !.st = "kept"])
      BY <2>1 DEF PlanCase
    <3> QED
      BY <3>1 DEF Unread
  <2>2. CASE records[c].status # "completed"
    <3> DEFINE planned == [Unread EXCEPT !.st = "pending", !.budget = left[e]]
    <3>1. SetTask(e, c, planned)
      BY <2>2 DEF PlanCase
    <3>2. planned.st = "pending" /\ planned.budget = left[e]
      BY DEF Unread
    <3> HIDE DEF planned
    <3> QED
      BY <3>1, <3>2
  <2> QED
    BY <2>1, <2>2
<1>2. /\ task'[e][c] = t
      /\ \A f \in Executors : \A d \in Cases : f # e \/ d # c => task'[f][d] = task[f][d]
  BY <1>1, TaskSet
<1>3. /\ pc[e] = "plan" /\ pc'[e] \in {"plan", "cases"}
      /\ pc'[e] = "cases" <=> c = run.max_cases
      /\ \A f \in Executors \ {e} : pc'[f] = pc[f] /\ left'[f] = left[f]
  BY DEF PlanCase, Goto, TypeOK
<1>4. /\ Cases = 1..run.max_cases /\ run.max_cases \in Nat
      /\ task[e][c].st = "unread" /\ \A d \in Cases : d < c => task[e][d].st # "unread"
  BY Parameters DEF TypeOK, PlanCase, State
<1>5. Fresh'
  BY <1>0, <1>2, <1>3 DEF Fresh
<1>6. ReadInOrder'
  <2>1. ASSUME NEW f \in Executors, f # e
        PROVE  /\ \A d, g \in Cases : d < g /\ task'[f][d].st = "unread" => task'[f][g].st = "unread"
               /\ pc'[f] = "plan" => \A d \in Cases : task'[f][d].st \in {"unread", "kept", "pending"}
               /\ pc'[f] \in {"cases", "orphan"} => \A d \in Cases : task'[f][d].st # "unread"
    BY <1>2, <1>3, <2>1 DEF ReadInOrder, State
  <2>2. \A d, g \in Cases : d < g /\ task'[e][d].st = "unread" => task'[e][g].st = "unread"
    <3>1. SUFFICES ASSUME NEW d \in Cases, NEW g \in Cases, d < g, task'[e][d].st = "unread"
                   PROVE  task'[e][g].st = "unread"
      OBVIOUS
    <3>2. d # c
      BY <1>1, <1>2, <3>1
    <3>3. task[e][d].st = "unread"
      BY <1>2, <3>1, <3>2
    <3>4. c < d
      BY <1>4, <3>2, <3>3
    <3>5. task[e][g].st = "unread"
      BY <3>1, <3>3 DEF ReadInOrder, State
    <3>6. g # c
      BY <1>4, <3>1, <3>4
    <3> QED
      BY <1>2, <3>5, <3>6
  <2>3. \A d \in Cases : task'[e][d].st \in {"unread", "kept", "pending"}
    BY <1>1, <1>2, <1>3 DEF ReadInOrder, State
  <2>4. pc'[e] = "cases" => \A d \in Cases : task'[e][d].st # "unread"
    BY <1>1, <1>2, <1>3, <1>4
  <2> QED
    BY <1>0, <1>3, <2>1, <2>2, <2>3, <2>4 DEF ReadInOrder, State
<1>7. Alone'
  BY <1>3 DEF Alone, PlanCase, history
<1>8. RefusedOnlyInParallel'
  BY <1>0, <1>1, <1>2 DEF RefusedOnlyInParallel, State
<1>9. DryPlan'
  <2>1. SUFFICES ASSUME DryRun PROVE DryPlan'
    BY <1>0 DEF DryPlan
  <2>2. left[e] = Share(c)
    BY <1>3, <1>4, <2>1 DEF DryPlan, State
  <2>3. left'[e] = Share(c + 1)
    <3>1. left'[e] = Less(left[e], Cost[c])
      BY <2>1 DEF PlanCase, TypeOK, DryRecords
    <3> QED
      BY <2>2, <3>1, SharesOfRun DEF TypeOK
  <2>4. ASSUME NEW d \in Cases, task'[e][d].st = "unread",
               \A g \in Cases : g < d => task'[e][g].st # "unread"
        PROVE  d = c + 1
    <3>1. d # c /\ ~(d < c)
      BY <1>1, <1>2, <1>4, <2>4
    <3>2. c + 1 \in Cases
      BY <1>4, <3>1
    <3>3. task[e][d].st = "unread"
      BY <1>2, <2>4, <3>1
    <3>4. \A g \in Cases : g < c => task'[e][g].st # "unread"
      BY <1>2, <1>4
    <3>5. ASSUME c + 1 < d PROVE FALSE
      <4>1. task'[e][c + 1].st # "unread"
        BY <2>4, <3>2, <3>5
      <4>2. task[e][c + 1].st # "unread"
        BY <1>2, <1>4, <3>2, <4>1
      <4>3. c < c + 1
        BY <1>4
      <4> QED
        BY <1>4, <3>2, <4>2, <4>3 DEF ReadInOrder, State
    <3> QED
      BY <1>4, <3>1, <3>5
  <2>5. ASSUME NEW f \in Executors, NEW d \in Cases
        PROVE  /\ task'[f][d].st \notin {"unread", "kept"} => task'[f][d].budget = Share(d)
               /\ task'[f][d].st = "completed" => task'[f][d].cost = Cost[d] /\ Affordable(d)
               /\ task'[f][d].st = "failed" => ~Affordable(d)
    <3>1. CASE f = e /\ d = c
      BY <1>1, <1>2, <2>2, <3>1
    <3>2. CASE ~(f = e /\ d = c)
      BY <1>2, <2>1, <3>2 DEF DryPlan, State
    <3> QED
      BY <3>1, <3>2
  <2>6. ASSUME NEW f \in Executors, NEW d \in Cases, pc'[f] = "plan", task'[f][d].st = "unread",
               \A g \in Cases : g < d => task'[f][g].st # "unread"
        PROVE  left'[f] = Share(d)
    <3>1. CASE f = e
      BY <2>3, <2>4, <2>6, <3>1
    <3>2. CASE f # e
      BY <1>2, <1>3, <2>1, <2>6, <3>2 DEF DryPlan, State
    <3> QED
      BY <3>1, <3>2
  <2> QED
    BY <1>0, <2>5, <2>6 DEF DryPlan, State
<1> QED
  BY <1>5, <1>6, <1>7, <1>8, <1>9

-----------------------------------------------------------------------------
(* A step that changes one task, and not what has been read.                *)
LEMMA RunningKeepsPlans ==
  ASSUME Inv, run' = run, NEW e \in Executors, NEW c \in Cases, Moved(e, c) \/ CaseEnded(e, c)
  PROVE  Plans'
<1> USE DEF Inv, Plans
<1>0. /\ Cases' = Cases /\ Budget' = Budget /\ DryRun' = DryRun /\ Parallel' = Parallel
      /\ \A d \in Cases : Share(d)' = Share(d) /\ Affordable(d)' = Affordable(d)
  BY ParametersAreConstant
<1>1. State(e, c) \in {"pending", "selected", "running"}
  BY DEF Moved, CaseEnded
<1>2. PICK t \in Tasks :
        /\ SetTask(e, c, t) /\ t.budget = task[e][c].budget
        /\ t.st \in {"selected", "running", "completed", "failed"} \/ (Parallel /\ t.st = "refused")
        /\ DryRun => /\ t.st = "completed" => t.cost = Cost[c] /\ Affordable(c)
                     /\ t.st = "failed" => ~Affordable(c)
  <2>1. CASE Moved(e, c)
    BY <2>1, Zenon DEF Moved
  <2>2. CASE CaseEnded(e, c)
    BY <2>2, Zenon DEF CaseEnded, EndCase
  <2> QED
    BY <2>1, <2>2
<1>3. /\ task'[e][c] = t
      /\ \A f \in Executors : \A d \in Cases : f # e \/ d # c => task'[f][d] = task[f][d]
  BY <1>2, TaskSet
<1>4. /\ pc' \in {pc, [pc EXCEPT ![e] = "orphan"]}
      /\ left' = left /\ overlapped' = overlapped
  BY DEF Moved, CaseEnded, EndCase
<1>5. pc \in [Executors -> Labels] /\ pc[e] \notin {"idle", "loaded"}
  BY <1>1 DEF Fresh, State, Unread, TypeOK, Labels
<1>6. pc'[e] = "orphan" \/ pc'[e] = pc[e]
  BY <1>4, <1>5
<1>7. \A f \in Executors \ {e} : pc'[f] = pc[f]
  BY <1>4, <1>5
<1>8. pc'[e] \notin {"idle", "loaded"} /\ pc[e] # "idle"
  BY <1>5, <1>6
<1>9. Fresh'
  BY <1>0, <1>3, <1>7, <1>8 DEF Fresh
<1>10. pc[e] \in {"cases", "orphan"}
  <2>1. CASE Moved(e, c)
    BY <2>1 DEF Moved
  <2>2. CASE CaseEnded(e, c)
    <3>1. pc[e] # "plan"
      BY <2>2 DEF CaseEnded, ReadInOrder
    <3> QED
      BY <1>5, <3>1 DEF Labels
  <2> QED
    BY <2>1, <2>2
<1>11. \A f \in Executors : \A d \in Cases : task'[f][d].st = "unread" <=> task[f][d].st = "unread"
  BY <1>1, <1>2, <1>3 DEF State
<1>12. ReadInOrder'
  <2>1. ASSUME NEW f \in Executors
        PROVE  \A d, g \in Cases : d < g /\ task'[f][d].st = "unread" => task'[f][g].st = "unread"
    BY <1>11 DEF ReadInOrder, State
  <2>2. ASSUME NEW f \in Executors, pc'[f] = "plan"
        PROVE  \A d \in Cases : task'[f][d].st \in {"unread", "kept", "pending"}
    <3>1. f # e
      BY <1>6, <1>10, <2>2
    <3> QED
      BY <1>3, <1>7, <2>2, <3>1 DEF ReadInOrder, State
  <2>3. ASSUME NEW f \in Executors, pc'[f] \in {"cases", "orphan"}
        PROVE  \A d \in Cases : task'[f][d].st # "unread"
    <3>1. pc[f] \in {"cases", "orphan"}
      BY <1>7, <1>10, <2>3
    <3> QED
      BY <1>11, <3>1 DEF ReadInOrder, State
  <2> QED
    BY <1>0, <2>1, <2>2, <2>3 DEF ReadInOrder, State
<1>13. Alone'
  BY <1>4, <1>7, <1>8 DEF Alone
<1>14. RefusedOnlyInParallel'
  BY <1>0, <1>2, <1>3 DEF RefusedOnlyInParallel, State
<1>15. DryPlan'
  <2>1. SUFFICES ASSUME DryRun PROVE DryPlan'
    BY <1>0 DEF DryPlan
  <2>2. ASSUME NEW f \in Executors, NEW d \in Cases
        PROVE  /\ task'[f][d].st \notin {"unread", "kept"} => task'[f][d].budget = Share(d)
               /\ task'[f][d].st = "completed" => task'[f][d].cost = Cost[d] /\ Affordable(d)
               /\ task'[f][d].st = "failed" => ~Affordable(d)
    <3>1. CASE f = e /\ d = c
      <4>1. task[e][c].budget = Share(c)
        BY <1>1, <2>1 DEF DryPlan
      <4> QED
        BY <1>2, <1>3, <2>1, <3>1, <4>1
    <3>2. CASE ~(f = e /\ d = c)
      BY <1>3, <2>1, <3>2 DEF DryPlan, State
    <3> QED
      BY <3>1, <3>2
  <2>3. ASSUME NEW f \in Executors, NEW d \in Cases, pc'[f] = "plan", task'[f][d].st = "unread",
               \A g \in Cases : g < d => task'[f][g].st # "unread"
        PROVE  left'[f] = Share(d)
    <3>1. f # e
      BY <1>6, <1>10, <2>3
    <3> QED
      BY <1>3, <1>4, <1>7, <2>1, <2>3, <3>1 DEF DryPlan, State
  <2> QED
    BY <1>0, <2>2, <2>3 DEF DryPlan, State
<1> QED
  BY <1>9, <1>12, <1>13, <1>14, <1>15

(* An execution that has ended has no plan.                                 *)
LEMMA EndingKeepsPlans ==
  ASSUME Inv, run' = run, overlapped' = overlapped, NEW e \in Executors, End(e)
  PROVE  Plans'
<1> USE DEF Inv, Plans
<1>0. /\ Cases' = Cases /\ Budget' = Budget /\ DryRun' = DryRun /\ Parallel' = Parallel
      /\ \A d \in Cases : Share(d)' = Share(d) /\ Affordable(d)' = Affordable(d)
  BY ParametersAreConstant
<1>1. /\ pc'[e] = "idle" /\ \A c \in Cases : task'[e][c] = Unread
      /\ \A f \in Executors \ {e} : pc'[f] = pc[f] /\ task'[f] = task[f] /\ left'[f] = left[f]
  BY ExecutionEnded
<1>2. \A c \in Cases : task'[e][c].st = "unread"
  BY <1>1 DEF Unread
<1>3. Fresh'
  BY <1>0, <1>1 DEF Fresh
<1>4. ReadInOrder'
  BY <1>0, <1>1, <1>2 DEF ReadInOrder, State
<1>5. Alone'
  BY <1>1 DEF Alone
<1>6. RefusedOnlyInParallel'
  BY <1>0, <1>1, <1>2 DEF RefusedOnlyInParallel, State
<1>7. DryPlan'
  BY <1>0, <1>1, <1>2 DEF DryPlan, State
<1> QED
  BY <1>3, <1>4, <1>5, <1>6, <1>7

(* Every step keeps the plans.                                              *)
LEMMA PlansKept ==
  ASSUME Inv, [Next]_vars
  PROVE  Plans'
<1>1. run' = run
  BY RunIsConstant
<1>2. CASE Quiet
  <2>1. /\ Cases' = Cases /\ DryRun' = DryRun /\ Parallel' = Parallel
        /\ \A d \in Cases : Share(d)' = Share(d) /\ Affordable(d)' = Affordable(d)
    BY <1>1, ParametersAreConstant
  <2> QED
    BY <1>2, <2>1 DEF Quiet, Inv, Plans, Fresh, ReadInOrder, Alone, RefusedOnlyInParallel, DryPlan, State
<1>3. ASSUME NEW e \in Executors, Load(e) \/ Start(e) PROVE Plans'
  BY <1>1, <1>3, BeginningKeepsPlans
<1>4. ASSUME NEW e \in Executors, Ended(e) \/ Finish(e) PROVE Plans'
  BY <1>1, <1>4, EndingKeepsPlans DEF Ended, Finish, history
<1>5. ASSUME NEW e \in Executors, NEW c \in Cases, PlanCase(e, c) PROVE Plans'
  BY <1>1, <1>5, PlanningKeepsPlans
<1>6. ASSUME NEW e \in Executors, NEW c \in Cases, Moved(e, c) \/ CaseEnded(e, c) PROVE Plans'
  BY <1>1, <1>6, RunningKeepsPlans
<1> QED
  BY <1>2, <1>3, <1>4, <1>5, <1>6, Steps, Zenon DEF Inv

-----------------------------------------------------------------------------
(* What the tasks say of the records stays so.                              *)
LEMMA ReadingsKept ==
  ASSUME Inv, [Next]_vars
  PROVE  ReadStillHolds' /\ Stored'
<1> USE DEF Inv
<1>0. run' = run /\ (overlapped => overlapped') /\ TypeOK'
  BY RunIsConstant, TypesKept
<1>1. Cases' = Cases /\ DryRun' = DryRun /\ Parallel' = Parallel
  BY <1>0, ParametersAreConstant
<1>2. Parallel => DryRun
  BY DEF Parallel
<1>3. \A c \in Cases : Undisturbed /\ records[c].status = "completed" => records'[c].status = "completed"
  BY ResultsKept DEF Kept
<1> DEFINE Reads(e, c) ==
             /\ Undisturbed' /\ task'[e][c].st = "kept" => records'[c].status = "completed"
             /\ ~DryRun /\ ~overlapped' /\ task'[e][c].st \notin {"unread", "kept"}
                  => records'[c].status # "completed"
             /\ Parallel /\ task'[e][c].st = "completed" => records'[c].status = "completed"
<1>4. SUFFICES ASSUME NEW e \in Executors, NEW c \in Cases PROVE Reads(e, c)
  BY <1>1 DEF ReadStillHolds, Stored, State
<1>5. Undisturbed' => Undisturbed
  BY <1>0, <1>1 DEF Undisturbed
<1>6. ASSUME task'[e][c] = task[e][c], records' = records PROVE Reads(e, c)
  BY <1>0, <1>1, <1>5, <1>6 DEF ReadStillHolds, Stored, State
<1>7. ASSUME task'[e][c] = Unread PROVE Reads(e, c)
  BY <1>7 DEF Unread
<1>8. CASE Quiet \/ \E f \in Executors : Load(f) \/ Start(f)
  BY <1>6, <1>8 DEF Quiet, Load, Start
<1>9. ASSUME NEW f \in Executors, Ended(f) PROVE Reads(e, c)
  BY <1>6, <1>7, <1>9, ExecutionEnded DEF Ended
<1>10. ASSUME NEW f \in Executors, Finish(f) PROVE Reads(e, c)
  <2>1. CASE e = f
    BY <1>7, <1>10, <2>1, ExecutionEnded DEF Finish
  <2>2. CASE e # f
    <3>1. task'[e][c] = task[e][c] /\ overlapped' = overlapped
      BY <1>10, <2>2, ExecutionEnded DEF Finish, history
    <3>2. Undisturbed /\ task[e][c].st = "kept" => records'[c].status = "completed"
      BY <1>3 DEF ReadStillHolds, State
    <3>3. ~overlapped => task[e][c].st = "unread"
      <4>1. ~overlapped => pc[e] = "idle"
        BY <1>10, <2>2 DEF Finish, Plans, Alone
      <4> QED
        BY <4>1 DEF Plans, Fresh, Unread
    <3>4. Parallel /\ task[e][c].st = "completed" => records'[c].status = "completed"
      BY <1>2, <1>3 DEF Stored, State, Undisturbed
    <3> QED
      BY <1>5, <3>1, <3>2, <3>3, <3>4
  <2> QED
    BY <2>1, <2>2
<1>11. ASSUME NEW f \in Executors, NEW d \in Cases, PlanCase(f, d) PROVE Reads(e, c)
  <2>1. CASE e = f /\ c = d
    <3>1. CASE records[c].status = "completed"
      <4>1. SetTask(e, c, [Unread EXCEPT !.st = "kept"]) /\ records' = records
        BY <1>11, <2>1, <3>1 DEF PlanCase
      <4>2. task'[e][c].st = "kept"
        BY <4>1, TaskSet DEF Unread
      <4> QED
        BY <3>1, <4>1, <4>2
    <3>2. CASE records[c].status # "completed"
      <4> DEFINE planned == [Unread EXCEPT !.st = "pending", !.budget = left[e]]
      <4>1. SetTask(e, c, planned) /\ records' = records
        BY <1>11, <2>1, <3>2 DEF PlanCase
      <4>2. planned.st = "pending"
        BY DEF Unread
      <4> HIDE DEF planned
      <4>3. task'[e][c].st = "pending"
        BY <4>1, <4>2, TaskSet
      <4> QED
        BY <3>2, <4>1, <4>3
    <3> QED
      BY <3>1, <3>2
  <2>2. CASE ~(e = f /\ c = d)
    <3>1. PICK t : SetTask(f, d, t)
      BY <1>11, Zenon DEF PlanCase
    <3>2. task'[e][c] = task[e][c] /\ records' = records
      BY <1>11, <2>2, <3>1, TaskSet DEF PlanCase
    <3> QED
      BY <1>6, <3>2
  <2> QED
    BY <2>1, <2>2
<1>12. ASSUME NEW f \in Executors, NEW d \in Cases, Moved(f, d) PROVE Reads(e, c)
  <2>1. PICK t \in Tasks : SetTask(f, d, t) /\ t.st \in {"selected", "running", "refused"}
    BY <1>12 DEF Moved
  <2>2. records' = records /\ overlapped' = overlapped
    BY <1>12 DEF Moved
  <2>3. CASE e = f /\ c = d
    <3>1. task'[e][c] = t /\ task[e][c].st \notin {"unread", "kept"}
      BY <1>12, <2>1, <2>3, TaskSet DEF Moved, State
    <3> QED
      BY <2>1, <2>2, <3>1 DEF ReadStillHolds, State
  <2>4. CASE ~(e = f /\ c = d)
    <3>1. task'[e][c] = task[e][c]
      BY <2>1, <2>4, TaskSet
    <3> QED
      BY <1>6, <2>2, <3>1
  <2> QED
    BY <2>3, <2>4
<1>13. ASSUME NEW f \in Executors, NEW d \in Cases, CaseEnded(f, d) PROVE Reads(e, c)
  <2>1. PICK t \in Tasks : EndCase(f, d, t) /\ t.st \in {"completed", "failed"}
    BY <1>13 DEF CaseEnded
  <2>2. SetTask(f, d, t) /\ overlapped' = overlapped /\ (~Parallel => records' = records)
    BY <2>1 DEF EndCase
  <2>3. CASE e = f /\ c = d
    <3>1. task'[e][c] = t /\ task[e][c].st = "running"
      BY <1>13, <2>2, <2>3, TaskSet DEF CaseEnded, State
    <3>2. Parallel /\ t.st = "completed" => records'[c].status = "completed"
      BY <2>1, <2>3 DEF EndCase, Recorded, TypeOK
    <3>3. ~DryRun /\ ~overlapped => records'[c].status # "completed"
      BY <1>2, <2>2, <3>1 DEF ReadStillHolds, State
    <3> QED
      BY <2>1, <2>2, <3>1, <3>2, <3>3
  <2>4. CASE ~(e = f /\ c = d)
    <3>1. task'[e][c] = task[e][c]
      BY <2>2, <2>4, TaskSet
    <3>2. CASE ~Parallel
      BY <1>6, <2>2, <3>1, <3>2
    <3>3. CASE Parallel
      <4>1. Undisturbed /\ task[e][c].st \in {"kept", "completed"} => records[c].status = "completed"
        BY <3>3 DEF ReadStillHolds, Stored, State
      <4> QED
        BY <1>2, <1>3, <3>1, <3>3, <4>1 DEF Undisturbed
    <3> QED
      BY <3>2, <3>3
  <2> QED
    BY <2>3, <2>4
<1> QED
  BY <1>8, <1>9, <1>10, <1>11, <1>12, <1>13, Steps, Zenon

-----------------------------------------------------------------------------
(* The invariant holds at first.                                            *)
LEMMA InitEstablishesInv ==
  ASSUME Init
  PROVE  Inv
<1>1. run \in Runs
  BY DEF Init
<1>2. /\ Budget \in Nat /\ MaxExecutions \in Nat
      /\ \A e \in Executors : \A c \in Cases : task[e][c] = Unread
  BY <1>1, Parameters, ConstantsAssumption DEF Init
<1>3. TypeOK
  <2>1. Unread \in Tasks /\ 0 \in 0..Budget
    BY <1>2 DEF Unread, Tasks, Done
  <2>2. [status |-> "none", cost |-> 0] \in Records
    BY DEF Records
  <2>3. /\ status \in Statuses /\ records \in [Cases -> Records]
        /\ pc \in [Executors -> Labels] /\ seen \in [Executors -> Statuses]
    BY <2>2 DEF Init, Statuses, Labels
  <2>4. left \in [Executors -> 0..Budget] /\ task \in [Executors -> [Cases -> Tasks]]
    BY <2>1 DEF Init
  <2>5. /\ cancelling \in BOOLEAN /\ executions \in 0..MaxExecutions
        /\ spent \in Nat /\ overlapped \in BOOLEAN
    <3>1. 0 \in 0..MaxExecutions
      BY <1>2
    <3> QED
      BY <3>1 DEF Init
  <2> QED
    BY <1>1, <2>3, <2>4, <2>5 DEF TypeOK, Labels
<1>4. \A e \in Executors : pc[e] = "idle" /\ \A c \in Cases : State(e, c) = "unread"
  BY <1>2 DEF Init, State, Unread
<1>5. Plans
  BY <1>2, <1>4 DEF Plans, Fresh, ReadInOrder, Alone, RefusedOnlyInParallel, DryPlan
<1>6. \A c \in Cases : records[c].status = "none"
  BY DEF Init
<1>7. DryRecords /\ ReadStillHolds /\ Stored /\ CompletedMeansAll
  BY <1>4, <1>6 DEF Init, DryRecords, ReadStillHolds, Stored, CompletedMeansAll
<1> QED
  BY <1>3, <1>5, <1>7 DEF Inv

(* The invariant holds in every reachable state.                            *)
LEMMA InvHolds == Spec => []Inv
<1>1. Init => Inv
  BY InitEstablishesInv
<1>2. Inv /\ [Next]_vars => Inv'
  BY TypesKept, PlansKept, DryRecordsKept, ReadingsKept, CompletionKept DEF Inv
<1> QED
  BY <1>1, <1>2, PTL DEF Spec

(* Every variable keeps its type; the budget an execution has left never    *)
(* falls below zero (service.py:198, 227).                                  *)
THEOREM TypeCorrect == Spec => []TypeOK
<1>1. Inv => TypeOK
  BY DEF Inv
<1> QED
  BY <1>1, InvHolds, PTL

(* A run is reported as completed only when the stored result of every case *)
(* is (service.py:232), for every number of cases and of executions.        *)
THEOREM CompletedMeansAllCorrect == Spec => []CompletedMeansAll
<1>1. Inv => CompletedMeansAll
  BY DEF Inv
<1> QED
  BY <1>1, InvHolds, PTL

(* No execution, resume or cancel changes the stored result of a completed  *)
(* case (service.py:195-200), unless live executions overlap.               *)
THEOREM CompletedIsKeptCorrect == Spec => CompletedIsKept
<1>1. Inv /\ [Next]_vars =>
        [\A c \in Cases :
           Undisturbed /\ records[c].status = "completed" => records'[c] = records[c]]_vars
  BY ResultsKept DEF Kept
<1> QED
  BY <1>1, InvHolds, PTL DEF Spec, CompletedIsKept

(* In a dry run the result of a completed case is determined by the run     *)
(* alone: its cost, and that the budget left by the cases before it covers  *)
(* it (service.py:197-203, engine.py:175-178).                              *)
THEOREM DryResultsDetermined == Spec => []DryRecords
<1>1. Inv => DryRecords
  BY DEF Inv
<1> QED
  BY <1>1, InvHolds, PTL

(* Cases that the budget covers, each after those before it, cost no more   *)
(* than the budget together.                                                *)
LEMMA AffordableCasesFit ==
  ASSUME run \in Runs, NEW T, T \subseteq Cases, NEW g,
         \A c \in T : Affordable(c) /\ g[c] = Cost[c]
  PROVE  SumFunctionOnSet(g, T) <= Budget
<1> DEFINE N == run.max_cases
           First(n) == {c \in T : c <= n}
           S == {n \in Nat : n <= N => /\ SumFunctionOnSet(g, First(n)) \in Nat
                                       /\ Share(n + 1) \in Nat
                                       /\ SumFunctionOnSet(g, First(n)) + Share(n + 1) <= Budget}
<1>1. N \in Nat \ {0} /\ Budget \in Nat /\ Cases = 1..N /\ \A c \in Cases : Cost[c] \in Nat \ {0}
  BY Parameters
<1>2. \A n \in Nat : IsFiniteSet(First(n)) /\ \A c \in First(n) : g[c] \in Nat
  <2>1. IsFiniteSet(1..N)
    BY <1>1, FS_Interval
  <2>2. T \subseteq 1..N
    BY <1>1
  <2>3. IsFiniteSet(T)
    BY <2>1, <2>2, FS_Subset
  <2>4. ASSUME NEW n \in Nat PROVE IsFiniteSet(First(n)) /\ \A c \in First(n) : g[c] \in Nat
    <3>1. First(n) \subseteq T
      OBVIOUS
    <3>2. \A c \in T : g[c] \in Nat
      BY <1>1
    <3> QED
      BY <2>3, <3>1, <3>2, FS_Subset
  <2> QED
    BY <2>4
<1>3. \A c \in T : c \in Nat \ {0} /\ c <= N
  BY <1>1
<1>4. 0 \in S
  <2>1. First(0) = {}
    BY <1>3
  <2>2. SumFunctionOnSet(g, First(0)) = 0
    BY <1>2, <2>1, SumOfFiniteSet
  <2>3. Share(0 + 1) = Budget
    BY SharesOfRun
  <2> HIDE DEF First
  <2> QED
    BY <1>1, <2>2, <2>3
<1>5. ASSUME NEW n \in S, n + 1 <= N PROVE n + 1 \in S
  <2> DEFINE c == n + 1
             before == SumFunctionOnSet(g, First(n))
             after == SumFunctionOnSet(g, First(c))
  <2>1. n \in Nat /\ c \in Cases /\ c \in Nat
    BY <1>1, <1>5
  <2>2. before \in Nat /\ Share(c) \in Nat /\ before + Share(c) <= Budget
    BY <1>1, <1>5
  <2>3. Share(c + 1) = Less(Share(c), Cost[c]) /\ Cost[c] \in Nat
    BY <1>1, <2>1, SharesOfRun
  <2>4. CASE c \in T
    <3>1. First(c) \ {c} = First(n) /\ c \in First(c)
      BY <1>3, <2>1, <2>4
    <3>2. after = g[c] + before
      <4>1. IsFiniteSet(First(c)) /\ \A x \in First(c) : g[x] \in Nat
        BY <1>2, <2>1
      <4> HIDE DEF First, c
      <4>2. SumFunctionOnSet(g, First(c)) = g[c] + SumFunctionOnSet(g, First(c) \ {c})
        BY <3>1, <4>1, SumOfFiniteSet
      <4> QED
        BY <3>1, <4>2
    <3>3. g[c] = Cost[c] /\ Cost[c] <= Share(c)
      BY <2>4 DEF Affordable
    <3> HIDE DEF First, before, after, c
    <3>4. Share(c + 1) \in Nat /\ after \in Nat /\ after + Share(c + 1) <= Budget
      BY <1>1, <2>2, <2>3, <3>2, <3>3 DEF Less
    <3> QED
      BY <2>1, <3>4 DEF after, c
  <2>5. CASE c \notin T
    <3>1. First(c) = First(n)
      BY <1>3, <2>1, <2>5
    <3>2. after = before
      BY <3>1
    <3> HIDE DEF First, before, after, c
    <3>3. Share(c + 1) \in Nat /\ after \in Nat /\ after + Share(c + 1) <= Budget
      BY <1>1, <2>2, <2>3, <3>2 DEF Less
    <3> QED
      BY <2>1, <3>3 DEF after, c
  <2> QED
    BY <2>4, <2>5
<1>6. S = Nat
  <2>1. S \in SUBSET Nat
    OBVIOUS
  <2>2. ASSUME NEW n \in S PROVE n + 1 \in S
    <3>1. CASE n + 1 <= N
      BY <1>5, <3>1
    <3>2. CASE ~(n + 1 <= N)
      BY <3>2
    <3> QED
      BY <3>1, <3>2
  <2> HIDE DEF S
  <2> QED
    BY <1>4, <2>1, <2>2, Induction
<1>7. /\ SumFunctionOnSet(g, First(N)) \in Nat
      /\ Share(N + 1) \in Nat
      /\ SumFunctionOnSet(g, First(N)) + Share(N + 1) <= Budget
  BY <1>1, <1>6
<1>8. First(N) = T
  BY <1>3
<1> HIDE DEF First
<1> QED
  BY <1>1, <1>7, <1>8

(* The completed cases of a dry run never cost more than the budget         *)
(* (service.py:197-203, 175-178), for every budget, all costs and every     *)
(* number of cases, however executions overlap, crash and are resumed.      *)
THEOREM DryWithinBudgetCorrect == Spec => []DryWithinBudget
<1>1. ASSUME Inv PROVE DryWithinBudget
  <2> DEFINE T == {c \in Cases : records[c].status = "completed"}
             g == [c \in Cases |-> records[c].cost]
  <2>1. SUFFICES ASSUME DryRun PROVE SumFunctionOnSet(g, T) <= Budget
    BY DEF DryWithinBudget
  <2>2. T \subseteq Cases /\ \A c \in T : Affordable(c) /\ g[c] = Cost[c]
    BY <1>1, <2>1 DEF Inv, DryRecords
  <2>3. run \in Runs
    BY <1>1 DEF Inv, TypeOK
  <2> HIDE DEF T, g
  <2> QED
    BY <2>2, <2>3, AffordableCasesFit
<1> QED
  BY <1>1, InvHolds, PTL

-----------------------------------------------------------------------------
(* Waiting and progress: executions never wait for each other in a circle,  *)
(* and none goes on for ever.  What is left of ExecutionEnds is fairness.   *)

(* Execution e has a step to take: one disjunct for each guard of Advance.  *)
MayGoOn(e) ==
  \/ pc[e] = "loaded"
  \/ pc[e] = "plan" /\ \E c \in Cases : State(e, c) = "unread"
  \/ \E c \in Cases : State(e, c) = "running"
  \/ \E c \in Cases : State(e, c) = "selected" /\ ~HeldByOther(e, c)
  \/ /\ pc[e] \in {"cases", "orphan"}
     /\ \/ \A c \in Cases : State(e, c) \in Done
        \/ /\ \E c \in Cases : State(e, c) = "pending"
           /\ Cardinality({c \in Cases : State(e, c) \in {"selected", "running"}}) < Concurrency

(* Whenever an execution is going on one that is going on can take a step.  *)
NoCircularWait ==
  (\E e \in Executors : pc[e] # "idle") => \E e \in Executors : pc[e] # "idle" /\ MayGoOn(e)

(* A single transaction writes its cases in the order of the dataset.       *)
TakenInOrder ==
  ~Parallel =>
    \A e \in Executors : \A c, d \in Cases :
      d < c /\ State(e, c) \in {"selected", "running", "completed", "failed"} => State(e, d) \in Done

(* Planning is not over before the last case is read.                       *)
LastUnread == \A e \in Executors : pc[e] = "plan" => State(e, run.max_cases) = "unread"

(* How many steps a case, and an execution, may still take.                 *)
CaseRank(s) ==
  CASE s = "unread" -> 4 [] s = "pending" -> 3 [] s = "selected" -> 2 [] s = "running" -> 1
    [] OTHER -> 0
Stage(label) == CASE label = "loaded" -> 3 [] label = "plan" -> 2 [] label = "idle" -> 0 [] OTHER -> 1
Work(e) == SumFunctionOnSet([c \in Cases |-> CaseRank(State(e, c))], Cases)
Remaining(e) ==
  IF pc[e] = "idle" THEN 0
  ELSE Stage(pc[e]) + Work(e)

EveryStepCounts ==
  [][\A e \in Executors :
       Advance(e) => /\ Remaining(e)' < Remaining(e)
                     /\ \A f \in Executors \ {e} : Remaining(f)' = Remaining(f)]_vars

-----------------------------------------------------------------------------
(* The order of the cases *)

(* Both facts about the order of the cases, kept by every step.             *)
Order == TakenInOrder /\ LastUnread

(* Nothing has been taken, and nothing read, at first.                      *)
LEMMA InitOrder ==
  ASSUME Init
  PROVE  Order
<1>1. \A e \in Executors : pc[e] = "idle" /\ \A c \in Cases : State(e, c) = "unread"
  BY DEF Init, State, Unread
<1> QED
  BY <1>1 DEF Order, TakenInOrder, LastUnread

(* A live run takes one case at a time.                                     *)
LEMMA ConcurrencyOfRun ==
  \A p \in Runs : /\ p.dry_run => p.concurrency \in 1..4
                  /\ ~p.dry_run => p.concurrency = 1
<1> SUFFICES ASSUME NEW p \in Runs
             PROVE  /\ p.dry_run => p.concurrency \in 1..4
                    /\ ~p.dry_run => p.concurrency = 1
  OBVIOUS
<1>1. p.concurrency \in IF p.dry_run THEN 1..4 ELSE {1}
  BY ConstantsAssumption, Zenon
<1> QED
  BY <1>1

(* There are finitely many cases.                                           *)
LEMMA CasesAreFinite ==
  ASSUME TypeOK
  PROVE  IsFiniteSet(Cases)
<1>1. Cases = 1..run.max_cases /\ run.max_cases \in Int /\ 1 \in Int
  BY Parameters DEF TypeOK
<1>2. IsFiniteSet(1..run.max_cases)
  BY <1>1, FS_Interval
<1> QED
  BY <1>1, <1>2

(* A single transaction has no case under way when it selects the next one. *)
LEMMA NothingUnderWay ==
  ASSUME TypeOK, ~Parallel, NEW e \in Executors,
         Cardinality({d \in Cases : State(e, d) \in {"selected", "running"}}) < Concurrency
  PROVE  \A d \in Cases : State(e, d) \notin {"selected", "running"}
<1> DEFINE S == {d \in Cases : State(e, d) \in {"selected", "running"}}
<1>0. (run.dry_run => run.concurrency \in 1..4) /\ (~run.dry_run => run.concurrency = 1)
  <2>1. run \in Runs
    BY DEF TypeOK
  <2> QED
    BY <2>1, ConcurrencyOfRun, Zenon
<1>1. Concurrency = 1
  <2>1. CASE run.dry_run
    BY <1>0, <2>1 DEF Parallel, Concurrency, DryRun
  <2>2. CASE ~run.dry_run
    BY <1>0, <2>2 DEF Concurrency
  <2> QED
    BY <2>1, <2>2
<1>2. IsFiniteSet(Cases)
  BY CasesAreFinite
<1>3. IsFiniteSet(S)
  BY <1>2, FS_Subset
<1>4. Cardinality(S) \in Nat
  BY <1>3, FS_CardinalityType
<1>5. Cardinality(S) = 0
  BY <1>1, <1>4
<1>6. S = {}
  BY <1>3, <1>5, FS_EmptySet
<1> QED
  BY <1>6

(* What a step leaves of the other executions.                              *)
LEMMA OrderOfOthers ==
  ASSUME Order, run' = run, NEW e \in Executors,
         \A f \in Executors \ {e} : pc'[f] = pc[f] /\ task'[f] = task[f],
         pc'[e] = "plan" => State(e, run.max_cases)' = "unread",
         ~Parallel => \A c, d \in Cases :
           d < c /\ State(e, c)' \in {"selected", "running", "completed", "failed"}
             => State(e, d)' \in Done
  PROVE  Order'
<1>1. Cases' = Cases /\ Parallel' = Parallel
  BY ParametersAreConstant
<1>2. \A f \in Executors \ {e} : \A c : State(f, c)' = State(f, c)
  BY DEF State
<1>3. LastUnread'
  BY <1>2 DEF Order, LastUnread
<1>4. TakenInOrder'
  <2> SUFFICES ASSUME ~Parallel, NEW f \in Executors, NEW c \in Cases, NEW d \in Cases,
                      d < c, State(f, c)' \in {"selected", "running", "completed", "failed"}
               PROVE  State(f, d)' \in Done
    BY <1>1 DEF TakenInOrder
  <2>1. CASE f = e
    BY <2>1
  <2>2. CASE f # e
    <3>1. State(f, c)' = State(f, c) /\ State(f, d)' = State(f, d)
      BY <1>2, <2>2
    <3> QED
      BY <3>1 DEF Order, TakenInOrder
  <2> QED
    BY <2>1, <2>2
<1> QED
  BY <1>3, <1>4 DEF Order

(* A step of one case keeps the order when the case it takes comes after    *)
(* those that have ended.                                                   *)
LEMMA OrderOfOneCase ==
  ASSUME TypeOK, Order, run' = run, NEW e \in Executors, NEW c \in Cases, NEW t,
         SetTask(e, c, t),
         \A f \in Executors \ {e} : pc'[f] = pc[f],
         pc'[e] = "plan" => pc[e] = "plan" /\ c # run.max_cases,
         ~Parallel /\ t.st \in {"selected", "running", "completed", "failed"}
           => \A d \in Cases : d < c => State(e, d) \in Done,
         ~Parallel /\ State(e, c) \in Done => t.st \in Done
  PROVE  Order'
<1>1. /\ State(e, c)' = t.st
      /\ \A d \in Cases : d # c => State(e, d)' = State(e, d)
  BY TaskSet DEF State
<1>2. \A f \in Executors \ {e} : task'[f] = task[f]
  BY DEF SetTask, TypeOK
<1>3. run.max_cases \in Cases /\ Cases \subseteq Nat
  BY Parameters DEF TypeOK
<1>4. pc'[e] = "plan" => State(e, run.max_cases)' = "unread"
  BY <1>1, <1>3 DEF Order, LastUnread
<1>5. ASSUME ~Parallel, NEW a \in Cases, NEW d \in Cases, d < a,
             State(e, a)' \in {"selected", "running", "completed", "failed"}
      PROVE  State(e, d)' \in Done
  <2>1. CASE a = c
    <3>1. State(e, d) \in Done /\ d # c
      BY <1>1, <1>3, <1>5, <2>1
    <3> QED
      BY <1>1, <3>1
  <2>2. CASE a # c
    <3>1. State(e, d) \in Done
      BY <1>1, <1>5, <2>2 DEF Order, TakenInOrder
    <3> QED
      BY <1>1, <1>5, <3>1
  <2> QED
    BY <2>1, <2>2
<1> QED
  BY <1>2, <1>4, <1>5, OrderOfOthers

(* Every step keeps the order.                                              *)
LEMMA OrderKept ==
  ASSUME Inv, Order, [Next]_vars
  PROVE  Order'
<1>1. run' = run /\ TypeOK /\ Plans
  BY RunIsConstant DEF Inv
<1>2. Cases' = Cases /\ Parallel' = Parallel
  BY <1>1, ParametersAreConstant
<1>3. CASE CancelLoad \/ CancelCommit \/ UNCHANGED vars
  <2>1. pc' = pc /\ task' = task
    BY <1>3 DEF CancelLoad, CancelCommit, vars, execVars
  <2> QED
    BY <1>1, <1>2, <2>1 DEF Order, TakenInOrder, LastUnread, State
<1>4. ASSUME NEW e \in Executors, Load(e) \/ Start(e) PROVE Order'
  <2>1. task' = task /\ pc[e] \in {"idle", "loaded"} /\ \A f \in Executors \ {e} : pc'[f] = pc[f]
    BY <1>1, <1>4 DEF Load, Start, Goto, TypeOK
  <2>2. \A c \in Cases : State(e, c)' = "unread"
    BY <1>1, <2>1 DEF Plans, Fresh, State, Unread
  <2>3. run.max_cases \in Cases
    BY <1>1, Parameters DEF TypeOK
  <2> QED
    BY <1>1, <2>1, <2>2, <2>3, OrderOfOthers
<1>5. ASSUME NEW e \in Executors, End(e) PROVE Order'
  <2>1. /\ pc'[e] = "idle" /\ \A c \in Cases : task'[e][c] = Unread
        /\ \A f \in Executors \ {e} : pc'[f] = pc[f] /\ task'[f] = task[f]
    BY <1>1, <1>5, ExecutionEnded
  <2>2. \A c \in Cases : State(e, c)' = "unread"
    BY <2>1 DEF State, Unread
  <2> QED
    BY <1>1, <2>1, <2>2, OrderOfOthers
<1>6. ASSUME NEW e \in Executors, NEW c \in Cases, PlanCase(e, c) PROVE Order'
  <2>1. PICK t : SetTask(e, c, t) /\ t.st \in {"kept", "pending"}
    <3>1. /\ [Unread EXCEPT !.st = "kept"].st = "kept"
          /\ [Unread EXCEPT !.st = "pending", !.budget = left[e]].st = "pending"
      BY DEF Unread
    <3> QED
      BY <1>6, <3>1 DEF PlanCase
  <2>2. /\ pc[e] = "plan" /\ State(e, c) = "unread"
        /\ \A f \in Executors \ {e} : pc'[f] = pc[f]
        /\ pc'[e] = "plan" => c # run.max_cases
    BY <1>1, <1>6 DEF PlanCase, Goto, TypeOK
  <2> QED
    BY <1>1, <2>1, <2>2, OrderOfOneCase DEF Done
<1>7. ASSUME NEW e \in Executors, NEW c \in Cases, SelectCase(e, c) PROVE Order'
  <2>1. PICK t : SetTask(e, c, t) /\ t.st = "selected"
    <3>1. task[e][c] \in Tasks
      BY <1>1 DEF TypeOK
    <3> DEFINE t == [task[e][c] EXCEPT !.st = "selected", !.insert = (records[c].status = "none")]
    <3>2. t.st = "selected"
      BY <3>1 DEF Tasks
    <3>3. SetTask(e, c, t)
      BY <1>7 DEF SelectCase
    <3> QED
      BY <3>2, <3>3
  <2>2. /\ pc[e] \in {"cases", "orphan"} /\ pc' = pc /\ State(e, c) = "pending"
        /\ \A d \in Cases : d < c => State(e, d) # "pending"
        /\ Cardinality({d \in Cases : State(e, d) \in {"selected", "running"}}) < Concurrency
    BY <1>7 DEF SelectCase
  <2>3. ~Parallel => \A d \in Cases : d < c => State(e, d) \in Done
    <3>1. \A d \in Cases : State(e, d) \in {"unread", "pending", "selected", "running"} \cup Done
      BY <1>1 DEF TypeOK, Tasks, State
    <3>2. \A d \in Cases : State(e, d) # "unread"
      BY <1>1, <2>2 DEF Plans, ReadInOrder
    <3>3. ~Parallel => \A d \in Cases : State(e, d) \notin {"selected", "running"}
      BY <1>1, <2>2, NothingUnderWay
    <3> QED
      BY <2>2, <3>1, <3>2, <3>3
  <2> QED
    BY <1>1, <2>1, <2>2, <2>3, OrderOfOneCase DEF Done
<1>8. ASSUME NEW e \in Executors, NEW c \in Cases, ClaimCase(e, c) PROVE Order'
  <2>1. PICK t : SetTask(e, c, t) /\ t.st = "running"
    <3>1. task[e][c] \in Tasks
      BY <1>1 DEF TypeOK
    <3>2. [task[e][c] EXCEPT !.st = "running"].st = "running"
      BY <3>1 DEF Tasks
    <3> QED
      BY <1>8, <3>2 DEF ClaimCase
  <2>2. State(e, c) = "selected" /\ pc' = pc
    BY <1>8 DEF ClaimCase
  <2>3. pc[e] # "plan"
    BY <1>1, <2>2 DEF Plans, ReadInOrder
  <2>4. ~Parallel => \A d \in Cases : d < c => State(e, d) \in Done
    BY <2>2 DEF Order, TakenInOrder
  <2> QED
    BY <1>1, <2>1, <2>2, <2>3, <2>4, OrderOfOneCase DEF Done
<1>9. ASSUME NEW e \in Executors, NEW c \in Cases, ClaimRefused(e, c), Parallel PROVE Order'
  <2>1. PICK t : SetTask(e, c, t)
    BY <1>9 DEF ClaimRefused
  <2>2. pc'[e] = "orphan" /\ \A f \in Executors \ {e} : pc'[f] = pc[f]
    BY <1>1, <1>9 DEF ClaimRefused, Goto, TypeOK
  <2> QED
    BY <1>1, <1>9, <2>1, <2>2, OrderOfOneCase
<1>10. ASSUME NEW e \in Executors, NEW c \in Cases, RunDry(e, c) \/ RunLive(e, c) \/ RunFails(e, c)
       PROVE  Order'
  <2>1. CaseEnded(e, c)
    BY <1>1, <1>10, CaseEnds
  <2>2. PICK t \in Tasks : EndCase(e, c, t) /\ t.st \in {"completed", "failed"}
    BY <2>1 DEF CaseEnded
  <2>3. State(e, c) = "running" /\ SetTask(e, c, t) /\ pc' = pc
    BY <2>1, <2>2 DEF CaseEnded, EndCase
  <2>4. pc[e] # "plan"
    BY <1>1, <2>3 DEF Plans, ReadInOrder
  <2>5. ~Parallel => \A d \in Cases : d < c => State(e, d) \in Done
    BY <2>3 DEF Order, TakenInOrder
  <2> QED
    BY <1>1, <2>2, <2>3, <2>4, <2>5, OrderOfOneCase DEF Done
<1>11. ASSUME NEW e \in Executors, Finish(e) \/ OrphanEnds(e) \/ Crash(e) PROVE Order'
  BY <1>5, <1>11 DEF Finish, OrphanEnds, Crash
<1>12. ASSUME NEW e \in Executors, NEW c \in Cases, ClaimRefused(e, c), ~Parallel PROVE Order'
  BY <1>5, <1>12 DEF ClaimRefused
<1> QED
  BY <1>3, <1>4, <1>6, <1>7, <1>8, <1>9, <1>10, <1>11, <1>12, Zenon DEF Next, Advance

LEMMA OrderHolds == Spec => []Order
<1>1. Init => Order
  BY InitOrder
<1>2. Inv /\ Order /\ [Next]_vars => Order'
  BY OrderKept
<1> QED
  BY <1>1, <1>2, InvHolds, PTL DEF Spec

-----------------------------------------------------------------------------
(* Waiting *)

(* Where an execution is that knows something of a case.                    *)
LEMMA UnderWay ==
  ASSUME Inv, NEW e \in Executors, NEW c \in Cases,
         State(e, c) \in {"selected", "running", "completed", "failed"}
  PROVE  pc[e] \in {"cases", "orphan"}
<1>1. pc[e] \in Labels
  BY DEF Inv, TypeOK, Labels
<1>2. pc[e] \notin {"idle", "loaded"}
  BY DEF Inv, Plans, Fresh, State, Unread
<1>3. pc[e] # "plan"
  BY DEF Inv, Plans, ReadInOrder
<1> QED
  BY <1>1, <1>2, <1>3 DEF Labels

(* An execution that cannot go on has selected a case.                      *)
LEMMA StuckHasSelected ==
  ASSUME Inv, Order, NEW e \in Executors, pc[e] # "idle", ~MayGoOn(e)
  PROVE  \E c \in Cases : State(e, c) = "selected"
<1>1. TypeOK /\ pc[e] \in Labels
  BY DEF Inv, TypeOK, Labels
<1>2. run.max_cases \in Cases
  BY <1>1, Parameters DEF TypeOK
<1>3. pc[e] \in {"cases", "orphan"}
  BY <1>1, <1>2 DEF Labels, MayGoOn, Order, LastUnread
<1>4. \A c \in Cases : State(e, c) \in {"pending", "selected"} \cup Done
  <2>1. \A c \in Cases : State(e, c) \in {"unread", "pending", "selected", "running"} \cup Done
    BY <1>1 DEF TypeOK, Tasks, State
  <2>2. \A c \in Cases : State(e, c) # "unread"
    BY <1>3 DEF Inv, Plans, ReadInOrder
  <2> QED
    BY <2>1, <2>2 DEF MayGoOn
<1>5. SUFFICES ASSUME \A c \in Cases : State(e, c) # "selected" PROVE FALSE
  OBVIOUS
<1>6. \E c \in Cases : State(e, c) = "pending"
  BY <1>3, <1>4, <1>5 DEF MayGoOn
<1>7. {c \in Cases : State(e, c) \in {"selected", "running"}} = {}
  BY <1>4, <1>5 DEF Done
<1>8. Concurrency \in Nat /\ 0 < Concurrency
  <2>1. run \in Runs
    BY <1>1 DEF TypeOK
  <2>2. (run.dry_run => run.concurrency \in 1..4) /\ (~run.dry_run => run.concurrency = 1)
    BY <2>1, ConcurrencyOfRun, Zenon
  <2> QED
    BY <2>2 DEF Concurrency
<1>9. Cardinality({c \in Cases : State(e, c) \in {"selected", "running"}}) = 0
  BY <1>7, FS_EmptySet
<1> QED
  BY <1>3, <1>6, <1>8, <1>9 DEF MayGoOn

(* The holder of a case that is waited for goes on, or waits for a later    *)
(* case.                                                                    *)
LEMMA HolderIsFurther ==
  ASSUME Inv, Order, NEW f \in Executors, NEW c \in Cases, Holds(f, c), ~MayGoOn(f)
  PROVE  pc[f] # "idle" /\ \E d \in Cases : c < d /\ State(f, d) = "selected"
<1>1. State(f, c) # "running"
  BY DEF MayGoOn
<1>2. ~Parallel /\ State(f, c) \in {"completed", "failed"}
  BY <1>1 DEF Holds
<1>3. pc[f] # "idle"
  BY <1>2, UnderWay
<1>4. PICK d \in Cases : State(f, d) = "selected"
  BY <1>3, StuckHasSelected
<1>5. ~(d < c)
  BY <1>2, <1>4 DEF Order, TakenInOrder, Done
<1>6. d # c /\ Cases \subseteq Nat
  BY <1>2, <1>4, Parameters DEF Inv, TypeOK
<1> QED
  BY <1>3, <1>4, <1>5, <1>6

(* While an execution is going on, one that is going on can take a step:    *)
(* executions never wait for each other in a circle, because each writes    *)
(* its cases in the order of the dataset and keeps the earlier ones locked  *)
(* (service.py:189-214).                                                    *)
THEOREM NoCircularWaitCorrect == Spec => []NoCircularWait
<1>1. Inv /\ Order => NoCircularWait
  <2> SUFFICES ASSUME Inv, Order, NEW e \in Executors, pc[e] # "idle",
                      \A f \in Executors : pc[f] # "idle" => ~MayGoOn(f)
               PROVE  FALSE
    BY DEF NoCircularWait
  <2> DEFINE Wanted == {c \in Cases : \E f \in Executors : pc[f] # "idle" /\ State(f, c) = "selected"}
             T == {run.max_cases - c : c \in Wanted}
  <2>1. Cases = 1..run.max_cases /\ run.max_cases \in Nat
    BY Parameters DEF Inv, TypeOK
  <2>2. Wanted # {}
    BY StuckHasSelected
  <2>3. T \in SUBSET Nat /\ T # {}
    <3>1. \A c \in Cases : run.max_cases - c \in Nat
      BY <2>1
    <3> QED
      BY <2>2, <3>1
  <2>4. PICK m \in T : \A k \in T : m <= k
    BY <2>3, LeastNumber
  <2>5. PICK c \in Wanted : m = run.max_cases - c
    BY <2>4
  <2>6. ASSUME NEW d \in Wanted PROVE d <= c
    <3>1. m <= run.max_cases - d /\ c \in 1..run.max_cases /\ d \in 1..run.max_cases
      BY <2>1, <2>4, <2>5
    <3> QED
      BY <2>1, <2>5, <3>1
  <2>7. PICK f \in Executors : pc[f] # "idle" /\ State(f, c) = "selected"
    BY <2>5
  <2>8. HeldByOther(f, c)
    BY <2>7 DEF MayGoOn
  <2>9. PICK g \in Executors : g # f /\ Holds(g, c)
    BY <2>8 DEF HeldByOther
  <2>10. pc[g] # "idle"
    BY <2>9, UnderWay DEF Holds
  <2>11. PICK d \in Cases : c < d /\ State(g, d) = "selected"
    BY <2>9, <2>10, HolderIsFurther
  <2>12. d \in Wanted
    BY <2>10, <2>11
  <2> QED
    BY <2>1, <2>6, <2>11, <2>12
<1> QED
  BY <1>1, InvHolds, OrderHolds, PTL

-----------------------------------------------------------------------------
(* Progress *)

(* Ranks are natural numbers, and each step of a case lowers its rank.      *)
LEMMA Ranks ==
  /\ \A s : CaseRank(s) \in 0..4
  /\ CaseRank("unread") = 4 /\ CaseRank("pending") = 3 /\ CaseRank("selected") = 2
  /\ CaseRank("running") = 1
  /\ \A s \in Done : CaseRank(s) = 0
  /\ \A label \in Labels : Stage(label) \in 0..3
  /\ Stage("loaded") = 3 /\ Stage("plan") = 2 /\ Stage("cases") = 1 /\ Stage("orphan") = 1
BY DEF CaseRank, Stage, Done, Labels

(* The work left is a natural number.                                       *)
LEMMA WorkIsNatural == TypeOK => \A e \in Executors : Work(e) \in Nat
<1> SUFFICES ASSUME TypeOK, NEW e \in Executors PROVE Work(e) \in Nat
  OBVIOUS
<1> DEFINE g == [c \in Cases |-> CaseRank(State(e, c))]
<1>1. \A c \in Cases : g[c] \in Nat
  BY Ranks
<1>2. IsFiniteSet(Cases)
  BY CasesAreFinite
<1> HIDE DEF g
<1>3. SumFunctionOnSet(g, Cases) \in Nat
  BY <1>1, <1>2, SumOfFiniteSet
<1> QED
  BY <1>3 DEF Work, g

(* It still is one after a step.                                            *)
LEMMA WorkStaysNatural == TypeOK' => \A e \in Executors : Work(e)' \in Nat
<1>1. TypeOK' => (\A e \in Executors : Work(e) \in Nat)'
  BY WorkIsNatural, PTL
<1> QED
  BY <1>1

(* One case a step further is less work.                                    *)
LEMMA WorkDecreases ==
  ASSUME TypeOK, run' = run, NEW e \in Executors, NEW c \in Cases,
         CaseRank(State(e, c)') < CaseRank(State(e, c)),
         \A d \in Cases : d # c => State(e, d)' = State(e, d)
  PROVE  Work(e)' < Work(e)
<1> DEFINE g == [d \in Cases |-> CaseRank(State(e, d))]
           h == [d \in Cases |-> CaseRank(State(e, d)')]
<1>1. \A d \in Cases : h[d] \in Nat /\ g[d] \in Nat
  BY Ranks
<1>2. h[c] < g[c]
  OBVIOUS
<1>3. \A d \in Cases \ {c} : h[d] <= g[d]
  <2>1. \A d \in Cases \ {c} : h[d] = g[d]
    OBVIOUS
  <2> QED
    BY <1>1, <2>1
<1>4. IsFiniteSet(Cases)
  BY CasesAreFinite
<1>5. Cases' = Cases
  BY ParametersAreConstant
<1>6. Work(e)' = SumFunctionOnSet(h, Cases) /\ Work(e) = SumFunctionOnSet(g, Cases)
  BY <1>5 DEF Work
<1> HIDE DEF g, h
<1>7. SumFunctionOnSet(h, Cases) < SumFunctionOnSet(g, Cases)
  BY <1>1, <1>2, <1>3, <1>4, SumDecreases
<1> QED
  BY <1>6, <1>7

(* An execution that does not move keeps what it has to do.                 *)
LEMMA RemainingOfOthers ==
  ASSUME run' = run, NEW f, pc'[f] = pc[f], task'[f] = task[f]
  PROVE  Remaining(f)' = Remaining(f)
<1>1. Cases' = Cases
  BY ParametersAreConstant
<1>2. \A c : State(f, c)' = State(f, c)
  BY DEF State
<1>3. Work(f)' = Work(f)
  BY <1>1, <1>2 DEF Work
<1> QED
  BY <1>3 DEF Remaining

(* What is left for an execution that is going on.                          *)
LEMMA RemainingIsNatural ==
  ASSUME TypeOK, NEW e \in Executors
  PROVE  /\ Remaining(e) \in Nat
         /\ pc[e] # "idle" => Remaining(e) = Stage(pc[e]) + Work(e) /\ Remaining(e) > 0
<1>1. Work(e) \in Nat /\ Stage(pc[e]) \in Nat
  BY WorkIsNatural, Ranks DEF TypeOK, Labels
<1>2. pc[e] # "idle" => Stage(pc[e]) > 0
  BY Ranks DEF TypeOK, Labels
<1> QED
  BY <1>1, <1>2 DEF Remaining

(* The end of an execution leaves nothing.                                  *)
LEMMA EndCounts ==
  ASSUME TypeOK, run' = run, NEW e \in Executors, pc[e] # "idle", End(e)
  PROVE  /\ Remaining(e)' < Remaining(e)
         /\ \A f \in Executors \ {e} : Remaining(f)' = Remaining(f)
<1>1. pc'[e] = "idle" /\ \A f \in Executors \ {e} : pc'[f] = pc[f] /\ task'[f] = task[f]
  BY ExecutionEnded
<1>2. Remaining(e)' = 0
  BY <1>1 DEF Remaining
<1> QED
  BY <1>1, <1>2, RemainingIsNatural, RemainingOfOthers

(* So does the step of a case.                                              *)
LEMMA CaseCounts ==
  ASSUME TypeOK, TypeOK', run' = run, NEW e \in Executors, NEW c \in Cases, NEW t,
         SetTask(e, c, t), CaseRank(t.st) < CaseRank(State(e, c)),
         pc[e] # "idle", pc'[e] # "idle", Stage(pc'[e]) <= Stage(pc[e]),
         \A f \in Executors \ {e} : pc'[f] = pc[f]
  PROVE  /\ Remaining(e)' < Remaining(e)
         /\ \A f \in Executors \ {e} : Remaining(f)' = Remaining(f)
<1>1. State(e, c)' = t.st /\ \A d \in Cases : d # c => State(e, d)' = State(e, d)
  BY TaskSet DEF State
<1>2. Work(e)' < Work(e)
  BY <1>1, WorkDecreases
<1>3. Work(e) \in Nat /\ Work(e)' \in Nat
  BY WorkIsNatural, WorkStaysNatural
<1>4. Stage(pc[e]) \in Nat /\ Stage(pc'[e]) \in Nat
  <2>1. pc[e] \in Labels /\ pc'[e] \in Labels
    BY DEF TypeOK, Labels
  <2> QED
    BY <2>1, Ranks
<1>5. Remaining(e) = Stage(pc[e]) + Work(e) /\ Remaining(e)' = Stage(pc'[e]) + Work(e)'
  BY DEF Remaining
<1>6. \A f \in Executors \ {e} : task'[f] = task[f]
  BY DEF SetTask, TypeOK
<1> QED
  BY <1>2, <1>3, <1>4, <1>5, <1>6, RemainingOfOthers

(* Every step of an execution brings its end closer and leaves the other    *)
(* executions where they are: an execution takes at most three steps and    *)
(* four for each case, however the executions interleave.                   *)
THEOREM EveryStepCountsCorrect == Spec => EveryStepCounts
<1>1. ASSUME Inv, Inv', [Next]_vars, NEW e \in Executors, Advance(e)
      PROVE  /\ Remaining(e)' < Remaining(e)
             /\ \A f \in Executors \ {e} : Remaining(f)' = Remaining(f)
  <2>1. TypeOK /\ TypeOK' /\ Plans /\ run' = run
    BY <1>1, RunIsConstant DEF Inv
  <2>2. pc \in [Executors -> Labels]
    BY <2>1 DEF TypeOK, Labels
  <2>3. CASE Start(e)
    <3>1. /\ pc[e] = "loaded" /\ pc'[e] = "plan" /\ task' = task
          /\ \A f \in Executors \ {e} : pc'[f] = pc[f]
      BY <2>2, <2>3 DEF Start, Goto
    <3>2. Cases' = Cases /\ \A c : State(e, c)' = State(e, c)
      BY <2>1, <3>1, ParametersAreConstant DEF State
    <3>3. Work(e)' = Work(e) /\ Work(e) \in Nat
      BY <2>1, <3>2, WorkIsNatural DEF Work
    <3>4. Remaining(e) = 3 + Work(e) /\ Remaining(e)' = 2 + Work(e)'
      BY <3>1, Ranks DEF Remaining
    <3> QED
      BY <2>1, <3>1, <3>3, <3>4, RemainingOfOthers
  <2>4. ASSUME NEW c \in Cases, PlanCase(e, c)
        PROVE  /\ Remaining(e)' < Remaining(e)
               /\ \A f \in Executors \ {e} : Remaining(f)' = Remaining(f)
    <3>1. PICK t : SetTask(e, c, t) /\ t.st \in {"kept", "pending"}
      <4>1. /\ [Unread EXCEPT !.st = "kept"].st = "kept"
            /\ [Unread EXCEPT !.st = "pending", !.budget = left[e]].st = "pending"
        BY DEF Unread
      <4> QED
        BY <2>4, <4>1 DEF PlanCase
    <3>2. /\ pc[e] = "plan" /\ State(e, c) = "unread" /\ pc'[e] \in {"plan", "cases"}
          /\ \A f \in Executors \ {e} : pc'[f] = pc[f]
      BY <2>2, <2>4 DEF PlanCase, Goto
    <3>3. CaseRank(t.st) < CaseRank(State(e, c)) /\ Stage(pc'[e]) <= Stage(pc[e])
      BY <3>1, <3>2, Ranks DEF Done
    <3> QED
      BY <2>1, <3>1, <3>2, <3>3, CaseCounts
  <2>5. ASSUME NEW c \in Cases, NEW s, SetTask(e, c, [task[e][c] EXCEPT !.st = s]),
               CaseRank(s) < CaseRank(State(e, c)), State(e, c) \in {"selected", "running"},
               pc' \in {pc, [pc EXCEPT ![e] = "orphan"]}
        PROVE  /\ Remaining(e)' < Remaining(e)
               /\ \A f \in Executors \ {e} : Remaining(f)' = Remaining(f)
    <3>1. [task[e][c] EXCEPT !.st = s].st = s
      <4>1. task[e][c] \in Tasks
        BY <2>1 DEF TypeOK
      <4> QED
        BY <4>1 DEF Tasks
    <3>2. pc[e] \in {"cases", "orphan"}
      BY <1>1, <2>5, UnderWay
    <3>3. pc'[e] \in {"cases", "orphan"} /\ \A f \in Executors \ {e} : pc'[f] = pc[f]
      BY <2>2, <2>5, <3>2
    <3>4. Stage(pc'[e]) <= Stage(pc[e])
      BY <3>2, <3>3, Ranks
    <3> QED
      BY <2>1, <2>5, <3>1, <3>2, <3>3, <3>4, CaseCounts
  <2>6. ASSUME NEW c \in Cases, SelectCase(e, c)
        PROVE  /\ Remaining(e)' < Remaining(e)
               /\ \A f \in Executors \ {e} : Remaining(f)' = Remaining(f)
    <3>1. PICK t : SetTask(e, c, t) /\ t.st = "selected"
      <4>1. task[e][c] \in Tasks
        BY <2>1 DEF TypeOK
      <4> DEFINE t == [task[e][c] EXCEPT !.st = "selected", !.insert = (records[c].status = "none")]
      <4>2. t.st = "selected"
        BY <4>1 DEF Tasks
      <4>3. SetTask(e, c, t)
        BY <2>6 DEF SelectCase
      <4> QED
        BY <4>2, <4>3
    <3>2. /\ State(e, c) = "pending" /\ pc' = pc /\ pc[e] \in {"cases", "orphan"}
      BY <2>6 DEF SelectCase
    <3>3. CaseRank(t.st) < CaseRank(State(e, c)) /\ Stage(pc'[e]) <= Stage(pc[e])
      BY <3>1, <3>2, Ranks
    <3> QED
      BY <2>1, <3>1, <3>2, <3>3, CaseCounts
  <2>7. ASSUME NEW c \in Cases, ClaimCase(e, c)
        PROVE  /\ Remaining(e)' < Remaining(e)
               /\ \A f \in Executors \ {e} : Remaining(f)' = Remaining(f)
    <3>1. /\ State(e, c) = "selected" /\ pc' = pc
          /\ SetTask(e, c, [task[e][c] EXCEPT !.st = "running"])
      BY <2>7 DEF ClaimCase
    <3>2. CaseRank("running") < CaseRank(State(e, c))
      BY <3>1, Ranks
    <3> QED
      BY <2>5, <3>1, <3>2
  <2>8. ASSUME NEW c \in Cases, ClaimRefused(e, c), Parallel
        PROVE  /\ Remaining(e)' < Remaining(e)
               /\ \A f \in Executors \ {e} : Remaining(f)' = Remaining(f)
    <3>1. /\ State(e, c) = "selected" /\ pc' = [pc EXCEPT ![e] = "orphan"]
          /\ SetTask(e, c, [task[e][c] EXCEPT !.st = "refused"])
      BY <2>8 DEF ClaimRefused, Goto
    <3>2. CaseRank("refused") < CaseRank(State(e, c))
      BY <3>1, Ranks DEF Done
    <3> QED
      BY <2>5, <3>1, <3>2
  <2>9. ASSUME NEW c \in Cases, RunDry(e, c) \/ RunLive(e, c) \/ RunFails(e, c)
        PROVE  /\ Remaining(e)' < Remaining(e)
               /\ \A f \in Executors \ {e} : Remaining(f)' = Remaining(f)
    <3>1. CaseEnded(e, c)
      BY <2>1, <2>9, CaseEnds
    <3>2. PICK t \in Tasks : EndCase(e, c, t) /\ t.st \in {"completed", "failed"}
      BY <3>1 DEF CaseEnded
    <3>3. State(e, c) = "running" /\ SetTask(e, c, t) /\ pc' = pc
      BY <3>1, <3>2 DEF CaseEnded, EndCase
    <3>4. pc[e] \in {"cases", "orphan"}
      BY <1>1, <3>3, UnderWay
    <3>5. CaseRank(t.st) < CaseRank(State(e, c)) /\ Stage(pc'[e]) <= Stage(pc[e])
      BY <3>2, <3>3, <3>4, Ranks DEF Done
    <3> QED
      BY <2>1, <3>3, <3>4, <3>5, CaseCounts
  <2>10. CASE Finish(e) \/ OrphanEnds(e)
    <3>1. pc[e] # "idle" /\ End(e)
      BY <2>10 DEF Finish, OrphanEnds
    <3> QED
      BY <2>1, <3>1, EndCounts
  <2>11. ASSUME NEW c \in Cases, ClaimRefused(e, c), ~Parallel
         PROVE  /\ Remaining(e)' < Remaining(e)
                /\ \A f \in Executors \ {e} : Remaining(f)' = Remaining(f)
    <3>1. State(e, c) = "selected" /\ End(e)
      BY <2>11 DEF ClaimRefused
    <3>2. pc[e] # "idle"
      BY <1>1, <3>1, UnderWay
    <3> QED
      BY <2>1, <3>1, <3>2, EndCounts
  <2> QED
    BY <1>1, <2>3, <2>4, <2>6, <2>7, <2>8, <2>9, <2>10, <2>11, Zenon DEF Advance
<1>2. Inv /\ Inv' /\ [Next]_vars =>
        [\A e \in Executors :
           Advance(e) => /\ Remaining(e)' < Remaining(e)
                         /\ \A f \in Executors \ {e} : Remaining(f)' = Remaining(f)]_vars
  BY <1>1
<1> QED
  BY <1>2, InvHolds, PTL DEF Spec, EveryStepCounts

===============================================================================
