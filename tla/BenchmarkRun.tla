----------------------------- MODULE BenchmarkRun -----------------------------
(***************************************************************************)
(* One benchmark run and the requests that execute, resume and cancel it.  *)
(* An execution commits the status running, reads the case results one by  *)
(* one to see what is left, runs the cases that are not completed, and     *)
(* commits the outcome of the run.                                         *)
(*                                                                         *)
(* A run that is live, or has concurrency 1, keeps one database            *)
(* transaction open from the first case to the outcome.  A dry run with    *)
(* more concurrency gives every case a transaction of its own.             *)
(***************************************************************************)
EXTENDS Naturals, FiniteSets, Functions

CONSTANTS
    Runs,           \* parameters the run may have been created with
    Executors,      \* requests that may execute the run at the same time
    Cost,           \* Cost[c]: the estimated cost of case c in a dry run
    LiveCosts,      \* what a provider call of a live run may cost
    MaxExecutions   \* bound on the executions ever begun

ASSUME ConstantsAssumption ==
    /\ \A p \in Runs :
         /\ p.dry_run \in BOOLEAN
         /\ p.max_cases \in 1..50 /\ 1..p.max_cases \subseteq DOMAIN Cost
         /\ p.concurrency \in IF p.dry_run THEN 1..4 ELSE {1}
         /\ p.max_budget \in Nat
    /\ \A c \in DOMAIN Cost : Cost[c] \in Nat \ {0}
    /\ LiveCosts \subseteq Nat
    /\ MaxExecutions \in Nat

VARIABLES
    run,         \* parameters of the run, which never change
    status,      \* status of the run
    records,     \* records[c]: the committed result of case c
    pc,          \* where execution e is
    seen,        \* the status execution e has loaded
    left,        \* budget_remaining of execution e
    task,        \* task[e][c]: what execution e knows and did about case c
    cancelling,  \* a cancel request has found the run not terminal
    executions,  \* executions begun so far
    spent,       \* history: what provider calls have cost
    overlapped   \* history: an execution began while another was going on

execVars == <<pc, seen, left, task>>
history  == <<spent, overlapped>>
vars     == <<run, status, records, execVars, cancelling, executions, history>>

Cases       == 1..run.max_cases
DryRun      == run.dry_run
Concurrency == run.concurrency
Budget      == run.max_budget

Terminal   == {"completed", "failed", "cancelled"}
Statuses   == Terminal \cup {"pending", "running", "partially_failed"}
Records    == [status : {"none", "running", "completed", "failed"}, cost : Nat]
Unread     == [st |-> "unread", budget |-> 0, insert |-> FALSE, cost |-> 0]

\* A task ends as one of these.
Done == {"kept", "completed", "failed", "refused"}

\* Every case in a transaction of its own.
Parallel == DryRun /\ Concurrency > 1

Init ==
    /\ run \in Runs
    /\ status = "pending"
    /\ records = [c \in Cases |-> [status |-> "none", cost |-> 0]]
    /\ pc = [e \in Executors |-> "idle"]
    /\ seen = [e \in Executors |-> "pending"]
    /\ left = [e \in Executors |-> 0]
    /\ task = [e \in Executors |-> [c \in Cases |-> Unread]]
    /\ cancelling = FALSE
    /\ executions = 0
    /\ spent = 0
    /\ overlapped = FALSE

--------------------------------------------------------------------------------
(* Helpers *)

\* Faulty variant: the budget left may become negative.
LessUnbounded(a, b) == a - b

\* max(0, a - b)
Less(a, b) == IF a > b THEN a - b ELSE 0

State(e, c) == task[e][c].st

\* Execution e has written case c in a transaction that is still open.
Holds(e, c) ==
    \/ State(e, c) = "running"
    \/ ~Parallel /\ State(e, c) \in {"completed", "failed"}

HeldByOther(e, c) == \E f \in Executors \ {e} : Holds(f, c)

Goto(e, label) == pc' = [pc EXCEPT ![e] = label]

SetTask(e, c, t) == task' = [task EXCEPT ![e][c] = t]

\* The execution is over and its open transactions are gone.
End(e) ==
    /\ Goto(e, "idle")
    /\ task' = [task EXCEPT ![e] = [c \in Cases |-> Unread]]
    /\ left' = [left EXCEPT ![e] = 0]
    /\ seen' = [seen EXCEPT ![e] = "pending"]

\* The record of case c after task t; a failed case keeps its earlier cost.
Recorded(c, t) ==
    IF t.st = "completed" THEN [status |-> "completed", cost |-> t.cost]
    ELSE [records[c] EXCEPT !.status = "failed"]

--------------------------------------------------------------------------------
(* execute_run: the beginning *)

\* The run is loaded; a terminal one is refused, or returned by a resume.
Load(e) ==
    /\ pc[e] = "idle"
    /\ executions < MaxExecutions
    /\ status \notin Terminal
    /\ executions' = executions + 1
    /\ seen' = [seen EXCEPT ![e] = status]
    /\ Goto(e, "loaded")
    /\ overlapped' = (overlapped \/ \E f \in Executors : pc[f] # "idle")
    /\ UNCHANGED <<run, status, records, left, task, cancelling, spent>>

\* The commit of the status running, a change only if it was not loaded.
Start(e) ==
    /\ pc[e] = "loaded"
    /\ status' = IF seen[e] = "running" THEN status ELSE "running"
    /\ left' = [left EXCEPT ![e] = Budget]
    /\ Goto(e, "plan")
    /\ UNCHANGED <<run, records, seen, task, cancelling, executions, history>>

\* Faulty variant: the budget left is the same for every case of a dry run too.
PlanWithoutReserve(e, c) ==
    /\ pc[e] = "plan"
    /\ State(e, c) = "unread"
    /\ \A d \in Cases : d < c => State(e, d) # "unread"
    /\ IF records[c].status = "completed"
         THEN /\ SetTask(e, c, [Unread EXCEPT !.st = "kept"])
              /\ left' = [left EXCEPT ![e] = Less(@, records[c].cost)]
         ELSE /\ SetTask(e, c, [Unread EXCEPT !.st = "pending", !.budget = left[e]])
              /\ UNCHANGED left
    /\ IF c = run.max_cases THEN Goto(e, "cases") ELSE UNCHANGED pc
    /\ UNCHANGED <<run, status, records, seen, cancelling, executions, history>>

\* Faulty variant: a completed case is run again.
PlanCompletedToo(e, c) ==
    /\ pc[e] = "plan"
    /\ State(e, c) = "unread"
    /\ \A d \in Cases : d < c => State(e, d) # "unread"
    /\ SetTask(e, c, [Unread EXCEPT !.st = "pending", !.budget = left[e]])
    /\ IF c = run.max_cases THEN Goto(e, "cases") ELSE UNCHANGED pc
    /\ UNCHANGED <<run, status, records, seen, left, cancelling, executions, history>>

\* The result of the next case is read: a completed case is kept, another one
\* gets the budget that is left.  Only a dry run takes its cost off at once.
PlanCase(e, c) ==
    /\ pc[e] = "plan"
    /\ State(e, c) = "unread"
    /\ \A d \in Cases : d < c => State(e, d) # "unread"
    /\ IF records[c].status = "completed"
         THEN /\ SetTask(e, c, [Unread EXCEPT !.st = "kept"])
              /\ left' = [left EXCEPT ![e] = Less(@, records[c].cost)]
         ELSE /\ SetTask(e, c, [Unread EXCEPT !.st = "pending", !.budget = left[e]])
              /\ left' = [left EXCEPT ![e] = IF DryRun THEN Less(@, Cost[c]) ELSE @]
    /\ IF c = run.max_cases THEN Goto(e, "cases") ELSE UNCHANGED pc
    /\ UNCHANGED <<run, status, records, seen, cancelling, executions, history>>

--------------------------------------------------------------------------------
(* _run_case *)

\* Faulty variant: the cases are taken in any order.
SelectAnyCase(e, c) ==
    /\ pc[e] \in {"cases", "orphan"}
    /\ State(e, c) = "pending"
    /\ Cardinality({d \in Cases : State(e, d) \in {"selected", "running"}}) < Concurrency
    /\ SetTask(e, c, [task[e][c] EXCEPT !.st = "selected", !.insert = (records[c].status = "none")])
    /\ UNCHANGED <<run, status, records, pc, seen, left, cancelling, executions, history>>

\* A case is begun, in the order of the dataset, by reading its record again.
SelectCase(e, c) ==
    /\ pc[e] \in {"cases", "orphan"}
    /\ State(e, c) = "pending"
    /\ \A d \in Cases : d < c => State(e, d) # "pending"
    /\ Cardinality({d \in Cases : State(e, d) \in {"selected", "running"}}) < Concurrency
    /\ SetTask(e, c, [task[e][c] EXCEPT !.st = "selected", !.insert = (records[c].status = "none")])
    /\ UNCHANGED <<run, status, records, pc, seen, left, cancelling, executions, history>>

\* The record is inserted or updated as running.  Either waits for another
\* execution's open transaction on the case.
ClaimCase(e, c) ==
    /\ State(e, c) = "selected"
    /\ ~HeldByOther(e, c)
    /\ ~(task[e][c].insert /\ records[c].status # "none")
    /\ SetTask(e, c, [task[e][c] EXCEPT !.st = "running"])
    /\ UNCHANGED <<run, status, records, pc, seen, left, cancelling, executions, history>>

\* The insert finds that another execution has inserted the record meanwhile.
\* The request fails; cases with transactions of their own run on without it.
ClaimRefused(e, c) ==
    /\ State(e, c) = "selected"
    /\ ~HeldByOther(e, c)
    /\ task[e][c].insert /\ records[c].status # "none"
    /\ IF Parallel
         THEN /\ SetTask(e, c, [task[e][c] EXCEPT !.st = "refused"])
              /\ Goto(e, "orphan")
              /\ UNCHANGED <<seen, left>>
         ELSE End(e)
    /\ UNCHANGED <<run, status, records, cancelling, executions, history>>

\* The case has been run and its transaction commits, if it has one of its own.
EndCase(e, c, t) ==
    /\ SetTask(e, c, t)
    /\ records' = IF Parallel THEN [records EXCEPT ![c] = Recorded(c, t)] ELSE records
    /\ UNCHANGED <<run, status, pc, seen, left, cancelling, executions, overlapped>>

\* A dry run: a case whose cost the budget does not cover fails.
RunDry(e, c) ==
    /\ DryRun
    /\ State(e, c) = "running"
    /\ LET t == task[e][c]
       IN EndCase(e, c,
            IF t.budget > 0 /\ Cost[c] <= t.budget
              THEN [t EXCEPT !.st = "completed", !.cost = Cost[c]]
              ELSE [t EXCEPT !.st = "failed"])
    /\ UNCHANGED spent

\* A live run: the provider answers at a cost, and the answer is dropped when
\* the budget of the case does not cover it.
RunLive(e, c) ==
    /\ ~DryRun
    /\ State(e, c) = "running"
    /\ \E k \in LiveCosts :
         LET t == task[e][c]
         IN /\ spent' = spent + k
            /\ EndCase(e, c,
                 IF k <= t.budget
                   THEN [t EXCEPT !.st = "completed", !.cost = k]
                   ELSE [t EXCEPT !.st = "failed"])

\* The provider fails or times out.
RunFails(e, c) ==
    /\ ~DryRun
    /\ State(e, c) = "running"
    /\ EndCase(e, c, [task[e][c] EXCEPT !.st = "failed"])
    /\ UNCHANGED spent

--------------------------------------------------------------------------------
(* execute_run: the outcome *)

\* Faulty variant: cases that were kept decide alone.
OutcomeOfKept(e) ==
    IF \E c \in Cases : State(e, c) \in {"kept", "completed"} THEN "completed" ELSE "partially_failed"

Outcome(e) ==
    IF \A c \in Cases : State(e, c) \in {"kept", "completed"} THEN "completed" ELSE "partially_failed"

\* The last commit, of the outcome and of the cases of the one transaction.  The
\* status is written whatever it has become since.
Finish(e) ==
    /\ pc[e] = "cases"
    /\ \A c \in Cases : State(e, c) \in Done
    /\ status' = Outcome(e)
    /\ records' = IF Parallel THEN records
                  ELSE [c \in Cases |-> IF State(e, c) = "kept" THEN records[c]
                                        ELSE Recorded(c, task[e][c])]
    /\ End(e)
    /\ UNCHANGED <<run, cancelling, executions, history>>

\* The last case of a failed request has ended.
OrphanEnds(e) ==
    /\ pc[e] = "orphan"
    /\ \A c \in Cases : State(e, c) \in Done
    /\ End(e)
    /\ UNCHANGED <<run, status, records, cancelling, executions, history>>

\* The process dies or loses the database.
Crash(e) ==
    /\ pc[e] # "idle"
    /\ End(e)
    /\ UNCHANGED <<run, status, records, cancelling, executions, history>>

--------------------------------------------------------------------------------
(* cancel_run *)

CancelLoad ==
    /\ status \notin Terminal
    /\ cancelling' = TRUE
    /\ UNCHANGED <<run, status, records, execVars, executions, history>>

CancelCommit ==
    /\ cancelling
    /\ status' = "cancelled"
    /\ cancelling' = FALSE
    /\ UNCHANGED <<run, records, execVars, executions, history>>

--------------------------------------------------------------------------------

Advance(e) ==
    \/ Start(e)
    \/ \E c \in Cases : PlanCase(e, c)
    \/ \E c \in Cases : SelectCase(e, c)
    \/ \E c \in Cases : ClaimCase(e, c)
    \/ \E c \in Cases : ClaimRefused(e, c)
    \/ \E c \in Cases : RunDry(e, c)
    \/ \E c \in Cases : RunLive(e, c)
    \/ \E c \in Cases : RunFails(e, c)
    \/ Finish(e)
    \/ OrphanEnds(e)

Next ==
    \/ \E e \in Executors : Load(e) \/ Advance(e) \/ Crash(e)
    \/ CancelLoad
    \/ CancelCommit

Spec == Init /\ [][Next]_vars

\* A request that is being served goes on; lock waits end when the lock is free.
FairSpec == Spec /\ \A e \in Executors : WF_vars(Advance(e))

--------------------------------------------------------------------------------
(* Properties *)

Tasks == [st : {"unread", "pending", "selected", "running"} \cup Done,
          budget : 0..Budget, insert : BOOLEAN, cost : Nat]

TypeOK ==
    /\ run \in Runs
    /\ status \in Statuses
    /\ records \in [Cases -> Records]
    /\ pc \in [Executors -> {"idle", "loaded", "plan", "cases", "orphan"}]
    /\ seen \in [Executors -> Statuses]
    /\ left \in [Executors -> 0..Budget]
    /\ task \in [Executors -> [Cases -> Tasks]]
    /\ cancelling \in BOOLEAN
    /\ executions \in 0..MaxExecutions
    /\ spent \in Nat
    /\ overlapped \in BOOLEAN

\* Live executions interfere when they overlap: each has read results and budget
\* of its own.  The executions of a dry run may overlap: a case is given the same
\* budget whether the cases before it are kept or run.
Undisturbed == DryRun \/ ~overlapped

\* The stored result of a completed case survives every later execution of the
\* run: resumes after crashes, cancels and partial failures keep it and do not
\* pay for it again (service.py:195-200).
CompletedIsKept ==
    [][\A c \in Cases :
         Undisturbed /\ records[c].status = "completed" => records'[c] = records[c]]_vars

\* A run is reported as completed only when the stored result of every case is
\* (service.py:232), although the outcome is computed from results read earlier
\* and results still uncommitted, and after partial failures, crashes, resumes
\* and cancels.
CompletedMeansAll ==
    Undisturbed /\ status = "completed" => \A c \in Cases : records[c].status = "completed"

\* The completed cases of a dry run never cost more than the budget, however
\* executions overlap, crash and are resumed (service.py:197-203, 175-178).
DryWithinBudget ==
    DryRun =>
        SumFunctionOnSet([c \in Cases |-> records[c].cost],
                         {c \in Cases : records[c].status = "completed"}) <= Budget

\* Executions that overlap on the same cases do not wait for each other for ever.
ExecutionEnds == \A e \in Executors : pc[e] # "idle" ~> pc[e] = "idle"

\* benchmarks/service.py:63: "Live benchmark runs require concurrency=1 to
\* preserve the strict budget guard."
StrictBudget == ~DryRun => spent <= Budget
================================================================================
