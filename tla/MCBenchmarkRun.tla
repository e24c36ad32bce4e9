---------------------------- MODULE MCBenchmarkRun ----------------------------
(***************************************************************************)
(* Instances of BenchmarkRun for TLC.                                      *)
(***************************************************************************)
EXTENDS BenchmarkRun

\* Costs of the cases, unequal so that the budget covers some sums and not others.
Costs == <<2, 3, 1>>

Dry(cases, budget) ==
    [dry_run |-> TRUE, concurrency |-> 2, max_cases |-> cases, max_budget |-> budget]
Live(cases, budget) ==
    [dry_run |-> FALSE, concurrency |-> 1, max_cases |-> cases, max_budget |-> budget]

\* A dry run whose budget covers all its cases, one whose budget ends before its
\* last case, and a live run.
AllRuns  == {Dry(2, 5), Dry(3, 5), Live(2, 2)}
LiveRuns == {Live(2, 1)}
===============================================================================
