SPECIFICATION FairSpec
CONSTANTS
    Runs <- AllRuns
    Executors = {e1, e2}
    Cost <- Costs
    LiveCosts = {1, 2}
    MaxExecutions = 2
INVARIANTS
    TypeOK
    DryWithinBudget
    CompletedMeansAll
PROPERTIES
    CompletedIsKept
    ExecutionEnds
CHECK_DEADLOCK FALSE
