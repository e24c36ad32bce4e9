SPECIFICATION Spec
CONSTANTS
    Runs <- LiveRuns
    Executors = {e1}
    Cost <- Costs
    LiveCosts = {1}
    MaxExecutions = 1
INVARIANTS
    StrictBudget
CHECK_DEADLOCK FALSE
