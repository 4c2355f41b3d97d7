SPECIFICATION FairSpec
CONSTANTS
    NumNodes = 4
    Deps <- BothDeps
    MaxAttempts <- RetryThird
    Compensable = {1, 2}
    MaxWorkers = 2
    CompensateOnFailure = TRUE
    Outcomes = {"completed", "failed", "blocked", "cancelled", "raised"}
    Limits = {0, 1}
    CancelRequests = {TRUE, FALSE}
    MaxCrashes = 1
INVARIANT TypeOK
INVARIANT DependenciesFirst
INVARIANT AttemptBudget
INVARIANT VerdictIsTrue
PROPERTY SettledForever
PROPERTY RollbackOrder
PROPERTY ImplementsDagTask
PROPERTY EveryTaskSettles
\* A finished or abandoned task takes no further step.
CHECK_DEADLOCK FALSE
