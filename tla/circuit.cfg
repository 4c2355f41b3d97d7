SPECIFICATION FairSpec
CONSTANTS
    Provider <- Providers
    Rank <- CheapFirst
    Request = {1, 2, 3}
    Eligible <- OthersAreFrugal
    Demanding = {2}
    FailureThreshold = 2
    RecoveryTimeout = 1
    SuccessThreshold = 2
    MaximumAttempts = 2
    MaxClock = 1
    MaxRestarts = 1
INVARIANT RefusedForCause
PROPERTY RestsAfterFailures
PROPERTY EveryRequestEnds
\* A behaviour ends when every request has.
CHECK_DEADLOCK FALSE
