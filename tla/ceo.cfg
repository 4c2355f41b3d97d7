SPECIFICATION FairSpec
CONSTANTS
    Submission = {"s1", "s2"}
    CliRun = {"c1"}
    Resumption = {"r1", "r2"}
    Hasty = {}
    Pausing = {"r1"}
    MaxCrashes = 2
INVARIANT RecordsAgree
INVARIANT ExecutedOnce
PROPERTY EveryCommandReported
PROPERTY InterruptedIsResumed
\* Finished runs take no further step.
CHECK_DEADLOCK FALSE
