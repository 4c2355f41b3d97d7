SPECIFICATION FairSpec
CONSTANTS
    Task = {"t1", "t2"}
    Shared = {"t1", "t2"}
    EvidenceKind = {"draft", "quality"}
    Disturbed = {"t1"}
    MaxSeconds = 1
    MaxFaults = 1
INVARIANT AcceptedIsSound
INVARIANT RegistryIsTrue
PROPERTY FactsAreKept
PROPERTY EverySubmissionEnds
\* Calls on tasks that are over change nothing.
CHECK_DEADLOCK FALSE
