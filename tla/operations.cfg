SPECIFICATION FairOperations
CONSTANTS
    Call = {"c1"}
    Choice = {1, 2}
    WindowSize = 3
    MaxAdvances = 3
    MaxDrafts = 4
    MaxSeconds = 1
    MaxFaults = 2
INVARIANT WindowIsTrue
INVARIANT ReleasesAreAudited
INVARIANT DraftedOnce
PROPERTY RollsOn
\* The novel ends with its last advance.
CHECK_DEADLOCK FALSE
