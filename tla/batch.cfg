SPECIFICATION FairSpec
CONSTANTS
    r1 = r1
    NumSlots = 3
    Required = {1, 2}
    Reason = {r1}
    MaxBlocks = 1
    MaxClock = 1
    MaxCrashes = 1
INVARIANT SlotsAreReplayed
INVARIANT ReleaseIsSound
PROPERTY BatchCompletes
\* The bounded clock stops.
CHECK_DEADLOCK FALSE
