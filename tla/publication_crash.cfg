SPECIFICATION Spec
CONSTANTS
    s1 = s1
    a1 = a1
    a2 = a2
    c1 = c1
    l1 = l1
    l2 = l2
    Service = {s1}
    Action = {a1, a2}
    Candidate = {c1}
    CandidateOf <- OneCandidate
    Lease = {l1, l2}
    ActiveAt <- Rotating
    LeaseCap <- OneEach
    WindowLimit = 1
    Window = 0
    MaxAttempts = 2
    MaxClock = 1
    MaxCrashes = 1
INVARIANT AcceptedIsBound
CHECK_DEADLOCK FALSE
