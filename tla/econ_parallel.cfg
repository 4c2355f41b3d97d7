SPECIFICATION Spec
CONSTANTS
    a = a
    b = b
    c = c
    Node = {a, b}
    MaxCalls = 2
    Category = {"api"}
    CategoryOf <- OneCategory
    Cap <- CapThree
    Estimate <- EstimateTwo
    Actual = {1, 3}
    Workers = 2
    MaxClock = 2
    MaxCrashes = 1
SYMMETRY Symmetry
INVARIANT OverrunBounded
INVARIANT NoLeakedHold
INVARIANT CommittedIsCharged
\* Calls end and the bounded clock stops.
CHECK_DEADLOCK FALSE
