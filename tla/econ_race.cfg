SPECIFICATION Spec
CONSTANTS
    a = a
    b = b
    c = c
    Node = {a, b}
    MaxCalls = 1
    Category = {"api"}
    CategoryOf <- OneCategory
    Cap <- CapThree
    Estimate <- EstimateTwo
    Actual = {2}
    Workers = 2
    MaxClock = 1
    MaxCrashes = 0
INVARIANT WithinCaps
\* Calls end and the bounded clock stops.
CHECK_DEADLOCK FALSE
