SPECIFICATION StudioSpec
CONSTANTS
    Material = {m1, m2}
    Craft = {t1}
    Tokens <- MCTokens
    Budgets = {2}
    MaxPerKind = 2
    BootRun = {k1}
    BibleRun = {b1, b2}
    ContextRun = {c1}
    Job = {j1}
    MaxSeeds = 2
    MaxDeaths = 1
SYMMETRY MCSymmetry
INVARIANT BibleIsSound
INVARIANT CountsAreTrue
INVARIANT ContextIsSound
CHECK_DEADLOCK FALSE
