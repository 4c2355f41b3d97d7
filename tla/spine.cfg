SPECIFICATION Spec
CONSTANTS
    None = None
    x1 = x1
    Run = {"r1"}
    Dept = {"d1"}
    Task = {"t1"}
    Artifact = {x1}
    Writer = {"w1"}
    Keeper = {"k1"}
    Owner <- FirstWriter
    MaxEvents = 1
    MaxVersions = 2
    MaxFaults = 1
INVARIANT FilesFirst
INVARIANT QuietIndexAgrees
INVARIANT RestoreIsSound
PROPERTY RecoverFailsForCause
\* A bounded run ends.
CHECK_DEADLOCK FALSE
