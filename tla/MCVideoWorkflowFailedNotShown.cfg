\* One activity exhausts its budget, the other is claimed again later.
\* A workflow that is closed and at its last run starts nothing more, so deadlock is
\* not checked.
SPECIFICATION WorkflowSafety
CONSTANTS
    s1 = s1
    s2 = s2
    Slots = {s1, s2}
    None = None
    Heights = {720}
    Faults = {}
    MaxClaims = 0
    MaximumAttempts = 2
    MaxRuns = 1
INVARIANTS
    FailedExecutionShows
CHECK_DEADLOCK FALSE
