\* The server gives up on attempts that still run: attempts of one job overlap,
\* beside failing statements and lost acknowledgements.
\* A workflow that is closed and at its last run starts nothing more, so deadlock is
\* not checked.
SPECIFICATION WorkflowSafety
CONSTANTS
    s1 = s1
    s2 = s2
    Slots = {s1, s2}
    None = None
    Heights = {720}
    Faults = {"overrun", "db_error", "lost_ack"}
    MaxClaims = 0
    MaximumAttempts = 2
    MaxRuns = 1
SYMMETRY SlotSymmetry
INVARIANTS
    CompletedJobHasResults
    FinishedVideoIsWhole
    AssetRowsHaveObjects
    ClaimsStayInBudget
CHECK_DEADLOCK FALSE
