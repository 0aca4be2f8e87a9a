\* One attempt of a job at a time, every fault but overrun.  The bound on claims
\* ends every behaviour, so deadlock is not checked.
SPECIFICATION JobsSpec
CONSTANTS
    s1 = s1
    s2 = s2
    Slots = {s1, s2}
    None = None
    Heights = {0, 1080}
    Faults = {"lost_attempt", "db_error", "lost_ack"}
    MaxClaims = 6
SYMMETRY SlotSymmetry
INVARIANTS
    JobsTypeOK
    NoSurplusAssets
    FinishedVideoHasFinishedJobs
PROPERTIES
    CompletedIsFinal
    ClaimsAreCounted
CHECK_DEADLOCK FALSE
