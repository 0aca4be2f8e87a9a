\* Two executions of two tries each, every fault but overrun.
\* A workflow that is closed and at its last run starts nothing more, so deadlock is
\* not checked.
SPECIFICATION WorkflowSafety
CONSTANTS
    s1 = s1
    s2 = s2
    Slots = {s1, s2}
    None = None
    Heights = {0, 720}
    Faults = {"lost_attempt", "db_error", "lost_ack"}
    MaxClaims = 0
    MaximumAttempts = 2
    MaxRuns = 2
SYMMETRY SlotSymmetry
INVARIANTS
    WorkflowTypeOK
    TranscodeComesLast
    ClosedExecutionIsQuiet
    MetadataIsAnswered
PROPERTIES
    ImplementsLifecycle
CHECK_DEADLOCK FALSE
