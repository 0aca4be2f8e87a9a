\* An upload, its duplicate, a replacement or a retry, every fault of the queue and the
\* shim.  The bounds on messages and executions end every behaviour, so deadlock is not
\* checked.
SPECIFICATION PipelineSafety
CONSTANTS
    s1 = s1
    m1 = m1
    m2 = m2
    r1 = r1
    Slots = {s1}
    Messages = {m1, m2}
    Requests = {r1}
    None = None
    Heights = {480, 720}
    Faults = {}
    QueueFaults = {"rpc_error", "delete_error", "db_error", "crash"}
    MaxClaims = 0
    MaximumAttempts = 1
    MaxRuns = 2
    MaxReceiveCount = 1
SYMMETRY PipelineSymmetry
INVARIANTS
    RetryOfClosedRestarts
    RenditionsMatchRecord
PROPERTIES
    OnlyIncompleteJobsRerun
    DeliveredIsNotReprocessed
    ImplementsRetriedLifecycle
CHECK_DEADLOCK FALSE
