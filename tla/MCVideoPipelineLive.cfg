\* One upload, attempts that are lost, a queue that works. The bounds on
\* messages and executions end every behaviour, so deadlock is not checked.
SPECIFICATION PipelineSpec
CONSTANTS
    s1 = s1
    s2 = s2
    m1 = m1
    Slots = {s1, s2}
    Messages = {m1}
    Requests = {}
    None = None
    Heights = {720}
    Faults = {"lost_attempt"}
    QueueFaults = {}
    MaxClaims = 0
    MaximumAttempts = 2
    MaxRuns = 1
    MaxReceiveCount = 2
PROPERTIES
    UploadIsProcessed
CHECK_DEADLOCK FALSE
