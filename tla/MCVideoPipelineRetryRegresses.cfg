\* A retry commits its status after the execution it started has finished. The bounds on
\* messages and executions end every behaviour, so deadlock is not checked.
SPECIFICATION PipelineSafety
CONSTANTS
    s1 = s1
    m1 = m1
    m2 = m2
    r1 = r1
    Slots = {s1}
    Messages = {m1, m2}
    Requests = {r1}
    None = None
    Heights = {720}
    Faults = {}
    QueueFaults = {}
    MaxClaims = 0
    MaximumAttempts = 1
    MaxRuns = 2
    MaxReceiveCount = 3
PROPERTIES
    CompletedIsFinal
CHECK_DEADLOCK FALSE
