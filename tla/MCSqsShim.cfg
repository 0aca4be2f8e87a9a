\* Every kind of body, every fault.  The bound on messages ends every behaviour, so
\* deadlock is not checked.
SPECIFICATION ShimSpec
CONSTANTS
    m1 = m1
    m2 = m2
    v1 = v1
    v2 = v2
    Videos = {v1, v2}
    Stray = Stray
    Garbage = Garbage
    Messages = {m1, m2}
    Bodies <- MCBodies
    BatchSize = 2
    MaxReceiveCount = 2
    QueueFaults = {"db_error", "rpc_error", "delete_error", "crash"}
INVARIANTS
    ShimTypeOK
    DeletedMeansStarted
PROPERTIES
    OneHandlerPerMessage
    MessagesSettle
CHECK_DEADLOCK FALSE
