\* Three slots on a pool of two connections.
SPECIFICATION WorkerSpec
CONSTANTS
    s1 = s1
    s2 = s2
    s3 = s3
    Slots = {s1, s2, s3}
    Sessions = {s1, s2, s3}
    PoolSize = 1
    MaxOverflow = 1
INVARIANTS
    WorkerTypeOK
    NoWaitWithConnection
    NoOrphans
    CancelledIsNotFailed
PROPERTIES
    ShutdownEnds
