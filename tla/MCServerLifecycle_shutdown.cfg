SPECIFICATION FairSpec
CONSTANTS
    Events = {c1, f1, f2}
    Workers = {w1}
    QueueSize = 1
    MaxRetries = 1
    S3Requests = {r1, r2}
    LogQueueSize = 1
    LogBatch = 2
    ConsoleRequests = {c1}
    Writes = {c1}
    FlushEvents = {f1, f2}
CHECK_DEADLOCK FALSE
INVARIANTS
    TypeOK
    ClosesBehindUsers
    EventsAccounted
    LogsWritten
PROPERTIES
    ShutdownReturns
