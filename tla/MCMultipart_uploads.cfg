SPECIFICATION FairSpec
CONSTANTS
    NumUploads = 1
    Parts = {1, 2}
    Contents = {a, b}
    Clients = {c1, c2}
    Sweeper = sweeper
    BatchSize = 1
    MaxFiles = 2
    MaxCrashes = 1
    MaxFailures = 1
    NoPart = NoPart
    NoRecord = NoRecord
    NoProc = NoProc
CHECK_DEADLOCK FALSE
INVARIANTS
    TypeOK
    PartsOnDisk
    PublishedOnce
    NothingLeftBehind
    GaugeCounts
PROPERTIES
    CompletedAsRequested
    NoPartLost
    ExpiredUploadsGo
