SPECIFICATION Spec
CONSTANTS
    Keys = {k1}
    Procs = {p1, p2}
    Blobs = {b1, b2, b3}
    Uuids = {u1}
    MaxClock = 4
    Cutoff = 1
    Heritage = {"none", "legacy"}
    Requests = {"put", "delete"}
    Faults = {"crash", "error"}
    NoRecord = NoRecord
SYMMETRY Symmetry
INVARIANTS
    TypeOK
    RecordsHaveData
    CountMatchesScan
    NoStrayData
    PublishesUnderCurrentStatus
PROPERTIES
    VersionsSurvive
    ImplementsContract
