SPECIFICATION Spec
CONSTANTS
    Keys = {k1}
    Procs = {p1, p2}
    Blobs = {b1, b2, b3}
    Uuids = {u1, u2, u3}
    MaxClock = 4
    Cutoff = 1
    Heritage = {"history", "legacy"}
    Requests = {"put", "delete", "expire", "get"}
    Faults = {}
    NoRecord = NoRecord
SYMMETRY Symmetry
INVARIANTS
    LatestAgrees
    ExpirySparesReplacement
    ExpirySparesCurrentAgain
    ReadersNeverMixVersions
