SPECIFICATION FairSpec
CONSTANTS
    Keys = {k1}
    Procs = {p1, p2}
    Blobs = {b1, b2}
    Uuids = {u1}
    MaxClock = 5
    Cutoff = 1
    Heritage = {"none"}
    Requests = {"put", "delete"}
    Faults = {"error"}
    NoRecord = NoRecord
PROPERTIES
    EveryRequestReturns
