SPECIFICATION Spec
CONSTANTS
    Names = {n1, n2}
    Procs = {p1, p2}
    Handles = {h1, h2, h3}
    Files = {f1, f2, f3}
    MaxOpen = 1
    Requests = {"put", "remove", "list", "create", "delete"}
    Faults = {"crash"}
    NoHandle = NoHandle
    NoFile = NoFile
    NoProc = NoProc
SYMMETRY Symmetry
INVARIANTS
    TypeOK
    NoUseAfterClose
    NoLeakedHandle
    OpensOnce
    DeletedLeavesNothing
    WritesReachDisk
