SPECIFICATION Spec
CONSTANTS
    Files = {db, obj}
    Database = db
    Places = {d1, d2}
    Commands = {p1, p2}
    MaxWrites = 2
    MaxLate = 1
    MaxDamage = 1
INVARIANTS
    PublishedTreesAreSnapshots
    ReportedTreesStay
SYMMETRY Interchangeable
