SPECIFICATION Spec
CONSTANTS
    Names = {n1, n2}
    Procs = {p1, p2}
    Configs = {public, private}
    MaxEntries = 1
    MaxGen = 3
SYMMETRY Symmetry
INVARIANTS
    CacheNeverStale
PROPERTIES
    LookupsAreAtomic
